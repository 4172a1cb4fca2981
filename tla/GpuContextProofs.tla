-------------------------- MODULE GpuContextProofs --------------------------
(***************************************************************************)
(* What GpuContext guarantees for any number of threads, slots, sizes,     *)
(* calls and driver errors.  Of its submission slots: a slot's command     *)
(* buffer and staging are rewritten only when the device is done with      *)
(* them, and a thread that waits with the lock held waits for a            *)
(* submission.  Of device memory: whatever is reachable is well typed, a   *)
(* buffer is in the pool, behind one id or in one call's hands and nowhere *)
(* else, and the accounting never says less than the driver holds.         *)
(***************************************************************************)
EXTENDS GpuContext, Induction, TLAPS

-----------------------------------------------------------------------------
\* A sequence, whatever its elements.
Sequence(s) == \E T : s \in Seq(T)

LEMMA AppendIs ==
    ASSUME NEW s, NEW e, Sequence(s)
    PROVE  /\ Sequence(Append(s, e))
           /\ DOMAIN Append(s, e) = DOMAIN s \cup {Len(s) + 1}
           /\ Len(s) + 1 \notin DOMAIN s
           /\ \A k \in DOMAIN s : Append(s, e)[k] = s[k]
           /\ Append(s, e)[Len(s) + 1] = e
<1>1. PICK T : s \in Seq(T)
  BY DEF Sequence
<1>. DEFINE U == T \cup {e}
<1>2. s \in Seq(U) /\ e \in U
  BY <1>1
<1>. HIDE DEF U
<1>3. Append(s, e) \in Seq(U) /\ Len(Append(s, e)) = Len(s) + 1
  BY <1>2
<1>4. /\ DOMAIN Append(s, e) = DOMAIN s \cup {Len(s) + 1}
      /\ Len(s) + 1 \notin DOMAIN s
  BY <1>2, <1>3
<1>5. (\A k \in DOMAIN s : Append(s, e)[k] = s[k]) /\ Append(s, e)[Len(s) + 1] = e
  BY <1>2
<1>. QED
  BY <1>3, <1>4, <1>5 DEF Sequence

LEMMA TailIs ==
    ASSUME NEW s, Sequence(s), s # <<>>
    PROVE  /\ Sequence(Tail(s))
           /\ 1 \in DOMAIN s /\ Head(s) = s[1] /\ DOMAIN s \subseteq Nat
           /\ \A k : k \in DOMAIN Tail(s) <=> k # 0 /\ k \in Nat /\ k + 1 \in DOMAIN s
           /\ \A k \in DOMAIN Tail(s) : Tail(s)[k] = s[k + 1]
<1>1. PICK T : s \in Seq(T)
  BY DEF Sequence
<1>2. Tail(s) \in Seq(T) /\ Len(Tail(s)) = Len(s) - 1 /\ Len(s) \in Nat /\ Len(s) # 0
  BY <1>1
<1>3. DOMAIN Tail(s) = 1..(Len(s) - 1) /\ DOMAIN s = 1..Len(s)
  BY <1>1, <1>2
<1>4. \A k \in DOMAIN Tail(s) : Tail(s)[k] = s[k + 1]
  BY <1>1, <1>3
<1>5. 1 \in DOMAIN s /\ Head(s) = s[1] /\ DOMAIN s \subseteq Nat
  BY <1>1, <1>2, <1>3
<1>6. \A k : k \in DOMAIN Tail(s) <=> k # 0 /\ k \in Nat /\ k + 1 \in DOMAIN s
  BY <1>2, <1>3
<1>. QED
  BY <1>2, <1>4, <1>5, <1>6 DEF Sequence

LEMMA RemoveIs ==
    ASSUME NEW s, Sequence(s), NEW k \in DOMAIN s
    PROVE  /\ Sequence(RemoveAt(s, k))
           /\ \A i \in DOMAIN RemoveAt(s, k) : \E j \in DOMAIN s : RemoveAt(s, k)[i] = s[j]
<1>1. PICK T : s \in Seq(T)
  BY DEF Sequence
<1>. DEFINE U == {s[i] : i \in DOMAIN s}
<1>2. Len(s) \in Nat /\ DOMAIN s = 1..Len(s) /\ k \in 1..Len(s)
  BY <1>1
<1>3. \A i \in 1..Len(s) : s[i] \in U
  BY <1>2
<1>. HIDE DEF U
<1>4. SubSeq(s, 1, k - 1) \in Seq(U) /\ SubSeq(s, k + 1, Len(s)) \in Seq(U)
  BY <1>1, <1>2, <1>3
<1>5. RemoveAt(s, k) \in Seq(U)
  BY <1>4 DEF RemoveAt
<1>6. \A i \in DOMAIN RemoveAt(s, k) : RemoveAt(s, k)[i] \in U
  BY <1>5
<1>. QED
  BY <1>5, <1>6 DEF Sequence, U

-----------------------------------------------------------------------------
(***************************************************************************)
(* The inductive invariant.  SlotsIdleWhenReused is not inductive alone: a *)
(* fence that has signalled is what a caller takes for the end of its      *)
(* submission, so a slot may have one in flight at most, and the lock must *)
(* keep everybody else from the slot somebody records into.                *)
(***************************************************************************)
Holding == {"wait slot", "record", "wait sync", "wait read"}
Waiting == {"wait slot", "sync", "wait sync", "wait read"}

\* The tables have their keys, and whatever names a slot names one.
Shaped ==
  /\ cursor \in Slots
  /\ claimed \in [Slots -> BOOLEAN] /\ fence \in [Slots -> BOOLEAN]
  /\ DOMAIN pc = Client /\ DOMAIN call = Client /\ DOMAIN pending = Client
  /\ Sequence(queue) /\ \A k \in DOMAIN queue : queue[k].slot \in Slots
  /\ \A c \in Client :
       /\ "slot" \in DOMAIN call[c] /\ call[c].slot \in Slots
       /\ Sequence(pending[c])
       /\ \A k \in DOMAIN pending[c] : pending[c][k].slot \in Slots

LockHolds == \A c \in Client : (lock = c) <=> (pc[c] \in Holding)

OneInFlight ==
  /\ \A j, k \in DOMAIN queue : queue[j].slot = queue[k].slot => j = k
  /\ \A s \in Slots : fence[s] => ~InFlight(s)

SlotsIdle ==
  /\ \A s \in Slots : ~claimed[s] => ~InFlight(s)
  /\ \A c \in Client : pc[c] = "record" => ~InFlight(call[c].slot) /\ claimed[call[c].slot]

\* A slot that has a submission to wait for has signalled or will.
Served(s) == fence[s] \/ InFlight(s)
WaitsServed ==
  ~refused =>
    /\ \A s \in Slots : claimed[s] =>
         Served(s) \/ \E c \in Client : pc[c] = "record" /\ call[c].slot = s
    /\ \A c \in Client :
         /\ pc[c] \in Waiting => Served(call[c].slot)
         /\ \A k \in DOMAIN pending[c] : Served(pending[c][k].slot)

IInv == Shaped /\ LockHolds /\ OneInFlight /\ SlotsIdle /\ WaitsServed

LEMMA IdleSlot == "slot" \in DOMAIN Idle /\ Idle.slot \in Slots
  BY SlotsAssumption DEF Idle, Slots

-----------------------------------------------------------------------------
\* What happens to the queue.

LEMMA QueueKept ==
    ASSUME queue' = queue
    PROVE  \A s : InFlight(s)' <=> InFlight(s)
  BY DEF InFlight

LEMMA Enqueued ==
    ASSUME Shaped, NEW e, queue' = Append(queue, e)
    PROVE  \A s : InFlight(s)' <=> InFlight(s) \/ s = e.slot
  BY AppendIs DEF InFlight, Shaped

LEMMA Dequeued ==
    ASSUME Shaped, OneInFlight, queue # <<>>, queue' = Tail(queue)
    PROVE  \A s : InFlight(s)' <=> InFlight(s) /\ s # Head(queue).slot
<1>1. /\ 1 \in DOMAIN queue /\ Head(queue) = queue[1] /\ DOMAIN queue \subseteq Nat
      /\ \A k : k \in DOMAIN queue' <=> k # 0 /\ k \in Nat /\ k + 1 \in DOMAIN queue
      /\ \A k \in DOMAIN queue' : queue'[k] = queue[k + 1]
  BY TailIs DEF Shaped
<1>2. ASSUME NEW s, InFlight(s)' PROVE InFlight(s) /\ s # Head(queue).slot
  <2>1. PICK k \in DOMAIN queue' : queue'[k].slot = s
    BY <1>2 DEF InFlight
  <2>2. k + 1 \in DOMAIN queue /\ queue[k + 1].slot = s /\ k + 1 # 1
    BY <1>1, <2>1
  <2>. QED
    BY <1>1, <2>2 DEF InFlight, OneInFlight
<1>3. ASSUME NEW s, InFlight(s), s # Head(queue).slot PROVE InFlight(s)'
  <2>1. PICK k \in DOMAIN queue : queue[k].slot = s
    BY <1>3 DEF InFlight
  <2>2. k \in Nat /\ k # 1
    BY <1>1, <1>3, <2>1
  <2>3. k # 0
    <3>1. PICK T : queue \in Seq(T)
      BY DEF Shaped, Sequence
    <3>. QED
      BY <2>1, <3>1
  <2>4. k - 1 \in DOMAIN queue' /\ queue'[k - 1] = queue[k]
    BY <1>1, <2>1, <2>2, <2>3
  <2>. QED
    BY <2>1, <2>4 DEF InFlight
<1>. QED
  BY <1>2, <1>3

-----------------------------------------------------------------------------
\* What a step does to the slots, whichever call it belongs to.

\* Only memory, or what a call has in hand, changes.
LEMMA QuietStep ==
    ASSUME IInv,
           UNCHANGED <<lock, cursor, claimed, fence, queue, pc, pending, refused>>,
           DOMAIN call' = Client,
           \A c \in Client : "slot" \in DOMAIN call'[c] /\ call'[c].slot = call[c].slot
    PROVE  IInv'
<1>1. \A s : InFlight(s)' <=> InFlight(s)
  BY QueueKept
<1>2. Shaped'
  BY DEF IInv, Shaped
<1>3. LockHolds' /\ OneInFlight' /\ SlotsIdle'
  BY <1>1 DEF IInv, LockHolds, OneInFlight, SlotsIdle
<1>4. WaitsServed'
  BY <1>1 DEF IInv, WaitsServed, Served
<1>. QED
  BY <1>2, <1>3, <1>4 DEF IInv

\* A call ends with the lock in hand: it gives up, or it frees its slot.
LEMMA LeaveStep ==
    ASSUME IInv, NEW c \in Client, pc[c] \in Holding, Return(c),
           UNCHANGED <<cursor, queue, pending>>,
           \/ claimed' = claimed /\ pc[c] # "record"
           \/ claimed' = [claimed EXCEPT ![call[c].slot] = FALSE] /\ ~InFlight(call[c].slot),
           \/ fence' = fence /\ (refused => refused')
           \/ fence' = FenceReset(call[c].slot) /\ refused'
    PROVE  IInv'
<1>1. \A s : InFlight(s)' <=> InFlight(s)
  BY QueueKept
<1>2. /\ lock' = NoClient /\ lock = c
      /\ pc' = [pc EXCEPT ![c] = "idle"] /\ call' = [call EXCEPT ![c] = Idle]
  BY DEF Return, IInv, LockHolds
<1>3. Shaped'
  <2>1. "slot" \in DOMAIN Idle /\ Idle.slot \in Slots
    BY IdleSlot
  <2>2. claimed' \in [Slots -> BOOLEAN] /\ fence' \in [Slots -> BOOLEAN]
    BY DEF IInv, Shaped, FenceReset
  <2>3. \A d \in Client : "slot" \in DOMAIN call'[d] /\ call'[d].slot \in Slots
    BY <1>2, <2>1 DEF IInv, Shaped
  <2>. QED
    BY <1>2, <2>2, <2>3 DEF IInv, Shaped
<1>4. LockHolds'
  BY <1>2, NoClientAssumption DEF IInv, LockHolds, Shaped, Holding
<1>5. OneInFlight'
  BY <1>1 DEF IInv, OneInFlight, Shaped, FenceReset
<1>6. SlotsIdle'
  <2>1. ASSUME NEW d \in Client, pc'[d] = "record" PROVE FALSE
    BY <1>2, <2>1 DEF IInv, LockHolds, Shaped, Holding
  <2>. QED
    BY <1>1, <2>1 DEF IInv, SlotsIdle, Shaped
<1>7. WaitsServed'
  <2>. SUFFICES ASSUME ~refused' PROVE WaitsServed'
    BY DEF WaitsServed
  <2>1. fence' = fence /\ ~refused /\ \A s : Served(s)' <=> Served(s)
    BY <1>1 DEF Served
  <2>2. ASSUME NEW s \in Slots, claimed'[s] PROVE Served(s)
    <3>1. claimed[s] /\ (pc[c] = "record" => call[c].slot # s)
      BY <2>2 DEF IInv, Shaped
    <3>2. \A d \in Client : pc[d] = "record" => d = c
      BY <1>2 DEF IInv, LockHolds, Holding
    <3>. QED
      BY <2>1, <3>1, <3>2 DEF IInv, WaitsServed
  <2>3. ASSUME NEW d \in Client, pc'[d] \in Waiting PROVE Served(call'[d].slot)
    BY <1>2, <2>1, <2>3 DEF IInv, WaitsServed, Shaped, Waiting
  <2>4. ASSUME NEW d \in Client, NEW k \in DOMAIN pending[d] PROVE Served(pending[d][k].slot)
    BY <2>1, <2>4 DEF IInv, WaitsServed
  <2>. QED
    BY <2>1, <2>2, <2>3, <2>4 DEF WaitsServed
<1>. QED
  BY <1>3, <1>4, <1>5, <1>6, <1>7 DEF IInv

LEMMA RingWraps ==
    ASSUME NEW a \in Nat, NEW n \in Nat \ {0}
    PROVE  a % n \in 0..(n - 1)
  OBVIOUS

\* A call takes the next slot of the ring.
LEMMA TakeStep ==
    ASSUME IInv, NEW c \in Client, pc[c] \notin Holding, pc[c] \notin Waiting,
           NEW r, "slot" \in DOMAIN r, Take(c, r),
           UNCHANGED <<queue, pending, refused>>
    PROVE  IInv'
<1>. DEFINE q == [r EXCEPT !.slot = cursor]
<1>1. \A s : InFlight(s)' <=> InFlight(s)
  BY QueueKept
<1>2. /\ lock = NoClient /\ lock' = c
      /\ call' = [call EXCEPT ![c] = q] /\ fence' = fence
      /\ cursor \in Slots
  BY DEF Take, IInv, Shaped
<1>3. "slot" \in DOMAIN q /\ q.slot = cursor
  OBVIOUS
<1>. HIDE DEF q
<1>4. \/ /\ claimed[cursor] /\ claimed' = claimed
         /\ pc' = [pc EXCEPT ![c] = "wait slot"]
      \/ /\ ~claimed[cursor] /\ claimed' = [claimed EXCEPT ![cursor] = TRUE]
         /\ pc' = [pc EXCEPT ![c] = "record"]
  BY DEF Take, MustWait
<1>5. \A d \in Client : pc[d] \notin Holding
  BY <1>2, NoClientAssumption DEF IInv, LockHolds
<1>6. Shaped'
  <2>1. cursor' \in Slots
    <3>1. cursor' = (cursor + 1) % SlotDepth
      BY DEF Take
    <3>2. cursor + 1 \in Nat
      BY <1>2 DEF Slots
    <3>. QED
      BY <3>1, <3>2, RingWraps, SlotsAssumption DEF Slots
  <2>2. claimed' \in [Slots -> BOOLEAN] /\ DOMAIN pc' = Client
    BY <1>4 DEF IInv, Shaped
  <2>3. \A d \in Client : "slot" \in DOMAIN call'[d] /\ call'[d].slot \in Slots
    BY <1>2, <1>3 DEF IInv, Shaped
  <2>. QED
    BY <1>2, <2>1, <2>2, <2>3 DEF IInv, Shaped
<1>7. LockHolds'
  BY <1>2, <1>4, <1>5 DEF IInv, LockHolds, Shaped, Holding
<1>8. OneInFlight'
  BY <1>1, <1>2 DEF IInv, OneInFlight
<1>9. SlotsIdle'
  <2>1. \A s \in Slots : ~claimed'[s] => ~InFlight(s)
    BY <1>4 DEF IInv, SlotsIdle, Shaped
  <2>2. ASSUME NEW d \in Client, pc'[d] = "record"
        PROVE  ~InFlight(call'[d].slot) /\ claimed'[call'[d].slot]
    <3>1. d = c /\ ~claimed[cursor] /\ claimed' = [claimed EXCEPT ![cursor] = TRUE]
      BY <1>4, <1>5, <2>2 DEF Holding, IInv, Shaped
    <3>2. call'[d].slot = cursor
      BY <1>2, <1>3, <3>1 DEF IInv, Shaped
    <3>. QED
      BY <1>2, <3>1, <3>2 DEF IInv, SlotsIdle, Shaped
  <2>. QED
    BY <1>1, <2>1, <2>2 DEF SlotsIdle
<1>10. WaitsServed'
  <2>. SUFFICES ASSUME ~refused PROVE WaitsServed'
    BY DEF WaitsServed
  <2>1. \A s : Served(s)' <=> Served(s)
    BY <1>1, <1>2 DEF Served
  <2>2. \A d \in Client : pc[d] # "record"
    BY <1>5 DEF Holding
  <2>3. \A s \in Slots : claimed[s] => Served(s)
    BY <2>2 DEF IInv, WaitsServed
  <2>4. ASSUME NEW s \in Slots, claimed'[s]
        PROVE  Served(s) \/ (pc'[c] = "record" /\ call'[c].slot = s)
    BY <1>2, <1>3, <1>4, <2>3, <2>4 DEF IInv, Shaped
  <2>5. ASSUME NEW d \in Client, pc'[d] \in Waiting PROVE Served(call'[d].slot)
    <3>1. CASE d = c
      BY <1>2, <1>3, <1>4, <2>3, <2>5, <3>1 DEF IInv, Shaped, Waiting
    <3>2. CASE d # c
      BY <1>2, <1>4, <2>5, <3>2 DEF IInv, WaitsServed, Shaped
    <3>. QED
      BY <3>1, <3>2
  <2>. QED
    BY <2>1, <2>4, <2>5 DEF WaitsServed, IInv
<1>. QED
  BY <1>6, <1>7, <1>8, <1>9, <1>10 DEF IInv

\* A recording is handed to the queue; a call of its own goes on to wait.
LEMMA SubmitStep ==
    ASSUME IInv, NEW c \in Client, Submit(c)
    PROVE  IInv'
<1>. DEFINE s0 == call[c].slot
            p0 == [slot |-> s0, scratch |-> call[c].scratch,
                   ids |-> Issued(Len(call[c].outs))]
<1>1. /\ pc[c] = "record" /\ lock = c
      /\ s0 \in Slots /\ ~InFlight(s0) /\ claimed[s0]
  BY DEF Submit, Recorded, IInv, LockHolds, Holding, SlotsIdle, Shaped
<1>2. /\ cursor' = cursor /\ claimed' = claimed /\ refused' = refused
      /\ fence' = [fence EXCEPT ![s0] = FALSE]
  BY DEF Submit, FenceReset, bounds
<1>3. /\ Sequence(queue') /\ \A k \in DOMAIN queue' : queue'[k].slot \in Slots
      /\ \A j, k \in DOMAIN queue' : queue'[j].slot = queue'[k].slot => j = k
      /\ \A s : InFlight(s)' <=> InFlight(s) \/ s = s0
  <2>. DEFINE e == [slot |-> s0, fetch |-> call[c].kind = "fetch", work |-> call[c].work]
  <2>1. queue' = Append(queue, e) /\ e.slot = s0
    BY DEF Submit
  <2>. HIDE DEF e, s0
  <2>2. \A s : InFlight(s)' <=> InFlight(s) \/ s = s0
    BY <2>1, Enqueued DEF IInv
  <2>3. \A k \in DOMAIN queue : queue[k].slot \in Slots /\ queue[k].slot # s0
    BY <1>1 DEF IInv, Shaped, InFlight
  <2>4. /\ Sequence(queue') /\ DOMAIN queue' = DOMAIN queue \cup {Len(queue) + 1}
        /\ \A k \in DOMAIN queue : queue'[k] = queue[k]
        /\ queue'[Len(queue) + 1] = e
    BY <2>1, AppendIs DEF IInv, Shaped
  <2>5. \A j, k \in DOMAIN queue : queue[j].slot = queue[k].slot => j = k
    BY DEF IInv, OneInFlight
  <2>. QED
    BY <1>1, <2>1, <2>2, <2>3, <2>4, <2>5
<1>4. /\ DOMAIN call' = Client /\ DOMAIN pc' = Client
      /\ \A d \in Client : "slot" \in DOMAIN call'[d] /\ call'[d].slot \in Slots
      /\ \A d \in Client : d # c => call'[d] = call[d] /\ pc'[d] = pc[d]
      /\ \/ lock' = NoClient /\ pc'[c] \in {"idle", "sync"}
         \/ lock' = c /\ pc'[c] = "wait read"
      /\ pc'[c] # "idle" => call'[c].slot = s0
  <2>1. CASE call[c].kind = "submit"
    <3>1. /\ lock' = NoClient /\ pc' = [pc EXCEPT ![c] = "idle"]
          /\ call' = [call EXCEPT ![c] = Idle]
      BY <2>1 DEF Submit, Return
    <3>. QED
      BY <3>1, IdleSlot DEF IInv, Shaped
  <2>2. CASE call[c].kind # "submit"
    <3>1. /\ lock' = IF call[c].kind = "fetch" THEN lock ELSE NoClient
          /\ pc' = [pc EXCEPT ![c] = IF call[c].kind = "fetch" THEN "wait read" ELSE "sync"]
          /\ \/ call' = [call EXCEPT ![c] = [call[c] EXCEPT !.id = Len(meant) + 1]]
             \/ call' = call
      BY <2>2 DEF Submit
    <3>. QED
      BY <1>1, <3>1 DEF IInv, Shaped
  <2>. QED
    BY <2>1, <2>2
<1>5. /\ DOMAIN pending' = Client
      /\ \A d \in Client :
           /\ Sequence(pending'[d])
           /\ \A k \in DOMAIN pending'[d] :
                pending'[d][k].slot = s0 \/ \E j \in DOMAIN pending[d] : pending'[d][k] = pending[d][j]
  <2>1. CASE call[c].kind = "submit"
    <3>1. pending' = [pending EXCEPT ![c] = Append(pending[c], p0)] /\ p0.slot = s0
      BY <2>1 DEF Submit
    <3>. HIDE DEF p0, s0
    <3>2. DOMAIN pending = Client /\ Sequence(pending[c])
      BY DEF IInv, Shaped
    <3>3. /\ Sequence(Append(pending[c], p0))
          /\ \A k \in DOMAIN Append(pending[c], p0) :
               \/ Append(pending[c], p0)[k] = p0
               \/ k \in DOMAIN pending[c] /\ Append(pending[c], p0)[k] = pending[c][k]
      BY <3>2, AppendIs
    <3>4. pending'[c] = Append(pending[c], p0) /\ \A d \in Client \ {c} : pending'[d] = pending[d]
      BY <3>1, <3>2
    <3>5. \A d \in Client \ {c} : Sequence(pending'[d])
      BY <3>4 DEF IInv, Shaped
    <3>. QED
      BY <3>1, <3>2, <3>3, <3>4, <3>5
  <2>2. CASE call[c].kind # "submit"
    BY <2>2 DEF Submit, IInv, Shaped
  <2>. QED
    BY <2>1, <2>2
<1>. HIDE DEF s0, p0
<1>6. Shaped'
  <2>1. \A d \in Client : \A k \in DOMAIN pending'[d] : pending'[d][k].slot \in Slots
    BY <1>1, <1>5 DEF IInv, Shaped
  <2>2. claimed' \in [Slots -> BOOLEAN] /\ fence' \in [Slots -> BOOLEAN] /\ cursor' \in Slots
    BY <1>2 DEF IInv, Shaped
  <2>. QED
    BY <1>3, <1>4, <1>5, <2>1, <2>2 DEF Shaped
<1>7. LockHolds'
  BY <1>1, <1>4, NoClientAssumption DEF IInv, LockHolds, Holding
<1>8. OneInFlight'
  BY <1>1, <1>2, <1>3 DEF IInv, OneInFlight, Shaped
<1>9. \A d \in Client : pc'[d] # "record"
  BY <1>1, <1>4 DEF IInv, LockHolds, Holding
<1>10. SlotsIdle'
  BY <1>1, <1>2, <1>3, <1>9 DEF IInv, SlotsIdle
<1>11. WaitsServed'
  <2>. SUFFICES ASSUME ~refused PROVE WaitsServed'
    BY <1>2 DEF WaitsServed
  <2>1. \A s \in Slots : (Served(s)' <=> Served(s) \/ s = s0)
    BY <1>1, <1>2, <1>3 DEF Served, IInv, Shaped
  <2>2. ASSUME NEW s \in Slots, claimed[s] PROVE Served(s)'
    <3>1. Served(s) \/ \E d \in Client : pc[d] = "record" /\ call[d].slot = s
      BY <2>2 DEF IInv, WaitsServed
    <3>2. \A d \in Client : pc[d] = "record" => d = c
      BY <1>1 DEF IInv, LockHolds, Holding
    <3>. QED
      BY <2>1, <2>2, <3>1, <3>2 DEF s0
  <2>3. ASSUME NEW d \in Client, pc'[d] \in Waiting PROVE Served(call[d].slot)'
    <3>1. CASE d = c
      BY <1>1, <1>4, <2>1, <2>3, <3>1 DEF Waiting
    <3>2. CASE d # c
      <4>1. Served(call[d].slot) /\ call[d].slot \in Slots
        BY <1>4, <2>3, <3>2 DEF IInv, WaitsServed, Shaped
      <4>. QED
        BY <1>1, <1>4, <2>1, <3>2, <4>1
    <3>. QED
      BY <3>1, <3>2
  <2>4. ASSUME NEW d \in Client, NEW k \in DOMAIN pending'[d]
        PROVE  Served(pending[d][k].slot)'
    <3>1. \/ pending'[d][k].slot = s0
          \/ \E j \in DOMAIN pending[d] : pending'[d][k] = pending[d][j]
      BY <1>5
    <3>2. \A j \in DOMAIN pending[d] : Served(pending[d][j].slot) /\ pending[d][j].slot \in Slots
      BY DEF IInv, WaitsServed, Shaped
    <3>. QED
      BY <1>1, <2>1, <3>1, <3>2
  <2>. QED
    BY <1>2, <2>2, <2>3, <2>4 DEF WaitsServed
<1>. QED
  BY <1>6, <1>7, <1>8, <1>10, <1>11 DEF IInv

\* The device finishes the oldest submission.
LEMMA DeviceStep ==
    ASSUME IInv, DeviceRuns
    PROVE  IInv'
<1>. DEFINE s0 == Head(queue).slot
<1>1. /\ queue # <<>> /\ queue' = Tail(queue) /\ fence' = [fence EXCEPT ![s0] = TRUE]
      /\ UNCHANGED <<lock, cursor, claimed, pc, call, pending, refused>>
  BY DEF DeviceRuns, bounds
<1>2. \A s : InFlight(s)' <=> InFlight(s) /\ s # s0
  BY <1>1, Dequeued DEF IInv
<1>3. /\ Sequence(queue') /\ 1 \in DOMAIN queue /\ s0 = queue[1].slot
      /\ \A k : k \in DOMAIN queue' <=> k # 0 /\ k \in Nat /\ k + 1 \in DOMAIN queue
      /\ \A k \in DOMAIN queue' : queue'[k] = queue[k + 1]
  BY <1>1, TailIs DEF IInv, Shaped
<1>. HIDE DEF s0
<1>4. s0 \in Slots
  BY <1>3 DEF IInv, Shaped
<1>5. Shaped'
  <2>1. \A k \in DOMAIN queue' : queue'[k].slot \in Slots
    BY <1>3 DEF IInv, Shaped
  <2>2. fence' \in [Slots -> BOOLEAN]
    BY <1>1 DEF IInv, Shaped
  <2>. QED
    BY <1>1, <1>3, <2>1, <2>2 DEF IInv, Shaped
<1>6. LockHolds'
  BY <1>1 DEF IInv, LockHolds
<1>7. OneInFlight'
  <2>1. ASSUME NEW j \in DOMAIN queue', NEW k \in DOMAIN queue', queue'[j].slot = queue'[k].slot
        PROVE  j = k
    <3>1. j \in Nat /\ k \in Nat /\ j + 1 = k + 1
      BY <1>3, <2>1 DEF IInv, OneInFlight
    <3>. QED
      BY <3>1
  <2>2. \A s \in Slots : fence'[s] => ~InFlight(s) \/ s = s0
    BY <1>1 DEF IInv, OneInFlight, Shaped
  <2>. QED
    BY <1>2, <2>1, <2>2 DEF OneInFlight
<1>8. SlotsIdle'
  BY <1>1, <1>2 DEF IInv, SlotsIdle
<1>9. WaitsServed'
  <2>1. \A s \in Slots : Served(s) => Served(s)'
    BY <1>1, <1>2, <1>4 DEF Served, IInv, Shaped
  <2>. QED
    BY <1>1, <2>1 DEF IInv, WaitsServed, Shaped
<1>. QED
  BY <1>5, <1>6, <1>7, <1>8, <1>9 DEF IInv

\* A thread without the lock turns to a submission it has to wait for.
LEMMA BeginWaitStep ==
    ASSUME IInv, NEW c \in Client, BeginWait(c)
    PROVE  IInv'
<1>1. PICK k \in DOMAIN pending[c] :
        /\ pending' = [pending EXCEPT ![c] = RemoveAt(pending[c], k)]
        /\ call' = [call EXCEPT ![c] = [Idle EXCEPT !.kind = "wait",
                      !.slot = pending[c][k].slot, !.scratch = pending[c][k].scratch,
                      !.id = pending[c][k].ids[1]]]
  BY DEF BeginWait
<1>2. /\ pc[c] = "idle" /\ pc' = [pc EXCEPT ![c] = "sync"]
      /\ UNCHANGED <<lock, cursor, claimed, fence, queue, refused>>
  BY DEF BeginWait, slots, bounds
<1>3. \A s : (InFlight(s)' <=> InFlight(s)) /\ (Served(s)' <=> Served(s))
  BY <1>2, QueueKept DEF Served
<1>4. /\ DOMAIN call' = Client
      /\ "slot" \in DOMAIN call'[c] /\ call'[c].slot = pending[c][k].slot
      /\ \A d \in Client \ {c} : call'[d] = call[d]
  BY <1>1 DEF IInv, Shaped, Idle
<1>5. /\ DOMAIN pending' = Client /\ Sequence(pending'[c])
      /\ \A j \in DOMAIN pending'[c] : \E i \in DOMAIN pending[c] : pending'[c][j] = pending[c][i]
      /\ \A d \in Client \ {c} : pending'[d] = pending[d]
  <2>1. DOMAIN pending = Client /\ Sequence(pending[c])
    BY DEF IInv, Shaped
  <2>. QED
    BY <1>1, <2>1, RemoveIs
<1>6. Shaped'
  <2>1. \A d \in Client : "slot" \in DOMAIN call'[d] /\ call'[d].slot \in Slots
    BY <1>4 DEF IInv, Shaped
  <2>2. \A d \in Client : /\ Sequence(pending'[d])
                          /\ \A j \in DOMAIN pending'[d] : pending'[d][j].slot \in Slots
    BY <1>5 DEF IInv, Shaped
  <2>. QED
    BY <1>2, <1>4, <1>5, <2>1, <2>2 DEF IInv, Shaped
<1>7. LockHolds'
  BY <1>2 DEF IInv, LockHolds, Shaped, Holding
<1>8. OneInFlight' /\ SlotsIdle'
  BY <1>2, <1>3, <1>4 DEF IInv, OneInFlight, SlotsIdle, Shaped
<1>9. WaitsServed'
  <2>. SUFFICES ASSUME ~refused PROVE WaitsServed'
    BY <1>2 DEF WaitsServed
  <2>1. ASSUME NEW s \in Slots, claimed[s]
        PROVE  Served(s) \/ \E d \in Client : pc'[d] = "record" /\ call'[d].slot = s
    BY <1>2, <1>4, <2>1 DEF IInv, WaitsServed, Shaped
  <2>2. ASSUME NEW d \in Client, pc'[d] \in Waiting PROVE Served(call[d].slot)'
    <3>1. CASE d = c
      BY <1>3, <1>4, <3>1 DEF IInv, WaitsServed
    <3>2. CASE d # c
      BY <1>2, <1>3, <1>4, <2>2, <3>2 DEF IInv, WaitsServed, Shaped
    <3>. QED
      BY <3>1, <3>2
  <2>3. ASSUME NEW d \in Client, NEW j \in DOMAIN pending'[d]
        PROVE  Served(pending[d][j].slot)'
    <3>1. \E i \in DOMAIN pending[d] : pending'[d][j] = pending[d][i]
      BY <1>5
    <3>. QED
      BY <1>3, <3>1 DEF IInv, WaitsServed
  <2>. QED
    BY <1>2, <1>3, <2>1, <2>2, <2>3 DEF WaitsServed
<1>. QED
  BY <1>6, <1>7, <1>8, <1>9 DEF IInv

\* A call that holds no lock moves on, or takes the lock to wait.
LEMMA MoveStep ==
    ASSUME IInv, NEW c \in Client, NEW at, pc' = [pc EXCEPT ![c] = at], pc[c] \notin Holding,
           UNCHANGED <<cursor, claimed, fence, queue, pending, refused>>,
           DOMAIN call' = Client,
           \A d \in Client : "slot" \in DOMAIN call'[d] /\ call'[d].slot \in Slots,
           \A d \in Client \ {c} : call'[d] = call[d],
           \/ at \notin Holding \cup Waiting /\ lock' = lock
           \/ at = "wait sync" /\ pc[c] = "sync" /\ lock = NoClient /\ lock' = c
                               /\ call'[c] = call[c]
    PROVE  IInv'
<1>1. \A s : (InFlight(s)' <=> InFlight(s)) /\ (Served(s)' <=> Served(s))
  BY QueueKept DEF Served
<1>2. /\ DOMAIN pc = Client /\ pc'[c] = at /\ at # "record" /\ pc[c] # "record"
      /\ \A d \in Client \ {c} : pc'[d] = pc[d]
  BY DEF IInv, Shaped, Holding
<1>3. Shaped'
  BY DEF IInv, Shaped
<1>4. LockHolds'
  <2>1. CASE at \notin Holding \cup Waiting /\ lock' = lock
    BY <1>2, <2>1 DEF IInv, LockHolds
  <2>2. CASE at = "wait sync" /\ lock = NoClient /\ lock' = c
    <3>1. \A d \in Client : pc[d] \notin Holding
      BY <2>2, NoClientAssumption DEF IInv, LockHolds
    <3>2. at \in Holding
      BY <2>2 DEF Holding
    <3>. QED
      BY <1>2, <2>2, <3>1, <3>2 DEF LockHolds
  <2>. QED
    BY <2>1, <2>2
<1>5. OneInFlight' /\ SlotsIdle'
  BY <1>1, <1>2 DEF IInv, OneInFlight, SlotsIdle
<1>6. WaitsServed'
  <2>. SUFFICES ASSUME ~refused PROVE WaitsServed'
    BY DEF WaitsServed
  <2>1. ASSUME NEW s \in Slots, claimed[s]
        PROVE  Served(s) \/ \E d \in Client : pc'[d] = "record" /\ call'[d].slot = s
    <3>1. CASE Served(s)
      BY <3>1
    <3>2. CASE \E d \in Client : pc[d] = "record" /\ call[d].slot = s
      <4>1. PICK d \in Client : pc[d] = "record" /\ call[d].slot = s
        BY <3>2
      <4>2. d # c
        BY <1>2, <4>1
      <4>3. pc'[d] = "record" /\ call'[d].slot = s
        BY <1>2, <4>1, <4>2
      <4>. QED
        BY <4>3
    <3>. QED
      BY <2>1, <3>1, <3>2 DEF IInv, WaitsServed
  <2>2. ASSUME NEW d \in Client, pc'[d] \in Waiting PROVE Served(call[d].slot)'
    BY <1>1, <1>2, <2>2 DEF IInv, WaitsServed, Waiting
  <2>. QED
    BY <1>1, <2>1, <2>2 DEF IInv, WaitsServed
<1>. QED
  BY <1>3, <1>4, <1>5, <1>6 DEF IInv

\* The slot's fence has signalled: it may be recorded into.
LEMMA SlotFreeStep ==
    ASSUME IInv, NEW c \in Client, SlotFree(c)
    PROVE  IInv'
<1>. DEFINE s0 == call[c].slot
<1>1. /\ pc[c] = "wait slot" /\ fence[s0] /\ s0 \in Slots
      /\ claimed' = [claimed EXCEPT ![s0] = TRUE]
      /\ pc' = [pc EXCEPT ![c] = "record"]
      /\ UNCHANGED <<lock, cursor, fence, queue, call, pending, refused>>
  BY DEF SlotFree, bounds, IInv, Shaped
<1>2. \A s : (InFlight(s)' <=> InFlight(s)) /\ (Served(s)' <=> Served(s))
  BY <1>1, QueueKept DEF Served
<1>3. lock = c /\ \A d \in Client \ {c} : pc[d] # "record"
  BY <1>1 DEF IInv, LockHolds, Holding
<1>4. Shaped'
  BY <1>1 DEF IInv, Shaped
<1>5. LockHolds'
  BY <1>1 DEF IInv, LockHolds, Shaped, Holding
<1>6. OneInFlight'
  BY <1>1, <1>2 DEF IInv, OneInFlight
<1>7. SlotsIdle'
  BY <1>1, <1>2, <1>3 DEF IInv, SlotsIdle, OneInFlight, Shaped
<1>8. WaitsServed'
  <2>. SUFFICES ASSUME ~refused PROVE WaitsServed'
    BY <1>1 DEF WaitsServed
  <2>1. ASSUME NEW s \in Slots, claimed'[s] PROVE Served(s) \/ s = s0
    BY <1>1, <1>3, <2>1 DEF IInv, WaitsServed, Shaped
  <2>2. Served(s0)
    BY <1>1 DEF Served
  <2>3. ASSUME NEW d \in Client, pc'[d] \in Waiting PROVE Served(call[d].slot)
    BY <1>1, <2>2, <2>3 DEF IInv, WaitsServed, Shaped
  <2>. QED
    BY <1>1, <1>2, <2>1, <2>2, <2>3 DEF IInv, WaitsServed
<1>. QED
  BY <1>4, <1>5, <1>6, <1>7, <1>8 DEF IInv

-----------------------------------------------------------------------------
LEMMA Starts == Init => IInv
<1>. SUFFICES ASSUME Init PROVE IInv
  OBVIOUS
<1>1. queue = <<>> /\ Sequence(queue) /\ \A s : ~InFlight(s)
  BY DEF Init, Sequence, InFlight
<1>2. \A c \in Client : Sequence(pending[c]) /\ DOMAIN pending[c] = {}
  BY DEF Init, Sequence
<1>3. Shaped
  BY <1>1, <1>2, IdleSlot, SlotsAssumption DEF Init, Shaped, Slots
<1>4. LockHolds
  BY NoClientAssumption DEF Init, LockHolds, Holding
<1>5. OneInFlight /\ SlotsIdle
  BY <1>1 DEF Init, OneInFlight, SlotsIdle
<1>6. WaitsServed
  BY <1>2 DEF Init, WaitsServed, Waiting
<1>. QED
  BY <1>3, <1>4, <1>5, <1>6 DEF IInv

\* A recording that fails leaves its slot unclaimed and the device idle on it.
LEMMA AbandonStep ==
    ASSUME IInv, NEW c \in Client, pc[c] = "record", NEW m, NEW outs, Abandon(c, m, outs),
           \/ fence' = fence /\ (refused => refused')
           \/ fence' = FenceReset(call[c].slot) /\ refused'
    PROVE  IInv'
<1>1. /\ Return(c) /\ claimed' = [claimed EXCEPT ![call[c].slot] = FALSE]
      /\ UNCHANGED <<cursor, queue, pending>>
  BY DEF Abandon
<1>2. pc[c] \in Holding /\ ~InFlight(call[c].slot)
  BY DEF Holding, IInv, SlotsIdle
<1>. QED
  BY <1>1, <1>2, LeaveStep

LEMMA Keeps ==
    ASSUME IInv, [Next]_vars
    PROVE  IInv'
<1>1. CASE UNCHANGED vars
  <2>1. UNCHANGED <<lock, cursor, claimed, fence, queue, pc, pending, refused, call>>
    BY <1>1 DEF vars, slots, bounds
  <2>. QED
    BY <2>1, QuietStep DEF IInv, Shaped
<1>2. CASE DeviceRuns
  BY <1>2, DeviceStep
<1>3. ASSUME NEW c \in Client, Begin(c) PROVE IInv'
  <2>1. PICK r \in Requests(c), size \in CallSize :
          Take(c, [Idle EXCEPT !.kind = r.kind, !.nodes = r.nodes, !.size = size])
    BY <1>3 DEF Begin
  <2>2. "slot" \in DOMAIN [Idle EXCEPT !.kind = r.kind, !.nodes = r.nodes, !.size = size]
    BY IdleSlot
  <2>3. pc[c] \notin Holding /\ pc[c] \notin Waiting /\ UNCHANGED <<queue, pending, refused>>
    BY <1>3 DEF Begin, Holding, Waiting
  <2>. QED
    BY <2>1, <2>2, <2>3, TakeStep
<1>4. ASSUME NEW c \in Client, BeginFetch(c) PROVE IInv'
  <2>1. PICK id \in owned[c] \cap DOMAIN resident :
          call' = [call EXCEPT ![c] = [Idle EXCEPT !.kind = "fetch", !.id = id,
                                                   !.src = resident[id].h]]
    BY <1>4 DEF BeginFetch
  <2>2. /\ DOMAIN call' = Client
        /\ \A d \in Client : "slot" \in DOMAIN call'[d] /\ call'[d].slot \in Slots
        /\ \A d \in Client \ {c} : call'[d] = call[d]
    BY <2>1, IdleSlot DEF IInv, Shaped
  <2>3. /\ pc' = [pc EXCEPT ![c] = "acquire"] /\ pc[c] \notin Holding
        /\ UNCHANGED <<lock, cursor, claimed, fence, queue, pending, refused>>
    BY <1>4 DEF BeginFetch, Holding, slots
  <2>4. "acquire" \notin Holding \cup Waiting
    BY DEF Holding, Waiting
  <2>. QED
    BY <2>2, <2>3, <2>4, MoveStep
<1>5. ASSUME NEW c \in Client, BeginWait(c) PROVE IInv'
  BY <1>5, BeginWaitStep
<1>6. ASSUME NEW c \in Client, Release(c) \/ Relabel(c) PROVE IInv'
  <2>1. UNCHANGED <<lock, cursor, claimed, fence, queue, pc, pending, refused, call>>
    BY <1>6 DEF Release, Relabel, slots, bounds
  <2>. QED
    BY <2>1, QuietStep DEF IInv, Shaped
<1>7. ASSUME NEW c \in Client, Acquire(c) PROVE IInv'
  <2>1. /\ Take(c, call[c]) /\ pc[c] \notin Holding /\ pc[c] \notin Waiting
        /\ UNCHANGED <<queue, pending, refused>>
    BY <1>7 DEF Acquire, Holding, Waiting, bounds
  <2>. QED
    BY <2>1, TakeStep DEF IInv, Shaped
<1>8. ASSUME NEW c \in Client, SlotFree(c) PROVE IInv'
  BY <1>8, SlotFreeStep
<1>9. ASSUME NEW c \in Client, SlotWaitFails(c) \/ SyncFails(c) \/ ReadFails(c) PROVE IInv'
  <2>1. /\ Return(c) /\ pc[c] \in Holding /\ pc[c] # "record"
        /\ UNCHANGED <<cursor, claimed, fence, queue, pending, refused>>
    BY <1>9 DEF SlotWaitFails, SyncFails, ReadFails, WaitFails, Holding
  <2>. QED
    BY <2>1, LeaveStep
<1>10. ASSUME NEW c \in Client, RecordNode(c) \/ RecordChain(c) \/ RecordFetch(c) PROVE IInv'
  <2>1. /\ UNCHANGED <<lock, cursor, claimed, fence, queue, pc, pending, refused>>
        /\ DOMAIN call' = DOMAIN call
    BY <1>10 DEF RecordNode, RecordChain, RecordFetch, slots, bounds
  <2>2. \A d \in Client : "slot" \in DOMAIN call'[d] /\ call'[d].slot = call[d].slot
    <3>1. CASE RecordNode(c)
      BY <3>1 DEF RecordNode, IInv, Shaped
    <3>2. CASE RecordChain(c)
      BY <3>2 DEF RecordChain, IInv, Shaped
    <3>3. CASE RecordFetch(c)
      BY <3>3 DEF RecordFetch, IInv, Shaped
    <3>. QED
      BY <1>10, <3>1, <3>2, <3>3
  <2>. QED
    BY <2>1, <2>2, QuietStep DEF IInv, Shaped
<1>11. ASSUME NEW c \in Client,
              RecordNodeFails(c) \/ RecordChainFails(c) \/ RecordFetchFails(c)
       PROVE  IInv'
  <2>1. /\ pc[c] = "record" /\ fence' = fence /\ refused' = refused
        /\ \E m, outs : Abandon(c, m, outs)
    BY <1>11 DEF RecordNodeFails, RecordChainFails, RecordFetchFails
  <2>. QED
    BY <2>1, AbandonStep
<1>12. ASSUME NEW c \in Client, Submit(c) PROVE IInv'
  BY <1>12, SubmitStep
<1>13. ASSUME NEW c \in Client, SubmitFails(c) PROVE IInv'
  <2>1. /\ pc[c] = "record" /\ Abandon(c, Memory, <<>>)
        /\ \/ fence' = fence /\ (refused => refused')
           \/ fence' = FenceReset(call[c].slot) /\ refused'
    BY <1>13 DEF SubmitFails, Recorded
  <2>. QED
    BY <2>1, AbandonStep
<1>14. ASSUME NEW c \in Client, TakeSync(c) PROVE IInv'
  <2>1. /\ pc' = [pc EXCEPT ![c] = "wait sync"] /\ pc[c] = "sync" /\ call' = call
        /\ lock = NoClient /\ lock' = c
        /\ UNCHANGED <<cursor, claimed, fence, queue, pending, refused>>
    BY <1>14 DEF TakeSync, bounds
  <2>2. pc[c] \notin Holding
    BY <2>1 DEF Holding
  <2>. QED
    BY <2>1, <2>2, MoveStep DEF IInv, Shaped
<1>15. ASSUME NEW c \in Client, Synced(c) \/ ReadBack(c) PROVE IInv'
  <2>1. /\ Return(c) /\ pc[c] \in Holding /\ fence[call[c].slot]
        /\ claimed' = [claimed EXCEPT ![call[c].slot] = FALSE]
        /\ UNCHANGED <<cursor, fence, queue, pending, refused>>
    BY <1>15 DEF Synced, ReadBack, bounds, Holding
  <2>2. ~InFlight(call[c].slot)
    BY <2>1 DEF IInv, OneInFlight, Shaped
  <2>. QED
    BY <2>1, <2>2, LeaveStep
<1>. QED
  BY <1>1, <1>2, <1>3, <1>4, <1>5, <1>6, <1>7, <1>8, <1>9, <1>10, <1>11, <1>12, <1>13,
     <1>14, <1>15 DEF Next, Continue

-----------------------------------------------------------------------------
\* dispatch.rs, acquire and sync: however many threads overlap their
\* submissions on however many slots, and whichever driver calls fail, a
\* slot's command buffer, descriptor sets and staging are rewritten only when
\* the device is done with them.
THEOREM SlotsAreIdle == Spec => []SlotsIdleWhenReused
<1>1. IInv => SlotsIdleWhenReused
  BY DEF IInv, SlotsIdle, SlotsIdleWhenReused
<1>. QED
  BY Starts, Keeps, <1>1, PTL DEF Spec

\* dispatch.rs, wait_on: a thread that waits for a fence with the lock in its
\* hand waits for a submission that will signal it, as long as the queue has
\* refused none after its fence was reset.
THEOREM WaitsEndWithTheDevice == Spec => []WaitsOnASubmission
<1>1. IInv => WaitsOnASubmission
  <2>. SUFFICES ASSUME IInv, ~refused, NEW c \in Client,
                       pc[c] \in {"wait slot", "wait sync", "wait read"}
                PROVE  fence[call[c].slot] \/ InFlight(call[c].slot)
    BY DEF WaitsOnASubmission
  <2>. QED
    BY DEF IInv, WaitsServed, Waiting, Served
<1>. QED
  BY Starts, Keeps, <1>1, PTL DEF Spec

-----------------------------------------------------------------------------
(***************************************************************************)
(* The operators of device memory, one at a time.                          *)
(***************************************************************************)
Buffers == [h : Nat, size : Size]
Memories == [cap : Seq(Size), freed : SUBSET Nat, content : Seq(Nat),
             recycled : [Size -> Seq(Buffers)], alive : Int]

LEMMA RecycleType ==
    ASSUME NEW m \in Memories, NEW b \in Buffers
    PROVE  /\ Recycle(m, b) \in Memories
           /\ Recycle(m, b).cap = m.cap /\ Recycle(m, b).content = m.content
           /\ \/ /\ Len(m.recycled[b.size]) < PoolCap
                 /\ Recycle(m, b).recycled =
                      [m.recycled EXCEPT ![b.size] = Append(m.recycled[b.size], b)]
                 /\ Recycle(m, b).freed = m.freed /\ Recycle(m, b).alive = m.alive
              \/ /\ Recycle(m, b).recycled = m.recycled
                 /\ Recycle(m, b).freed = m.freed \cup {b.h}
                 /\ Recycle(m, b).alive = m.alive - b.size
<1>1. b.size \in Size /\ b.h \in Nat /\ Size \subseteq Nat
  BY SizesAssumption DEF Buffers
<1>2. CASE Len(m.recycled[b.size]) < PoolCap
  <2>1. Recycle(m, b) = [m EXCEPT !.recycled[b.size] = Append(@, b)]
    BY <1>2 DEF Recycle
  <2>2. Append(m.recycled[b.size], b) \in Seq(Buffers)
    <3>1. m.recycled[b.size] \in Seq(Buffers)
      BY <1>1 DEF Memories
    <3>. QED
      BY <3>1
  <2>3. [m.recycled EXCEPT ![b.size] = Append(m.recycled[b.size], b)] \in [Size -> Seq(Buffers)]
    BY <2>2 DEF Memories
  <2>. QED
    BY <1>2, <2>1, <2>3 DEF Memories
<1>3. CASE ~(Len(m.recycled[b.size]) < PoolCap)
  <2>1. Recycle(m, b) = [m EXCEPT !.freed = @ \cup {b.h}, !.alive = @ - b.size]
    BY <1>3 DEF Recycle
  <2>2. m.freed \cup {b.h} \in SUBSET Nat /\ m.alive - b.size \in Int
    <3>1. m.freed \in SUBSET Nat /\ m.alive \in Int
      BY DEF Memories
    <3>2. b.h \in Nat /\ b.size \in Nat
      BY <1>1
    <3>3. m.freed \cup {b.h} \in SUBSET Nat
      BY <3>1, <3>2, Zenon
    <3>. QED
      BY <3>1, <3>2, <3>3
  <2>. QED
    BY <2>1, <2>2 DEF Memories
<1>. QED
  BY <1>2, <1>3

LEMMA RecycledInTurn ==
    ASSUME NEW m \in Memories, NEW bs \in Seq(Buffers)
    PROVE  \E at \in [0 .. Len(bs) -> Memories] :
              /\ at[0] = m /\ RecycleAll(m, bs) = at[Len(bs)]
              /\ \A k \in 1 .. Len(bs) : at[k] = Recycle(at[k - 1], bs[k])
<1>. DEFINE N == Len(bs)
            step == [p \in (1 .. N) \X Memories |-> Recycle(p[2], bs[p[1]])]
            Def(f) == [k \in 0 .. N |-> IF k = 0 THEN m ELSE Recycle(f[k - 1], bs[k])]
            at == CHOOSE f : f = Def(f)
<1>1. N \in Nat /\ \A k \in 1 .. N : bs[k] \in Buffers
  OBVIOUS
<1>2. \A k \in 1 .. N : \A x \in Memories : step[<<k, x>>] = Recycle(x, bs[k])
  OBVIOUS
<1>3. StepIn(N, Memories, step)
  <2>1. \A k \in 1 .. N : \A x \in Memories : Recycle(x, bs[k]) \in Memories
    BY <1>1, RecycleType
  <2>. QED
    BY <2>1 DEF StepIn
<1>. HIDE DEF step
<1>4. PICK g \in [0 .. N -> Memories] :
        g[0] = m /\ \A k \in 1 .. N : g[k] = step[<<k, g[k - 1]>>]
  <2>1. \E g : Iterates(g, N, Memories, m, step)
    BY <1>1, <1>3, IterationExists
  <2>. QED
    BY <2>1 DEF Iterates
<1>5. \A k \in 1 .. N : g[k - 1] \in Memories
  BY <1>1, <1>4
<1>6. \A k \in 1 .. N : g[k] = Recycle(g[k - 1], bs[k])
  BY <1>2, <1>4, <1>5
<1>7. g = Def(g)
  <2>1. \A k \in 0 .. N : g[k] = Def(g)[k]
    BY <1>1, <1>4, <1>6
  <2>. QED
    BY <2>1, <1>4
<1>8. at = Def(at)
  <2>. HIDE DEF Def
  <2>. QED
    BY <1>7
<1>9. RecycleAll(m, bs) = at[N]
  BY DEF RecycleAll
<1>10. /\ DOMAIN at = 0 .. N /\ at = [k \in 0 .. N |-> at[k]] /\ at[0] = m
       /\ \A k \in 1 .. N : at[k] = Recycle(at[k - 1], bs[k])
  <2>. HIDE DEF at
  <2>. QED
    BY <1>1, <1>8
<1>. HIDE DEF at
<1>11. \A k \in 0 .. N : at[k] \in Memories
  <2>. DEFINE S == {k \in Nat : k <= N => at[k] \in Memories}
  <2>1. 0 \in S
    BY <1>10
  <2>2. ASSUME NEW k \in Nat, k \in S PROVE k + 1 \in S
    <3>. SUFFICES ASSUME k + 1 <= N PROVE at[k + 1] \in Memories
      OBVIOUS
    <3>1. k + 1 \in 1 .. N /\ (k + 1) - 1 = k /\ at[k] \in Memories
      BY <1>1, <2>2
    <3>2. at[k + 1] = Recycle(at[k], bs[k + 1])
      BY <1>10, <3>1
    <3>. QED
      BY <1>1, <3>1, <3>2, RecycleType
  <2>. HIDE DEF S
  <2>3. Nat \subseteq S
    BY <2>1, <2>2, ByInduction
  <2>. QED
    BY <1>1, <2>3 DEF S
<1>. QED
  BY <1>9, <1>10, <1>11

\* What a submission's dispatches may leave in memory: stamps of V.
WorkFits(blocks, work, V) ==
  \A k \in DOMAIN work : /\ work[k].stamp \in V
                         /\ work[k].up = 0 \/ blocks[work[k].up] \in V

LEMMA ExecuteType ==
    ASSUME NEW D, NEW V, Junk \in V, NEW mem \in [D -> V], NEW blocks, NEW d,
           d.stamp \in V, d.up = 0 \/ blocks[d.up] \in V
    PROVE  Execute(blocks, mem, d) \in [D -> V]
<1>. DEFINE uploaded == IF d.up = 0 THEN mem ELSE [mem EXCEPT ![d.src] = blocks[d.up]]
            left == IF uploaded[d.src] = d.want THEN d.stamp ELSE Junk
<1>1. uploaded \in [D -> V]
  OBVIOUS
<1>2. left \in V
  OBVIOUS
<1>3. Execute(blocks, mem, d) = [uploaded EXCEPT ![d.dst] = left]
  BY DEF Execute
<1>. HIDE DEF uploaded, left
<1>. QED
  BY <1>1, <1>2, <1>3

\* A submission's dispatches run one after another, and leave memory with the
\* same blocks: at[k] is what the first k of them leave.
Ran(at, blocks, mem, work, D, V) ==
  /\ at[0] = mem /\ Executed(blocks, mem, work) = at[Len(work)]
  /\ \A k \in 0 .. Len(work) : at[k] \in [D -> V]
  /\ \A k \in 1 .. Len(work) : at[k] = Execute(blocks, at[k - 1], work[k])

LEMMA ExecutedInTurn ==
    ASSUME NEW D, NEW V, Junk \in V, NEW mem \in [D -> V], NEW blocks,
           NEW work, Sequence(work), WorkFits(blocks, work, V)
    PROVE  \E at : Ran(at, blocks, mem, work, D, V)
<1>. DEFINE N == Len(work)
            S == [D -> V]
            step == [p \in (1 .. N) \X S |-> Execute(blocks, p[2], work[p[1]])]
            Def(f) == [k \in 0 .. N |-> IF k = 0 THEN mem ELSE Execute(blocks, f[k - 1], work[k])]
            at == CHOOSE f : f = Def(f)
<1>1. N \in Nat /\ DOMAIN work = 1 .. N
  <2>1. PICK T : work \in Seq(T)
    BY DEF Sequence
  <2>. QED
    BY <2>1
<1>2. \A k \in 1 .. N : \A x \in S : Execute(blocks, x, work[k]) \in S
  BY <1>1, ExecuteType DEF WorkFits
<1>3. \A k \in 1 .. N : \A x \in S : step[<<k, x>>] = Execute(blocks, x, work[k])
  OBVIOUS
<1>4. StepIn(N, S, step)
  <2>. HIDE DEF S
  <2>. QED
    BY <1>2 DEF StepIn
<1>5. mem \in S
  OBVIOUS
<1>. HIDE DEF step, S
<1>6. PICK g \in [0 .. N -> S] :
        g[0] = mem /\ \A k \in 1 .. N : g[k] = step[<<k, g[k - 1]>>]
  <2>1. \E g : Iterates(g, N, S, mem, step)
    BY <1>1, <1>4, <1>5, IterationExists
  <2>. QED
    BY <2>1 DEF Iterates
<1>7. \A k \in 1 .. N : g[k] = Execute(blocks, g[k - 1], work[k])
  <2>1. \A k \in 1 .. N : g[k - 1] \in S
    BY <1>1, <1>6
  <2>. QED
    BY <1>3, <1>6, <2>1
<1>8. g = Def(g)
  <2>1. \A k \in 0 .. N : g[k] = Def(g)[k]
    BY <1>1, <1>6, <1>7
  <2>. QED
    BY <2>1, <1>6
<1>9. at = Def(at)
  <2>. HIDE DEF Def
  <2>. QED
    BY <1>8
<1>10. Executed(blocks, mem, work) = at[N]
  BY DEF Executed
<1>11. /\ DOMAIN at = 0 .. N /\ at = [k \in 0 .. N |-> at[k]] /\ at[0] = mem
       /\ \A k \in 1 .. N : at[k] = Execute(blocks, at[k - 1], work[k])
  <2>. HIDE DEF at, N
  <2>1. at = [k \in 0 .. N |-> IF k = 0 THEN mem ELSE Execute(blocks, at[k - 1], work[k])]
    BY <1>9
  <2>2. N \in Nat
    BY <1>1
  <2>. HIDE DEF Def
  <2>3. DOMAIN at = 0 .. N
    BY <2>1
  <2>4. at[0] = mem
    BY <2>1, <2>2
  <2>5. \A k \in 1 .. N : at[k] = Execute(blocks, at[k - 1], work[k])
    BY <2>1, <2>2
  <2>6. at = [k \in 0 .. N |-> at[k]]
    BY <2>1
  <2>. QED
    BY <2>3, <2>4, <2>5, <2>6
<1>. HIDE DEF at
<1>12. \A k \in 0 .. N : at[k] \in S
  <2>. DEFINE U == {k \in Nat : k <= N => at[k] \in S}
  <2>1. 0 \in U
    BY <1>5, <1>11
  <2>2. ASSUME NEW k \in Nat, k \in U PROVE k + 1 \in U
    <3>. SUFFICES ASSUME k + 1 <= N PROVE at[k + 1] \in S
      OBVIOUS
    <3>1. k + 1 \in 1 .. N /\ (k + 1) - 1 = k /\ at[k] \in S
      BY <1>1, <2>2
    <3>. QED
      BY <1>2, <1>11, <3>1
  <2>. HIDE DEF U
  <2>3. Nat \subseteq U
    BY <2>1, <2>2, ByInduction
  <2>. QED
    BY <1>1, <2>3 DEF U
<1>13. /\ at[0] = mem /\ Executed(blocks, mem, work) = at[N]
       /\ \A k \in 0 .. N : at[k] \in [D -> V]
       /\ \A k \in 1 .. N : at[k] = Execute(blocks, at[k - 1], work[k])
  BY <1>10, <1>11, <1>12 DEF S
<1>. QED
  BY <1>13 DEF Ran

LEMMA ExecutedType ==
    ASSUME NEW D, NEW V, Junk \in V, NEW mem \in [D -> V], NEW blocks,
           NEW work, Sequence(work), WorkFits(blocks, work, V)
    PROVE  Executed(blocks, mem, work) \in [D -> V]
<1>1. PICK at : Ran(at, blocks, mem, work, D, V)
  BY ExecutedInTurn
<1>2. Len(work) \in 0 .. Len(work)
  <2>1. PICK T : work \in Seq(T)
    BY DEF Sequence
  <2>. QED
    BY <2>1
<1>. QED
  BY <1>1, <1>2 DEF Ran

\* at[h] counts the units of the first h handles.
Counted(at, sizes, gone) ==
  /\ at \in [0 .. Len(sizes) -> Nat] /\ at[0] = 0
  /\ \A h \in 1 .. Len(sizes) : at[h] = at[h - 1] + (IF h \in gone THEN 0 ELSE sizes[h])

LEMMA UnitsInTurn ==
    ASSUME NEW sizes \in Seq(Size), NEW gone
    PROVE  \E at : Counted(at, sizes, gone) /\ Units(sizes, gone) = at[Len(sizes)]
<1>. DEFINE N == Len(sizes)
            w == [h \in 1 .. N |-> IF h \in gone THEN 0 ELSE sizes[h]]
            step == [p \in (1 .. N) \X Nat |-> p[2] + w[p[1]]]
            Def(f) == [h \in 0 .. N |->
                         IF h = 0 THEN 0 ELSE f[h - 1] + (IF h \in gone THEN 0 ELSE sizes[h])]
            at == CHOOSE f : f = Def(f)
<1>1. N \in Nat /\ \A h \in 1 .. N : sizes[h] \in Nat
  <2>1. N \in Nat /\ \A h \in 1 .. N : sizes[h] \in Size
    OBVIOUS
  <2>2. Size \subseteq Nat
    BY SizesAssumption
  <2>. QED
    BY <2>1, <2>2
<1>2. \A h \in 1 .. N : w[h] \in Nat /\ w[h] = IF h \in gone THEN 0 ELSE sizes[h]
  BY <1>1
<1>. HIDE DEF w
<1>3. \A h \in 1 .. N : \A x \in Nat : step[<<h, x>>] = x + w[h]
  OBVIOUS
<1>4. StepIn(N, Nat, step)
  BY <1>2 DEF StepIn
<1>. HIDE DEF step
<1>6. PICK g \in [0 .. N -> Nat] :
        g[0] = 0 /\ \A h \in 1 .. N : g[h] = step[<<h, g[h - 1]>>]
  <2>1. \E g : Iterates(g, N, Nat, 0, step)
    BY <1>1, <1>4, IterationExists
  <2>. QED
    BY <2>1 DEF Iterates
<1>7. \A h \in 1 .. N : g[h] = g[h - 1] + w[h]
  <2>1. \A h \in 1 .. N : g[h - 1] \in Nat
    BY <1>1, <1>6
  <2>. QED
    BY <1>3, <1>6, <2>1
<1>8. g = Def(g)
  <2>1. \A h \in 0 .. N : g[h] = Def(g)[h]
    BY <1>1, <1>2, <1>6, <1>7
  <2>. QED
    BY <2>1, <1>6
<1>9. at = Def(at)
  <2>. HIDE DEF Def
  <2>. QED
    BY <1>8
<1>10. Units(sizes, gone) = at[N]
  BY DEF Units
<1>11. /\ DOMAIN at = 0 .. N /\ at = [h \in 0 .. N |-> at[h]] /\ at[0] = 0
       /\ \A h \in 1 .. N : at[h] = at[h - 1] + (IF h \in gone THEN 0 ELSE sizes[h])
  <2>. HIDE DEF at, N
  <2>1. at = [h \in 0 .. N |->
                IF h = 0 THEN 0 ELSE at[h - 1] + (IF h \in gone THEN 0 ELSE sizes[h])]
    BY <1>9
  <2>2. N \in Nat
    BY <1>1
  <2>. HIDE DEF Def
  <2>3. DOMAIN at = 0 .. N
    BY <2>1
  <2>4. at[0] = 0
    BY <2>1, <2>2
  <2>5. \A h \in 1 .. N : at[h] = at[h - 1] + (IF h \in gone THEN 0 ELSE sizes[h])
    BY <2>1, <2>2
  <2>6. at = [h \in 0 .. N |-> at[h]]
    BY <2>1
  <2>. QED
    BY <2>3, <2>4, <2>5, <2>6
<1>. HIDE DEF at
<1>12. \A h \in 0 .. N : at[h] \in Nat
  <2>. DEFINE U == {h \in Nat : h <= N => at[h] \in Nat}
  <2>1. 0 \in U
    BY <1>11
  <2>2. ASSUME NEW h \in Nat, h \in U PROVE h + 1 \in U
    <3>. SUFFICES ASSUME h + 1 <= N PROVE at[h + 1] \in Nat
      OBVIOUS
    <3>1. h + 1 \in 1 .. N /\ (h + 1) - 1 = h /\ at[h] \in Nat
      BY <1>1, <2>2
    <3>. QED
      BY <1>1, <1>11, <3>1
  <2>. HIDE DEF U
  <2>3. Nat \subseteq U
    BY <2>1, <2>2, ByInduction
  <2>. QED
    BY <1>1, <2>3 DEF U
<1>13. Counted(at, sizes, gone)
  BY <1>11, <1>12 DEF Counted
<1>. QED
  BY <1>10, <1>13

LEMMA UnitsCount == ASSUME NEW sizes \in Seq(Size), NEW gone PROVE Units(sizes, gone) \in Nat
<1>1. PICK at : Counted(at, sizes, gone) /\ Units(sizes, gone) = at[Len(sizes)]
  BY UnitsInTurn
<1>. QED
  BY <1>1 DEF Counted

LEMMA UnitsGrow ==
    ASSUME NEW sizes \in Seq(Size), NEW s \in Size, NEW gone, Len(sizes) + 1 \notin gone
    PROVE  Units(Append(sizes, s), gone) = Units(sizes, gone) + s
<1>. DEFINE N == Len(sizes)
            more == Append(sizes, s)
<1>1. /\ more \in Seq(Size) /\ Len(more) = N + 1 /\ N \in Nat
      /\ \A h \in 1 .. N : more[h] = sizes[h]
      /\ more[N + 1] = s
  OBVIOUS
<1>. HIDE DEF more
<1>2. PICK a \in [0 .. N -> Nat] :
        /\ a[0] = 0 /\ Units(sizes, gone) = a[N]
        /\ \A h \in 1 .. N : a[h] = a[h - 1] + (IF h \in gone THEN 0 ELSE sizes[h])
  <2>1. PICK a : Counted(a, sizes, gone) /\ Units(sizes, gone) = a[N]
    BY UnitsInTurn
  <2>. QED
    BY <2>1 DEF Counted
<1>3. PICK b \in [0 .. N + 1 -> Nat] :
        /\ b[0] = 0 /\ Units(more, gone) = b[N + 1]
        /\ \A h \in 1 .. N + 1 : b[h] = b[h - 1] + (IF h \in gone THEN 0 ELSE more[h])
  <2>1. PICK b : Counted(b, more, gone) /\ Units(more, gone) = b[N + 1]
    BY <1>1, UnitsInTurn
  <2>. QED
    BY <1>1, <2>1 DEF Counted
<1>4. \A h \in 0 .. N : b[h] = a[h]
  <2>. DEFINE U == {h \in Nat : h <= N => b[h] = a[h]}
  <2>1. 0 \in U
    BY <1>2, <1>3
  <2>2. ASSUME NEW h \in Nat, h \in U PROVE h + 1 \in U
    <3>. SUFFICES ASSUME h + 1 <= N PROVE b[h + 1] = a[h + 1]
      OBVIOUS
    <3>1. h + 1 \in 1 .. N /\ h + 1 \in 1 .. N + 1 /\ (h + 1) - 1 = h /\ b[h] = a[h]
      BY <1>1, <2>2
    <3>2. a[h + 1] = a[h] + (IF h + 1 \in gone THEN 0 ELSE sizes[h + 1])
      BY <1>2, <3>1
    <3>3. b[h + 1] = b[h] + (IF h + 1 \in gone THEN 0 ELSE more[h + 1])
      BY <1>3, <3>1
    <3>. QED
      BY <1>1, <3>1, <3>2, <3>3
  <2>. HIDE DEF U
  <2>3. Nat \subseteq U
    BY <2>1, <2>2, ByInduction
  <2>. QED
    BY <1>1, <2>3 DEF U
<1>5. b[N + 1] = b[N] + s
  <2>1. N + 1 \in 1 .. N + 1 /\ (N + 1) - 1 = N
    BY <1>1
  <2>. QED
    BY <1>1, <1>3, <2>1
<1>6. b[N] = a[N]
  BY <1>1, <1>4
<1>. QED
  BY <1>2, <1>3, <1>5, <1>6 DEF more

LEMMA UnitsFreed ==
    ASSUME NEW sizes \in Seq(Size), NEW gone, NEW g \in 1 .. Len(sizes), g \notin gone
    PROVE  Units(sizes, gone \cup {g}) = Units(sizes, gone) - sizes[g]
<1>. DEFINE N == Len(sizes)
            less == gone \cup {g}
            cut(h) == IF h < g THEN 0 ELSE sizes[g]
<1>1. N \in Nat /\ g \in 1 .. N /\ g \in Nat
  OBVIOUS
<1>2. \A h \in 1 .. N : sizes[h] \in Nat
  <2>1. \A h \in 1 .. N : sizes[h] \in Size
    OBVIOUS
  <2>. QED
    BY <2>1, SizesAssumption
<1>3. PICK a \in [0 .. N -> Nat] :
        /\ a[0] = 0 /\ Units(sizes, gone) = a[N]
        /\ \A h \in 1 .. N : a[h] = a[h - 1] + (IF h \in gone THEN 0 ELSE sizes[h])
  <2>1. PICK a : Counted(a, sizes, gone) /\ Units(sizes, gone) = a[N]
    BY UnitsInTurn
  <2>. QED
    BY <2>1 DEF Counted
<1>4. PICK b \in [0 .. N -> Nat] :
        /\ b[0] = 0 /\ Units(sizes, less) = b[N]
        /\ \A h \in 1 .. N : b[h] = b[h - 1] + (IF h \in less THEN 0 ELSE sizes[h])
  <2>. HIDE DEF less
  <2>1. PICK b : Counted(b, sizes, less) /\ Units(sizes, less) = b[N]
    BY UnitsInTurn
  <2>. QED
    BY <2>1 DEF Counted
<1>5. \A h \in 0 .. N : b[h] = a[h] - cut(h)
  <2>. DEFINE U == {h \in Nat : h <= N => b[h] = a[h] - cut(h)}
  <2>1. 0 \in U
    BY <1>1, <1>3, <1>4
  <2>2. ASSUME NEW h \in Nat, h \in U PROVE h + 1 \in U
    <3>. SUFFICES ASSUME h + 1 <= N PROVE b[h + 1] = a[h + 1] - cut(h + 1)
      OBVIOUS
    <3>1. h + 1 \in 1 .. N /\ (h + 1) - 1 = h /\ b[h] = a[h] - cut(h)
      BY <1>1, <2>2
    <3>2. a[h] \in Nat /\ sizes[h + 1] \in Nat /\ sizes[g] \in Nat
      <4>1. h \in 0 .. N
        BY <1>1, <3>1
      <4>2. a[h] \in Nat
        BY <1>3, <4>1
      <4>. QED
        BY <1>1, <1>2, <3>1, <4>2
    <3>3. a[h + 1] = a[h] + (IF h + 1 \in gone THEN 0 ELSE sizes[h + 1])
      BY <1>3, <3>1
    <3>4. b[h + 1] = b[h] + (IF h + 1 \in less THEN 0 ELSE sizes[h + 1])
      BY <1>4, <3>1
    <3>5. CASE h + 1 = g
      BY <1>1, <3>1, <3>2, <3>3, <3>4, <3>5
    <3>6. CASE h + 1 # g
      <4>1. (h + 1 \in less) = (h + 1 \in gone)
        BY <3>6
      <4>2. cut(h + 1) = cut(h)
        BY <1>1, <3>6
      <4>. HIDE DEF less, cut
      <4>3. CASE h + 1 \in gone
        BY <3>1, <3>2, <3>3, <3>4, <4>1, <4>2, <4>3
      <4>4. CASE h + 1 \notin gone
        <5>1. cut(h) \in Nat
          BY <1>1, <3>2 DEF cut
        <5>. QED
          BY <3>1, <3>2, <3>3, <3>4, <4>1, <4>2, <4>4, <5>1
      <4>. QED
        BY <4>3, <4>4
    <3>. QED
      BY <3>5, <3>6
  <2>. HIDE DEF U
  <2>3. Nat \subseteq U
    BY <2>1, <2>2, ByInduction
  <2>. QED
    BY <1>1, <2>3 DEF U
<1>6. b[N] = a[N] - sizes[g]
  BY <1>1, <1>5
<1>. QED
  BY <1>3, <1>4, <1>6

-----------------------------------------------------------------------------
(***************************************************************************)
(* A sound memory: the pool holds each buffer once, at the size its record *)
(* claims and within what was allocated, and the accounting covers what    *)
(* the driver has not been given back.  The handles that are neither       *)
(* pooled nor freed are lent to the callers.                               *)
(***************************************************************************)
PoolNeat(m) ==
  /\ \A n \in Size : Len(m.recycled[n]) <= PoolCap
  /\ \A n \in Size : \A i \in DOMAIN m.recycled[n] :
       /\ m.recycled[n][i].size = n
       /\ m.recycled[n][i].h \in 1 .. Len(m.cap) /\ m.recycled[n][i].h \notin m.freed
       /\ n <= m.cap[m.recycled[n][i].h]
  /\ \A n, k \in Size : \A i \in DOMAIN m.recycled[n] : \A j \in DOMAIN m.recycled[k] :
       m.recycled[n][i].h = m.recycled[k][j].h => n = k /\ i = j

Sound(m) ==
  /\ m \in Memories
  /\ Len(m.content) = Len(m.cap) /\ m.freed \subseteq 1 .. Len(m.cap)
  /\ PoolNeat(m)
  /\ m.alive >= Units(m.cap, m.freed)

InPool(m, h) == \E n \in Size : \E i \in DOMAIN m.recycled[n] : m.recycled[n][i].h = h
Lent(m) == {h \in 1 .. Len(m.cap) : h \notin m.freed /\ ~InPool(m, h)}

\* A buffer somebody may hold.
Good(b, m) == b \in Buffers /\ b.h \in Lent(m) /\ b.size <= m.cap[b.h]

LEMMA RecycleIs ==
    ASSUME NEW m, Sound(m), NEW b, Good(b, m)
    PROVE  /\ Sound(Recycle(m, b)) /\ Lent(Recycle(m, b)) = Lent(m) \ {b.h}
           /\ Recycle(m, b).cap = m.cap /\ Recycle(m, b).content = m.content
<1>. DEFINE r == Recycle(m, b)
            s == b.size
            q == m.recycled[s]
<1>1. m \in Memories /\ b \in Buffers
  BY DEF Sound, Good
<1>2. /\ r \in Memories /\ r.cap = m.cap /\ r.content = m.content
      /\ \/ /\ Len(q) < PoolCap /\ r.recycled = [m.recycled EXCEPT ![s] = Append(q, b)]
            /\ r.freed = m.freed /\ r.alive = m.alive
         \/ /\ r.recycled = m.recycled /\ r.freed = m.freed \cup {b.h}
            /\ r.alive = m.alive - s
  BY <1>1, RecycleType
<1>3. /\ s \in Size /\ q \in Seq(Buffers) /\ DOMAIN m.recycled = Size
      /\ m.cap \in Seq(Size) /\ m.freed \in SUBSET Nat /\ m.alive \in Int
  BY <1>1 DEF Memories, Buffers
<1>4. s \in Nat /\ PoolCap \in Nat
  BY <1>3, SizesAssumption, BoundsAssumption
<1>5. /\ b.h \in 1 .. Len(m.cap) /\ b.h \notin m.freed /\ s <= m.cap[b.h]
      /\ \A n \in Size : \A i \in DOMAIN m.recycled[n] : m.recycled[n][i].h # b.h
  BY DEF Good, Lent, InPool
<1>6. PoolNeat(m) /\ m.freed \subseteq 1 .. Len(m.cap) /\ m.alive >= Units(m.cap, m.freed)
      /\ Len(m.content) = Len(m.cap)
  BY DEF Sound
<1>. HIDE DEF r, s, q
<1>7. CASE /\ Len(q) < PoolCap /\ r.recycled = [m.recycled EXCEPT ![s] = Append(q, b)]
           /\ r.freed = m.freed /\ r.alive = m.alive
  <2>1. /\ DOMAIN Append(q, b) = DOMAIN q \cup {Len(q) + 1} /\ Len(q) + 1 \notin DOMAIN q
        /\ \A k \in DOMAIN q : Append(q, b)[k] = q[k]
        /\ Append(q, b)[Len(q) + 1] = b
    <3>1. Sequence(q)
      BY <1>3 DEF Sequence
    <3>. QED
      BY <3>1, AppendIs
  <2>2. Len(Append(q, b)) = Len(q) + 1 /\ Len(q) \in Nat
    BY <1>1, <1>3
  <2>3. /\ \A n \in Size : n # s => r.recycled[n] = m.recycled[n]
        /\ r.recycled[s] = Append(q, b) /\ m.recycled[s] = q
    BY <1>3, <1>7 DEF q
  <2>4. \A n \in Size : Len(r.recycled[n]) <= PoolCap
    BY <1>4, <1>6, <1>7, <2>2, <2>3 DEF PoolNeat
  <2>5. ASSUME NEW n \in Size, NEW i \in DOMAIN r.recycled[n]
        PROVE  \/ i \in DOMAIN m.recycled[n] /\ r.recycled[n][i] = m.recycled[n][i]
               \/ n = s /\ i = Len(q) + 1 /\ r.recycled[n][i] = b
    BY <2>1, <2>3
  <2>6. ASSUME NEW n \in Size, NEW i \in DOMAIN r.recycled[n]
        PROVE  /\ r.recycled[n][i].size = n
               /\ r.recycled[n][i].h \in 1 .. Len(m.cap) /\ r.recycled[n][i].h \notin m.freed
               /\ n <= m.cap[r.recycled[n][i].h]
    <3>1. CASE i \in DOMAIN m.recycled[n] /\ r.recycled[n][i] = m.recycled[n][i]
      BY <1>6, <3>1 DEF PoolNeat
    <3>2. CASE n = s /\ i = Len(q) + 1 /\ r.recycled[n][i] = b
      BY <1>5, <3>2 DEF s
    <3>. QED
      BY <2>5, <3>1, <3>2
  <2>7. ASSUME NEW n \in Size, NEW k \in Size,
               NEW i \in DOMAIN r.recycled[n], NEW j \in DOMAIN r.recycled[k],
               r.recycled[n][i].h = r.recycled[k][j].h
        PROVE  n = k /\ i = j
    <3>1. CASE i \in DOMAIN m.recycled[n] /\ r.recycled[n][i] = m.recycled[n][i]
      <4>1. r.recycled[k][j].h # b.h
        BY <1>5, <2>7, <3>1
      <4>2. j \in DOMAIN m.recycled[k] /\ r.recycled[k][j] = m.recycled[k][j]
        BY <2>5, <4>1
      <4>. QED
        BY <1>6, <2>7, <3>1, <4>2 DEF PoolNeat
    <3>2. CASE n = s /\ i = Len(q) + 1 /\ r.recycled[n][i] = b
      <4>1. ~(j \in DOMAIN m.recycled[k] /\ r.recycled[k][j] = m.recycled[k][j])
        BY <1>5, <2>7, <3>2
      <4>2. k = s /\ j = Len(q) + 1
        BY <2>5, <4>1
      <4>. QED
        BY <3>2, <4>2
    <3>. QED
      BY <2>5, <3>1, <3>2
  <2>8. PoolNeat(r)
    BY <1>2, <1>7, <2>4, <2>6, <2>7 DEF PoolNeat
  <2>9. Sound(r)
    BY <1>2, <1>6, <1>7, <2>8 DEF Sound
  <2>10. ASSUME NEW h PROVE InPool(r, h) <=> InPool(m, h) \/ h = b.h
    <3>1. ASSUME InPool(r, h) PROVE InPool(m, h) \/ h = b.h
      BY <2>5, <3>1 DEF InPool
    <3>2. ASSUME InPool(m, h) PROVE InPool(r, h)
      <4>0. PICK n \in Size : \E i \in DOMAIN m.recycled[n] : m.recycled[n][i].h = h
        BY <3>2 DEF InPool
      <4>1. PICK i \in DOMAIN m.recycled[n] : m.recycled[n][i].h = h
        BY <4>0
      <4>2. i \in DOMAIN r.recycled[n] /\ r.recycled[n][i] = m.recycled[n][i]
        BY <2>1, <2>3
      <4>. QED
        BY <4>1, <4>2 DEF InPool
    <3>3. InPool(r, b.h)
      <4>1. Len(q) + 1 \in DOMAIN r.recycled[s] /\ r.recycled[s][Len(q) + 1] = b
        BY <2>1, <2>3
      <4>. QED
        BY <1>3, <4>1 DEF InPool
    <3>. QED
      BY <3>1, <3>2, <3>3
  <2>11. Lent(r) = Lent(m) \ {b.h}
    BY <1>2, <1>7, <2>10 DEF Lent
  <2>. QED
    BY <1>2, <2>9, <2>11 DEF r
<1>8. CASE /\ r.recycled = m.recycled /\ r.freed = m.freed \cup {b.h}
           /\ r.alive = m.alive - s
  <2>1. PoolNeat(r)
    BY <1>2, <1>5, <1>6, <1>8 DEF PoolNeat
  <2>2. Units(r.cap, r.freed) = Units(m.cap, m.freed) - m.cap[b.h]
    BY <1>2, <1>3, <1>5, <1>8, UnitsFreed
  <2>3. m.cap[b.h] \in Nat /\ Units(m.cap, m.freed) \in Nat
    <3>1. m.cap[b.h] \in Size
      BY <1>3, <1>5
    <3>. QED
      BY <1>3, <3>1, SizesAssumption, UnitsCount
  <2>4. r.alive >= Units(r.cap, r.freed)
    <3>1. m.alive \in Int /\ m.alive >= Units(m.cap, m.freed) /\ s <= m.cap[b.h]
      BY <1>3, <1>5, <1>6
    <3>. QED
      BY <1>4, <1>8, <2>2, <2>3, <3>1
  <2>5. Sound(r)
    BY <1>2, <1>5, <1>6, <1>8, <2>1, <2>4 DEF Sound
  <2>6. Lent(r) = Lent(m) \ {b.h}
    BY <1>2, <1>8 DEF Lent, InPool
  <2>. QED
    BY <1>2, <2>5, <2>6 DEF r
<1>. QED
  BY <1>2, <1>7, <1>8

-----------------------------------------------------------------------------
\* The buffers a call holds in one of its lists.
HandlesIn(s) == {s[i].h : i \in DOMAIN s}
Distinct(s) == \A i, j \in DOMAIN s : s[i].h = s[j].h => i = j
Neat(s, m) == s \in Seq(Buffers) /\ (\A i \in DOMAIN s : Good(s[i], m)) /\ Distinct(s)

LEMMA RecycleAllIs ==
    ASSUME NEW m, Sound(m), NEW bs, Neat(bs, m)
    PROVE  /\ Sound(RecycleAll(m, bs)) /\ Lent(RecycleAll(m, bs)) = Lent(m) \ HandlesIn(bs)
           /\ RecycleAll(m, bs).cap = m.cap /\ RecycleAll(m, bs).content = m.content
<1>. DEFINE N == Len(bs)
            upTo(k) == {bs[i].h : i \in 1 .. k}
<1>1. m \in Memories /\ bs \in Seq(Buffers)
  BY DEF Sound, Neat
<1>2. PICK at \in [0 .. N -> Memories] :
        /\ at[0] = m /\ RecycleAll(m, bs) = at[N]
        /\ \A k \in 1 .. N : at[k] = Recycle(at[k - 1], bs[k])
  BY <1>1, RecycledInTurn
<1>3. N \in Nat /\ DOMAIN bs = 1 .. N
  BY <1>1
<1>4. \A k \in 1 .. N : Good(bs[k], m)
  BY <1>3 DEF Neat
<1>. DEFINE Reached(k) == /\ Sound(at[k]) /\ at[k].cap = m.cap /\ at[k].content = m.content
                          /\ Lent(at[k]) = Lent(m) \ upTo(k)
            U == {k \in Nat : k <= N => Reached(k)}
<1>5. 0 \in U
  <2>1. upTo(0) = {}
    OBVIOUS
  <2>2. Lent(m) = Lent(m) \ upTo(0)
    BY <2>1
  <2>. QED
    BY <1>2, <2>2
<1>6. ASSUME NEW k \in Nat, k \in U PROVE k + 1 \in U
  <2>. SUFFICES ASSUME k + 1 <= N PROVE Reached(k + 1)
    OBVIOUS
  <2>1. k + 1 \in 1 .. N /\ (k + 1) - 1 = k /\ Reached(k)
    BY <1>3, <1>6
  <2>2. at[k + 1] = Recycle(at[k], bs[k + 1])
    BY <1>2, <2>1
  <2>3. bs[k + 1].h \notin upTo(k)
    <3>1. ASSUME NEW i \in 1 .. k, bs[i].h = bs[k + 1].h PROVE FALSE
      <4>1. i \in DOMAIN bs /\ k + 1 \in DOMAIN bs /\ i # k + 1
        BY <1>3, <2>1, <3>1
      <4>. QED
        BY <3>1, <4>1 DEF Neat, Distinct
    <3>. QED
      BY <3>1
  <2>4. Good(bs[k + 1], at[k])
    <3>1. Good(bs[k + 1], m)
      BY <1>4, <2>1
    <3>. QED
      BY <2>1, <2>3, <3>1 DEF Good
  <2>5. /\ Sound(at[k + 1]) /\ Lent(at[k + 1]) = Lent(at[k]) \ {bs[k + 1].h}
        /\ at[k + 1].cap = at[k].cap /\ at[k + 1].content = at[k].content
    BY <2>1, <2>2, <2>4, RecycleIs
  <2>6. upTo(k + 1) = upTo(k) \cup {bs[k + 1].h}
    <3>1. 1 .. k + 1 = (1 .. k) \cup {k + 1}
      OBVIOUS
    <3>. QED
      BY <3>1
  <2>7. Lent(at[k + 1]) = Lent(m) \ upTo(k + 1)
    <3>. HIDE DEF upTo
    <3>. QED
      BY <2>1, <2>5, <2>6
  <2>. QED
    BY <2>1, <2>5, <2>7
<1>7. Reached(N)
  <2>. HIDE DEF U
  <2>1. Nat \subseteq U
    BY <1>5, <1>6, ByInduction
  <2>2. N \in U
    BY <1>3, <2>1
  <2>3. N <= N
    BY <1>3
  <2>. HIDE DEF Reached
  <2>. QED
    BY <2>2, <2>3 DEF U
<1>8. upTo(N) = HandlesIn(bs)
  BY <1>3 DEF HandlesIn
<1>. HIDE DEF upTo
<1>. QED
  BY <1>2, <1>7, <1>8

\* What an allocation changes: it may add handles, and lends one.
Extends(m, n) ==
  /\ Len(m.cap) <= Len(n.cap)
  /\ \A h \in 1 .. Len(m.cap) : n.cap[h] = m.cap[h] /\ n.content[h] = m.content[h]
  /\ \A h \in 1 .. Len(n.cap) : h \notin 1 .. Len(m.cap) => n.content[h] = Junk

LEMMA AllocateIs ==
    ASSUME NEW m, Sound(m), NEW size \in CallSize
    PROVE  /\ Sound(Allocate(m, size)) /\ Extends(m, Allocate(m, size))
           /\ Good(Allocated(m, size), Allocate(m, size))
           /\ Allocated(m, size).h \notin Lent(m) /\ Allocated(m, size).size = size
           /\ Lent(Allocate(m, size)) = Lent(m) \cup {Allocated(m, size).h}
<1>. DEFINE n == Allocate(m, size)
            b == Allocated(m, size)
            q == m.recycled[size]
<1>1. size \in Size /\ size \in Nat /\ PoolCap \in Nat
  BY SizesAssumption, BoundsAssumption
<1>2. m \in Memories /\ PoolNeat(m) /\ m.freed \subseteq 1 .. Len(m.cap)
      /\ m.alive >= Units(m.cap, m.freed) /\ Len(m.content) = Len(m.cap)
  BY DEF Sound
<1>3. /\ q \in Seq(Buffers) /\ DOMAIN m.recycled = Size /\ m.cap \in Seq(Size)
      /\ m.content \in Seq(Nat) /\ m.alive \in Int
      /\ m = [cap |-> m.cap, freed |-> m.freed, content |-> m.content,
              recycled |-> m.recycled, alive |-> m.alive]
  BY <1>1, <1>2 DEF Memories
<1>4. CASE q # <<>>
  <2>1. n = [m EXCEPT !.recycled[size] = Front(@)] /\ b = Last(q)
    BY <1>4 DEF Allocate, Allocated
  <2>2. /\ Len(q) \in Nat /\ Len(q) # 0 /\ DOMAIN q = 1 .. Len(q)
        /\ Front(q) \in Seq(Buffers) /\ DOMAIN Front(q) = 1 .. (Len(q) - 1)
        /\ Len(Front(q)) = Len(q) - 1
        /\ \A i \in 1 .. (Len(q) - 1) : Front(q)[i] = q[i]
        /\ Last(q) = q[Len(q)] /\ Len(q) \in DOMAIN q
    BY <1>3, <1>4 DEF Front, Last
  <2>3. /\ n.cap = m.cap /\ n.content = m.content /\ n.freed = m.freed /\ n.alive = m.alive
        /\ n.recycled = [m.recycled EXCEPT ![size] = Front(q)]
        /\ n \in Memories
    <3>1. [m.recycled EXCEPT ![size] = Front(q)] \in [Size -> Seq(Buffers)]
      BY <1>2, <2>2 DEF Memories
    <3>. QED
      BY <1>2, <2>1, <3>1 DEF Memories
  <2>. HIDE DEF n, b, q
  <2>4. /\ \A s \in Size : s # size => n.recycled[s] = m.recycled[s]
        /\ n.recycled[size] = Front(q) /\ m.recycled[size] = q
    BY <1>1, <1>3, <2>3 DEF q
  <2>5. ASSUME NEW s \in Size, NEW i \in DOMAIN n.recycled[s]
        PROVE  /\ i \in DOMAIN m.recycled[s] /\ n.recycled[s][i] = m.recycled[s][i]
               /\ ~(s = size /\ i = Len(q))
    BY <2>2, <2>4
  <2>6. b = m.recycled[size][Len(q)] /\ Len(q) \in DOMAIN m.recycled[size]
    BY <2>1, <2>2, <2>4
  <2>7. \A s \in Size : Len(n.recycled[s]) <= PoolCap
    BY <1>1, <1>2, <2>2, <2>4 DEF PoolNeat
  <2>8. PoolNeat(n)
    <3>1. ASSUME NEW s \in Size, NEW i \in DOMAIN n.recycled[s]
          PROVE  /\ n.recycled[s][i].size = s
                 /\ n.recycled[s][i].h \in 1 .. Len(m.cap) /\ n.recycled[s][i].h \notin m.freed
                 /\ s <= m.cap[n.recycled[s][i].h]
      BY <1>2, <2>5 DEF PoolNeat
    <3>2. ASSUME NEW s \in Size, NEW k \in Size,
                 NEW i \in DOMAIN n.recycled[s], NEW j \in DOMAIN n.recycled[k],
                 n.recycled[s][i].h = n.recycled[k][j].h
          PROVE  s = k /\ i = j
      BY <1>2, <2>5, <3>2 DEF PoolNeat
    <3>. QED
      BY <2>3, <2>7, <3>1, <3>2 DEF PoolNeat
  <2>9. Sound(n)
    BY <1>2, <2>3, <2>8 DEF Sound
  <2>10. /\ b \in Buffers /\ b.size = size /\ b.h \in 1 .. Len(m.cap) /\ b.h \notin m.freed
         /\ size <= m.cap[b.h]
    <3>1. b \in Buffers
      BY <1>3, <2>1, <2>2 DEF q
    <3>. QED
      BY <1>1, <1>2, <2>6, <3>1 DEF PoolNeat
  <2>11. ASSUME NEW h PROVE InPool(m, h) <=> InPool(n, h) \/ h = b.h
    <3>1. ASSUME InPool(n, h) PROVE InPool(m, h)
      BY <2>5, <3>1 DEF InPool
    <3>2. ASSUME InPool(m, h), h # b.h PROVE InPool(n, h)
      <4>0. PICK s \in Size : \E i \in DOMAIN m.recycled[s] : m.recycled[s][i].h = h
        BY <3>2 DEF InPool
      <4>1. PICK i \in DOMAIN m.recycled[s] : m.recycled[s][i].h = h
        BY <4>0
      <4>2. i \in DOMAIN n.recycled[s] /\ n.recycled[s][i] = m.recycled[s][i]
        <5>1. CASE s = size
          <6>1. i # Len(q) /\ i \in 1 .. Len(q)
            BY <2>2, <2>4, <2>6, <3>2, <4>1, <5>1
          <6>2. i \in 1 .. (Len(q) - 1)
            BY <2>2, <6>1
          <6>. QED
            BY <2>2, <2>4, <5>1, <6>2
        <5>2. CASE s # size
          BY <2>4, <5>2
        <5>. QED
          BY <5>1, <5>2
      <4>. QED
        BY <4>1, <4>2 DEF InPool
    <3>3. InPool(m, b.h)
      BY <1>1, <2>6 DEF InPool
    <3>. QED
      BY <3>1, <3>2, <3>3
  <2>12. ~InPool(n, b.h)
    <3>. SUFFICES ASSUME NEW s \in Size, NEW i \in DOMAIN n.recycled[s], n.recycled[s][i].h = b.h
                  PROVE  FALSE
      BY DEF InPool
    <3>1. i \in DOMAIN m.recycled[s] /\ m.recycled[s][i].h = b.h /\ ~(s = size /\ i = Len(q))
      BY <2>5
    <3>. QED
      BY <1>1, <1>2, <2>6, <3>1 DEF PoolNeat
  <2>13. Lent(n) = Lent(m) \cup {b.h} /\ b.h \notin Lent(m)
    BY <2>3, <2>10, <2>11, <2>12 DEF Lent
  <2>14. Good(b, n)
    BY <2>3, <2>10, <2>13 DEF Good
  <2>15. Extends(m, n)
    BY <1>3, <2>3 DEF Extends
  <2>. QED
    BY <2>9, <2>10, <2>13, <2>14, <2>15 DEF n, b
<1>5. CASE q = <<>>
  <2>1. /\ n = [m EXCEPT !.cap = Append(@, size), !.content = Append(@, Junk), !.alive = @ + size]
        /\ b = Buffer(Len(m.cap) + 1, size)
    BY <1>5 DEF Allocate, Allocated
  <2>2. /\ Append(m.cap, size) \in Seq(Size) /\ Append(m.content, Junk) \in Seq(Nat)
        /\ Len(m.cap) \in Nat
        /\ Len(Append(m.cap, size)) = Len(m.cap) + 1
        /\ Len(Append(m.content, Junk)) = Len(m.cap) + 1
        /\ \A h \in 1 .. Len(m.cap) : /\ Append(m.cap, size)[h] = m.cap[h]
                                      /\ Append(m.content, Junk)[h] = m.content[h]
        /\ Append(m.cap, size)[Len(m.cap) + 1] = size
        /\ Append(m.content, Junk)[Len(m.cap) + 1] = Junk
    <3>1. /\ Append(m.cap, size) \in Seq(Size) /\ Len(m.cap) \in Nat
          /\ Len(Append(m.cap, size)) = Len(m.cap) + 1
          /\ \A h \in 1 .. Len(m.cap) : Append(m.cap, size)[h] = m.cap[h]
          /\ Append(m.cap, size)[Len(m.cap) + 1] = size
      BY <1>1, <1>3
    <3>2. Junk \in Nat
      BY DEF Junk
    <3>3. /\ Append(m.content, Junk) \in Seq(Nat)
          /\ Len(Append(m.content, Junk)) = Len(m.content) + 1
          /\ \A h \in 1 .. Len(m.content) : Append(m.content, Junk)[h] = m.content[h]
          /\ Append(m.content, Junk)[Len(m.content) + 1] = Junk
      BY <1>3, <3>2
    <3>. QED
      BY <1>2, <3>1, <3>3
  <2>3. /\ n.cap = Append(m.cap, size) /\ n.content = Append(m.content, Junk)
        /\ n.freed = m.freed /\ n.alive = m.alive + size /\ n.recycled = m.recycled
        /\ n \in Memories
    <3>1. m.alive + size \in Int
      BY <1>1, <1>3
    <3>. QED
      BY <1>2, <2>1, <2>2, <3>1 DEF Memories
  <2>4. b.h = Len(m.cap) + 1 /\ b.size = size /\ b \in Buffers
    BY <1>1, <2>1, <2>2 DEF Buffer, Buffers
  <2>. HIDE DEF n, b, q
  <2>5. /\ Len(n.cap) = Len(m.cap) + 1 /\ b.h \in 1 .. Len(n.cap) /\ b.h \notin 1 .. Len(m.cap)
        /\ 1 .. Len(n.cap) = (1 .. Len(m.cap)) \cup {b.h}
    BY <2>2, <2>3, <2>4
  <2>6. PoolNeat(n)
    BY <1>2, <2>2, <2>3, <2>5 DEF PoolNeat
  <2>7. n.alive >= Units(n.cap, n.freed)
    <3>1. Len(m.cap) + 1 \notin m.freed
      BY <1>2, <2>4, <2>5
    <3>2. Units(n.cap, n.freed) = Units(m.cap, m.freed) + size
      BY <1>1, <1>3, <2>3, <3>1, UnitsGrow
    <3>3. Units(m.cap, m.freed) \in Nat
      BY <1>3, UnitsCount
    <3>. QED
      BY <1>1, <1>2, <1>3, <2>3, <3>2, <3>3
  <2>8. Sound(n)
    BY <1>2, <2>2, <2>3, <2>5, <2>6, <2>7 DEF Sound
  <2>9. ~InPool(m, b.h)
    BY <1>2, <2>5 DEF InPool, PoolNeat
  <2>10. Lent(n) = Lent(m) \cup {b.h} /\ b.h \notin Lent(m)
    BY <1>2, <2>3, <2>5, <2>9 DEF Lent, InPool
  <2>11. Good(b, n)
    BY <1>1, <2>2, <2>3, <2>4, <2>10 DEF Good
  <2>12. Extends(m, n)
    BY <2>2, <2>3, <2>4, <2>5 DEF Extends
  <2>. QED
    BY <2>4, <2>8, <2>10, <2>11, <2>12 DEF n, b
<1>. QED
  BY <1>4, <1>5

-----------------------------------------------------------------------------
(***************************************************************************)
(* The shape of a call at each of its points.                              *)
(***************************************************************************)
Nodewise == {"run", "submit", "batch"}

FormedCall(r, at) ==
  /\ DOMAIN r = DOMAIN Idle /\ at \in Points
  /\ Sequence(r.work) /\ Sequence(r.outs) /\ r.blocks \in Nat
  /\ \A i \in DOMAIN r.work : r.work[i].stamp \in Nat
  /\ r.kind = "chain" => Len(r.nodes) \in Nat \ {0}
  /\ at \in {"idle", "acquire", "wait slot"} =>
       r.work = <<>> /\ r.outs = <<>> /\ r.scratch = <<>> /\ r.blocks = 0
  /\ at = "idle" => r.kind = "none"
  /\ at \in {"acquire", "wait read"} => r.kind = "fetch"
  /\ at \in {"wait slot", "record"} =>
       \/ r.kind = "fetch"
       \/ r.kind \in Nodewise \cup {"chain"} /\ r.size \in CallSize
  /\ at \in {"sync", "wait sync"} =>
       /\ r.kind \in {"run", "wait", "batch", "chain"}
       /\ r.kind \in {"batch", "chain"} => r.work # <<>>
  /\ r.kind \in Nodewise => Len(r.outs) = Len(r.work)
  /\ r.kind = "chain" =>
       \/ r.work = <<>> /\ r.outs = <<>> /\ r.scratch = <<>>
       \/ r.work # <<>> /\ Len(r.outs) = 2

Calls == \A c \in Client : FormedCall(call[c], pc[c])

LEMMA IdleIs ==
    /\ DOMAIN Idle = {"kind", "nodes", "size", "slot", "src", "id", "work", "scratch",
                      "outs", "blocks"}
    /\ Idle.kind = "none" /\ Idle.work = <<>> /\ Idle.scratch = <<>> /\ Idle.outs = <<>>
    /\ Idle.blocks = 0 /\ Idle.id = 0
  BY DEF Idle

LEMMA EmptyIs ==
    Sequence(<<>>) /\ Len(<<>>) = 0 /\ DOMAIN <<>> = {}
  BY DEF Sequence

LEMMA IdleFormed == FormedCall(Idle, "idle")
<1>1. \A i \in DOMAIN Idle.work : FALSE
  BY IdleIs
<1>. QED
  BY <1>1, IdleIs, EmptyIs DEF FormedCall, Points, Nodewise

\* A call that has begun and recorded nothing.
LEMMA BegunFormed ==
    ASSUME NEW r, DOMAIN r = DOMAIN Idle, r.work = <<>>, r.outs = <<>>, r.scratch = <<>>,
           r.blocks = 0, NEW at \in {"acquire", "wait slot", "record"},
           at = "acquire" => r.kind = "fetch",
           r.kind = "fetch" \/ (r.kind \in Nodewise \cup {"chain"} /\ r.size \in CallSize),
           r.kind = "chain" => Len(r.nodes) \in Nat \ {0}
    PROVE  FormedCall(r, at)
<1>1. \A i \in DOMAIN r.work : FALSE
  BY EmptyIs
<1>2. at \in Points /\ at \notin {"idle", "sync", "wait sync", "wait read"} /\ r.blocks \in Nat
  <2>1. at = "acquire" \/ at = "wait slot" \/ at = "record"
    OBVIOUS
  <2>2. at \in Points /\ at \notin {"idle", "sync", "wait sync", "wait read"}
    BY ONLY <2>1 DEF Points
  <2>3. r.blocks \in Nat
    <3>1. 0 \in Nat
      OBVIOUS
    <3>. QED
      BY <3>1, Zenon
  <2>. QED
    BY <2>2, <2>3
<1>3. Sequence(r.work) /\ Sequence(r.outs)
  BY EmptyIs, Zenon
<1>4. Len(r.outs) = Len(r.work)
  OBVIOUS
<1>. QED
  BY <1>1, <1>2, <1>3, <1>4 DEF FormedCall

\* The calls of the other clients keep their shape.
LEMMA CallsKept ==
    ASSUME IInv, Calls, NEW c \in Client,
           \A d \in Client \ {c} : call'[d] = call[d] /\ pc'[d] = pc[d],
           FormedCall(call'[c], pc'[c])
    PROVE  Calls'
  BY DEF Calls

LEMMA ReturnIs ==
    ASSUME IInv, NEW c \in Client, Return(c)
    PROVE  /\ call'[c] = Idle /\ pc'[c] = "idle"
           /\ \A d \in Client \ {c} : call'[d] = call[d] /\ pc'[d] = pc[d]
  BY DEF Return, IInv, Shaped

LEMMA ReturnFormed ==
    ASSUME IInv, Calls, NEW c \in Client, Return(c)
    PROVE  Calls'
<1>1. /\ call'[c] = Idle /\ pc'[c] = "idle"
      /\ \A d \in Client \ {c} : call'[d] = call[d] /\ pc'[d] = pc[d]
  BY ReturnIs
<1>2. FormedCall(call'[c], pc'[c])
  BY <1>1, IdleFormed
<1>. QED
  BY <1>1, <1>2, CallsKept

LEMMA TakeFormed ==
    ASSUME IInv, Calls, NEW c \in Client, NEW r, Take(c, r),
           DOMAIN r = DOMAIN Idle, r.work = <<>>, r.outs = <<>>, r.scratch = <<>>, r.blocks = 0,
           r.kind = "fetch" \/ (r.kind \in Nodewise \cup {"chain"} /\ r.size \in CallSize),
           r.kind = "chain" => Len(r.nodes) \in Nat \ {0}
    PROVE  Calls'
<1>. DEFINE q == [r EXCEPT !.slot = cursor]
<1>1. call' = [call EXCEPT ![c] = q]
  BY DEF Take
<1>2. /\ DOMAIN q = DOMAIN Idle /\ q.work = <<>> /\ q.outs = <<>> /\ q.scratch = <<>>
      /\ q.blocks = 0 /\ q.kind = r.kind /\ q.size = r.size /\ q.nodes = r.nodes
  BY IdleIs
<1>. HIDE DEF q
<1>3. pc' = [pc EXCEPT ![c] = "wait slot"] \/ pc' = [pc EXCEPT ![c] = "record"]
  BY DEF Take
<1>4. call'[c] = q /\ \A d \in Client \ {c} : call'[d] = call[d] /\ pc'[d] = pc[d]
  BY <1>1, <1>3 DEF IInv, Shaped
<1>5. pc'[c] \in {"wait slot", "record"}
  BY <1>3 DEF IInv, Shaped
<1>6. FormedCall(q, pc'[c])
  BY <1>2, <1>5, BegunFormed
<1>. QED
  BY <1>4, <1>6, CallsKept

LEMMA SingletonIs ==
    ASSUME NEW e
    PROVE  /\ Sequence(<<e>>) /\ <<e>> # <<>> /\ Len(<<e>>) = 1 /\ DOMAIN <<e>> = {1}
           /\ <<e>>[1] = e
<1>1. <<e>> \in Seq({e})
  OBVIOUS
<1>2. Sequence(<<e>>)
  BY <1>1 DEF Sequence
<1>. QED
  BY <1>2

LEMMA BeginFormed ==
    ASSUME IInv, Calls, NEW c \in Client, Begin(c)
    PROVE  Calls'
<1>1. PICK r \in Requests(c), size \in CallSize :
        Take(c, [Idle EXCEPT !.kind = r.kind, !.nodes = r.nodes, !.size = size])
  BY DEF Begin
<1>2. /\ r.kind \in Nodewise \cup {"chain"}
      /\ r.kind = "chain" => Len(r.nodes) \in Nat \ {0}
  <2>1. \/ \E k \in {"run", "submit"} : \E i \in Inputs(c) : r = [kind |-> k, nodes |-> <<i>>]
        \/ \E i \in Inputs(c), j \in {Host, Out(1)} : r = [kind |-> "batch", nodes |-> <<i, j>>]
        \/ \E n \in Links : r = [kind |-> "chain", nodes |-> [k \in 1..n |-> Host]]
    BY <1>1 DEF Requests
  <2>2. CASE \E k \in {"run", "submit"} : \E i \in Inputs(c) : r = [kind |-> k, nodes |-> <<i>>]
    BY <2>2 DEF Nodewise
  <2>3. CASE \E i \in Inputs(c), j \in {Host, Out(1)} : r = [kind |-> "batch", nodes |-> <<i, j>>]
    BY <2>3 DEF Nodewise
  <2>4. CASE \E n \in Links : r = [kind |-> "chain", nodes |-> [k \in 1..n |-> Host]]
    <3>1. PICK n \in Links : r = [kind |-> "chain", nodes |-> [k \in 1..n |-> Host]]
      BY <2>4
    <3>2. n \in Nat \ {0}
      BY LinksAssumption
    <3>3. Len([k \in 1..n |-> Host]) = n
      BY <3>2
    <3>. QED
      BY <3>1, <3>2, <3>3
  <2>. QED
    BY <2>1, <2>2, <2>3, <2>4
<1>. DEFINE q == [Idle EXCEPT !.kind = r.kind, !.nodes = r.nodes, !.size = size]
<1>3. /\ DOMAIN q = DOMAIN Idle /\ q.work = <<>> /\ q.outs = <<>> /\ q.scratch = <<>>
      /\ q.blocks = 0 /\ q.kind = r.kind /\ q.size = size /\ q.nodes = r.nodes
  BY IdleIs
<1>4. Take(c, q)
  BY <1>1
<1>. HIDE DEF q
<1>. QED
  BY <1>2, <1>3, <1>4, TakeFormed

LEMMA WaitingFormed ==
    ASSUME NEW s, NEW t, NEW id
    PROVE  FormedCall([Idle EXCEPT !.kind = "wait", !.slot = s, !.scratch = t, !.id = id], "sync")
<1>. DEFINE q == [Idle EXCEPT !.kind = "wait", !.slot = s, !.scratch = t, !.id = id]
<1>1. /\ DOMAIN q = DOMAIN Idle /\ q.work = <<>> /\ q.outs = <<>>
      /\ q.blocks = 0 /\ q.kind = "wait"
  BY IdleIs
<1>. HIDE DEF q
<1>2. Sequence(q.work) /\ Sequence(q.outs) /\ \A i \in DOMAIN q.work : FALSE
  BY <1>1, EmptyIs, Zenon
<1>3. q.blocks \in Nat
  <2>1. 0 \in Nat
    OBVIOUS
  <2>. QED
    BY <1>1, <2>1, Zenon
<1>4. FormedCall(q, "sync")
  BY <1>1, <1>2, <1>3 DEF FormedCall, Points, Nodewise
<1>. QED
  BY <1>4 DEF q

LEMMA RecordNodeFormed ==
    ASSUME IInv, Calls, stamp \in Nat, NEW c \in Client, RecordNode(c)
    PROVE  Calls'
<1>. DEFINE r == call[c]
<1>. DEFINE host == NodeOf(c) = Host
            up == IF host THEN Allocate(Memory, r.size) ELSE Memory
            src == CASE host -> Allocated(Memory, r.size).h
                     [] NodeOf(c).from = "id" -> resident[NodeOf(c).at].h
                     [] NodeOf(c).from = "out" -> r.outs[NodeOf(c).at].h
            want == CASE host -> stamp + 1
                      [] NodeOf(c).from = "id" -> meant[NodeOf(c).at]
                      [] NodeOf(c).from = "out" -> r.work[NodeOf(c).at].stamp
            at == IF host THEN NextBlock(r) ELSE 0
            o == Allocated(up, r.size)
            s == IF host THEN <<Buffer(src, r.size)>> ELSE <<>>
            d == Dispatched(at, src, want, o.h, stamp + 1)
            n == IF host THEN r.blocks + 1 ELSE r.blocks
<1>0. d.stamp = stamp + 1
  BY DEF Dispatched
<1>1. /\ call' = [call EXCEPT ![c].work = Append(@, d), ![c].scratch = @ \o s,
                              ![c].outs = Append(@, o), ![c].blocks = n]
      /\ pc[c] = "record" /\ r.kind \in Nodewise /\ pc' = pc
  BY DEF RecordNode, Nodewise
<1>. HIDE DEF d, o, s
<1>2. FormedCall(r, "record") /\ DOMAIN call = Client /\ DOMAIN pc = Client
  BY <1>1 DEF Calls, IInv, Shaped
<1>. DEFINE q == [r EXCEPT !.work = Append(@, d), !.scratch = @ \o s,
                           !.outs = Append(@, o), !.blocks = n]
<1>3. call'[c] = q /\ \A e \in Client \ {c} : call'[e] = call[e]
  BY <1>1, <1>2
<1>. HIDE DEF r
<1>4. /\ DOMAIN q = DOMAIN Idle /\ q.work = Append(r.work, d) /\ q.outs = Append(r.outs, o)
      /\ q.blocks = n /\ q.kind = r.kind /\ q.size = r.size /\ q.nodes = r.nodes
  BY <1>2, IdleIs DEF FormedCall
<1>. HIDE DEF q
<1>5. /\ Sequence(r.work) /\ Sequence(r.outs) /\ r.blocks \in Nat
      /\ Len(r.outs) = Len(r.work)
      /\ \A i \in DOMAIN r.work : r.work[i].stamp \in Nat
      /\ r.kind = "fetch" \/ (r.kind \in Nodewise \cup {"chain"} /\ r.size \in CallSize)
  BY <1>1, <1>2 DEF FormedCall
<1>6. /\ Sequence(q.work) /\ Sequence(q.outs) /\ Len(q.outs) = Len(q.work)
      /\ \A i \in DOMAIN q.work : q.work[i].stamp \in Nat
  <2>1. \A i \in DOMAIN q.work : q.work[i].stamp \in Nat
    <3>1. /\ DOMAIN q.work = DOMAIN r.work \cup {Len(r.work) + 1}
          /\ \A k \in DOMAIN r.work : q.work[k] = r.work[k]
          /\ q.work[Len(r.work) + 1] = d
      BY <1>4, <1>5, AppendIs
    <3>2. d.stamp \in Nat
      BY <1>0
    <3>. QED
      BY <1>5, <3>1, <3>2
  <2>2. Sequence(q.work) /\ Sequence(q.outs)
    BY <1>4, <1>5, AppendIs
  <2>3. Len(q.outs) = Len(r.outs) + 1
    <3>1. PICK T : r.outs \in Seq(T)
      BY <1>5 DEF Sequence
    <3>2. r.outs \in Seq(T \cup {o}) /\ o \in T \cup {o}
      BY <3>1
    <3>. QED
      BY <1>4, <3>2
  <2>4. Len(q.work) = Len(r.work) + 1
    <3>1. PICK T : r.work \in Seq(T)
      BY <1>5 DEF Sequence
    <3>2. r.work \in Seq(T \cup {d}) /\ d \in T \cup {d}
      BY <3>1
    <3>. QED
      BY <1>4, <3>2
  <2>. QED
    BY <1>5, <2>1, <2>2, <2>3, <2>4
<1>7. FormedCall(q, "record")
  <2>1. q.blocks \in Nat
    BY <1>1, <1>4, <1>5
  <2>2. q.kind \in Nodewise /\ q.kind # "chain"
    BY <1>1, <1>4 DEF Nodewise
  <2>. QED
    BY <1>4, <1>5, <1>6, <2>1, <2>2 DEF FormedCall, Points
<1>. QED
  BY <1>1, <1>3, <1>7, CallsKept

LEMMA PairIs ==
    ASSUME NEW a, NEW b
    PROVE  Sequence(<<a, b>>) /\ Len(<<a, b>>) = 2
<1>1. <<a, b>> \in Seq({a, b})
  OBVIOUS
<1>2. Sequence(<<a, b>>)
  BY <1>1 DEF Sequence
<1>. QED
  BY <1>2

LEMMA LinksIs ==
    ASSUME NEW a, NEW b, NEW e, NEW d \in Nat, NEW n \in Nat \ {0}
    PROVE  /\ Sequence(ChainLinks(a, b, e, d, n)) /\ DOMAIN ChainLinks(a, b, e, d, n) = 1..n
           /\ Len(ChainLinks(a, b, e, d, n)) = n /\ ChainLinks(a, b, e, d, n) # <<>>
           /\ \A i \in 1..n : /\ ChainLinks(a, b, e, d, n)[i].stamp = d + i
                              /\ ChainLinks(a, b, e, d, n)[i].up = IF i = 1 THEN 1 ELSE 0
<1>. DEFINE to(k) == IF k % 2 = 1 THEN b ELSE e
            f == [k \in 1..n |-> Dispatched(IF k = 1 THEN 1 ELSE 0,
                                            IF k = 1 THEN a.h ELSE to(k - 1).h,
                                            IF k = 1 THEN d + 1 ELSE d + k - 1,
                                            to(k).h, d + k)]
<1>1. ChainLinks(a, b, e, d, n) = f
  BY DEF ChainLinks
<1>. HIDE DEF to
<1>2. \A i \in 1..n : f[i].stamp = d + i /\ f[i].up = IF i = 1 THEN 1 ELSE 0
  BY DEF Dispatched
<1>3. DOMAIN f = 1..n
  OBVIOUS
<1>4. f \in Seq({f[i] : i \in 1..n})
  <2>. DEFINE T == {f[i] : i \in 1..n}
  <2>1. f = [k \in 1..n |-> f[k]]
    OBVIOUS
  <2>. HIDE DEF f
  <2>2. \A i \in 1..n : f[i] \in T
    OBVIOUS
  <2>. HIDE DEF T
  <2>3. f \in [1..n -> T]
    BY <2>1, <2>2
  <2>4. f \in Seq(T)
    BY <2>3
  <2>. QED
    BY <2>4 DEF T
<1>. HIDE DEF f
<1>5. Sequence(f)
  BY <1>4 DEF Sequence
<1>6. Len(f) = n /\ f # <<>>
  <2>1. 1 \in DOMAIN f
    BY <1>3
  <2>. QED
    BY <1>3, <1>4, <2>1
<1>. QED
  BY <1>1, <1>2, <1>3, <1>5, <1>6

LEMMA RecordChainFormed ==
    ASSUME IInv, Calls, stamp \in Nat, NEW c \in Client, RecordChain(c)
    PROVE  Calls'
<1>. DEFINE r == call[c]
            n == Len(r.nodes)
            m1 == Allocate(Memory, r.size)
            m2 == Allocate(m1, r.size)
            source == Allocated(Memory, r.size)
            first == Allocated(m1, r.size)
            second == Allocated(m2, r.size)
            w == ChainLinks(source, first, second, stamp, n)
            o == IF n % 2 = 1 THEN <<first, second>> ELSE <<second, first>>
            s == <<source>>
<1>1. /\ call' = [call EXCEPT ![c].work = w, ![c].scratch = s, ![c].outs = o]
      /\ pc[c] = "record" /\ r.kind = "chain" /\ pc' = pc
  BY DEF RecordChain
<1>2. FormedCall(r, "record") /\ DOMAIN call = Client /\ DOMAIN pc = Client
  BY <1>1 DEF Calls, IInv, Shaped
<1>3. n \in Nat \ {0}
  BY <1>1, <1>2 DEF FormedCall
<1>4. Sequence(w) /\ w # <<>> /\ \A i \in DOMAIN w : w[i].stamp \in Nat
  <2>. HIDE DEF n, source, first, second
  <2>. QED
    BY <1>3, LinksIs
<1>5. Sequence(o) /\ Len(o) = 2
  <2>. HIDE DEF first, second
  <2>. QED
    BY PairIs
<1>. HIDE DEF w, o, s
<1>. DEFINE q == [r EXCEPT !.work = w, !.scratch = s, !.outs = o]
<1>6. call'[c] = q /\ \A e \in Client \ {c} : call'[e] = call[e]
  BY <1>1, <1>2
<1>. HIDE DEF r
<1>7. /\ DOMAIN q = DOMAIN Idle /\ q.work = w /\ q.outs = o
      /\ q.blocks = r.blocks /\ q.kind = r.kind /\ q.size = r.size /\ q.nodes = r.nodes
  BY <1>2, IdleIs DEF FormedCall
<1>. HIDE DEF q
<1>8. FormedCall(q, "record")
  BY <1>1, <1>2, <1>4, <1>5, <1>7 DEF FormedCall, Points, Nodewise
<1>. QED
  BY <1>1, <1>6, <1>8, CallsKept

LEMMA RecordFetchFormed ==
    ASSUME IInv, Calls, NEW c \in Client, RecordFetch(c)
    PROVE  Calls'
<1>. DEFINE r == call[c]
            d == Dispatched(0, r.src, Junk, Junk, Junk)
            w == <<d>>
            q == [r EXCEPT !.work = w]
<1>1. /\ call' = [call EXCEPT ![c].work = w]
      /\ pc[c] = "record" /\ r.kind = "fetch" /\ pc' = pc
  BY DEF RecordFetch
<1>2. FormedCall(r, "record") /\ DOMAIN call = Client /\ DOMAIN pc = Client
  BY <1>1 DEF Calls, IInv, Shaped
<1>3. d.stamp \in Nat
  BY DEF Dispatched, Junk
<1>. HIDE DEF d
<1>4. Sequence(w) /\ \A i \in DOMAIN w : w[i].stamp \in Nat
  BY <1>3, SingletonIs
<1>. HIDE DEF w
<1>5. call'[c] = q /\ \A e \in Client \ {c} : call'[e] = call[e]
  BY <1>1, <1>2
<1>. HIDE DEF r
<1>6. /\ DOMAIN q = DOMAIN Idle /\ q.work = w /\ q.outs = r.outs
      /\ q.blocks = r.blocks /\ q.kind = "fetch"
  BY <1>1, <1>2, IdleIs DEF FormedCall
<1>. HIDE DEF q
<1>7. FormedCall(q, "record")
  BY <1>2, <1>4, <1>6 DEF FormedCall, Points, Nodewise
<1>. QED
  BY <1>1, <1>5, <1>7, CallsKept

LEMMA SubmitFormed ==
    ASSUME IInv, Calls, NEW c \in Client, Submit(c)
    PROVE  Calls'
<1>. DEFINE r == call[c]
<1>1. CASE r.kind = "submit"
  BY <1>1, ReturnFormed DEF Submit
<1>2. CASE r.kind # "submit"
  <2>. DEFINE at == IF r.kind = "fetch" THEN "wait read" ELSE "sync"
              k == Len(meant) + 1
              q == IF r.kind \in {"run", "submit"} THEN [r EXCEPT !.id = k] ELSE r
  <2>1. /\ pc[c] = "record" /\ r.work # <<>> /\ pc' = [pc EXCEPT ![c] = at]
        /\ call' = IF r.kind \in {"run", "submit"} THEN [call EXCEPT ![c].id = k] ELSE call
    BY <1>2 DEF Submit, Recorded
  <2>2. FormedCall(r, "record") /\ DOMAIN call = Client /\ DOMAIN pc = Client
    BY <2>1 DEF Calls, IInv, Shaped
  <2>. HIDE DEF k
  <2>3. call'[c] = q /\ \A e \in Client \ {c} : call'[e] = call[e]
    BY <2>1, <2>2
  <2>4. pc'[c] = at /\ \A e \in Client \ {c} : pc'[e] = pc[e]
    BY <2>1, <2>2
  <2>. HIDE DEF r
  <2>5. /\ DOMAIN q = DOMAIN Idle /\ q.work = r.work /\ q.outs = r.outs /\ q.nodes = r.nodes
        /\ q.blocks = r.blocks /\ q.kind = r.kind /\ q.size = r.size /\ q.scratch = r.scratch
    BY <2>2, IdleIs DEF FormedCall
  <2>. HIDE DEF q
  <2>6. r.kind = "fetch" \/ r.kind \in {"run", "batch", "chain"}
    BY <1>2, <2>2 DEF FormedCall, Nodewise
  <2>7. FormedCall(q, at)
    BY <2>1, <2>2, <2>5, <2>6 DEF FormedCall, Points, Nodewise
  <2>. QED
    BY <2>3, <2>4, <2>7, CallsKept
<1>. QED
  BY <1>1, <1>2

LEMMA CallsStep ==
    ASSUME IInv, Calls, stamp \in Nat, [Next]_vars
    PROVE  Calls'
<1>1. CASE UNCHANGED <<pc, call>>
  BY <1>1 DEF Calls
<1>2. CASE UNCHANGED vars \/ DeviceRuns \/ \E c \in Client : Release(c) \/ Relabel(c)
  BY <1>1, <1>2 DEF vars, DeviceRuns, Release, Relabel
<1>3. ASSUME NEW c \in Client, BeginFetch(c) PROVE Calls'
  <2>1. PICK id \in owned[c] \cap DOMAIN resident :
          call' = [call EXCEPT ![c] = [Idle EXCEPT !.kind = "fetch", !.id = id,
                                                   !.src = resident[id].h]]
    BY <1>3 DEF BeginFetch
  <2>. DEFINE q == [Idle EXCEPT !.kind = "fetch", !.id = id, !.src = resident[id].h]
  <2>2. /\ DOMAIN q = DOMAIN Idle /\ q.work = <<>> /\ q.outs = <<>> /\ q.scratch = <<>>
        /\ q.blocks = 0 /\ q.kind = "fetch"
    BY IdleIs
  <2>3. /\ pc' = [pc EXCEPT ![c] = "acquire"] /\ call' = [call EXCEPT ![c] = q]
    BY <1>3, <2>1 DEF BeginFetch
  <2>. HIDE DEF q
  <2>4. /\ call'[c] = q /\ pc'[c] = "acquire"
        /\ \A d \in Client \ {c} : call'[d] = call[d] /\ pc'[d] = pc[d]
    BY <2>3 DEF IInv, Shaped
  <2>5. FormedCall(q, "acquire")
    BY <2>2, BegunFormed
  <2>. QED
    BY <2>4, <2>5, CallsKept
<1>4. ASSUME NEW c \in Client, BeginWait(c) PROVE Calls'
  <2>1. PICK k \in DOMAIN pending[c] :
          call' = [call EXCEPT ![c] = [Idle EXCEPT !.kind = "wait",
                    !.slot = pending[c][k].slot, !.scratch = pending[c][k].scratch,
                    !.id = pending[c][k].ids[1]]]
    BY <1>4 DEF BeginWait
  <2>. DEFINE s == pending[c][k].slot
              t == pending[c][k].scratch
              i == pending[c][k].ids[1]
              q == [Idle EXCEPT !.kind = "wait", !.slot = s, !.scratch = t, !.id = i]
  <2>. HIDE DEF s, t, i
  <2>2. FormedCall(q, "sync")
    BY WaitingFormed
  <2>3. pc' = [pc EXCEPT ![c] = "sync"] /\ call' = [call EXCEPT ![c] = q]
    BY <1>4, <2>1 DEF BeginWait, s, t, i
  <2>. HIDE DEF q
  <2>4. /\ call'[c] = q /\ pc'[c] = "sync"
        /\ \A d \in Client \ {c} : call'[d] = call[d] /\ pc'[d] = pc[d]
    BY <2>3 DEF IInv, Shaped
  <2>. QED
    BY <2>2, <2>4, CallsKept
<1>5. ASSUME NEW c \in Client, Acquire(c) PROVE Calls'
  <2>1. Take(c, call[c]) /\ FormedCall(call[c], "acquire")
    BY <1>5 DEF Acquire, Calls
  <2>2. /\ DOMAIN call[c] = DOMAIN Idle /\ call[c].work = <<>> /\ call[c].outs = <<>>
        /\ call[c].scratch = <<>> /\ call[c].blocks = 0 /\ call[c].kind = "fetch"
    BY <2>1 DEF FormedCall
  <2>. QED
    BY <2>1, <2>2, TakeFormed
<1>6. ASSUME NEW c \in Client, SlotFree(c) \/ TakeSync(c) PROVE Calls'
  <2>1. /\ call' = call
        /\ \/ pc[c] = "wait slot" /\ pc' = [pc EXCEPT ![c] = "record"]
           \/ pc[c] = "sync" /\ pc' = [pc EXCEPT ![c] = "wait sync"]
    BY <1>6 DEF SlotFree, TakeSync
  <2>2. FormedCall(call[c], pc[c])
    BY DEF Calls
  <2>3. \A d \in Client \ {c} : call'[d] = call[d] /\ pc'[d] = pc[d]
    BY <2>1 DEF IInv, Shaped
  <2>4. CASE pc[c] = "wait slot" /\ pc' = [pc EXCEPT ![c] = "record"]
    <3>1. pc'[c] = "record"
      BY <2>4 DEF IInv, Shaped
    <3>2. FormedCall(call[c], "record")
      BY <2>2, <2>4 DEF FormedCall, Points
    <3>. QED
      BY <2>1, <2>3, <3>1, <3>2, CallsKept
  <2>5. CASE pc[c] = "sync" /\ pc' = [pc EXCEPT ![c] = "wait sync"]
    <3>1. pc'[c] = "wait sync"
      BY <2>5 DEF IInv, Shaped
    <3>2. FormedCall(call[c], "wait sync")
      BY <2>2, <2>5 DEF FormedCall, Points
    <3>. QED
      BY <2>1, <2>3, <3>1, <3>2, CallsKept
  <2>. QED
    BY <2>1, <2>4, <2>5
<1>7. ASSUME NEW c \in Client,
             \/ SlotWaitFails(c) \/ Synced(c) \/ SyncFails(c) \/ ReadBack(c) \/ ReadFails(c)
             \/ RecordNodeFails(c) \/ RecordChainFails(c) \/ RecordFetchFails(c)
             \/ SubmitFails(c)
      PROVE  Calls'
  <2>1. Return(c)
    BY <1>7 DEF SlotWaitFails, Synced, SyncFails, ReadBack, ReadFails, RecordNodeFails,
                RecordChainFails, RecordFetchFails, SubmitFails, Abandon
  <2>. QED
    BY <2>1, ReturnFormed
<1>. QED
  BY <1>2, <1>3, <1>4, <1>5, <1>6, <1>7, BeginFormed, RecordNodeFormed, RecordChainFormed,
     RecordFetchFormed, SubmitFormed DEF Next, Continue

-----------------------------------------------------------------------------
(***************************************************************************)
(* Lists of buffers in a caller's hands.                                   *)
(***************************************************************************)
LEMMA NothingHeld ==
    ASSUME NEW m
    PROVE  Neat(<<>>, m) /\ HandlesIn(<<>>) = {}
<1>1. <<>> \in Seq(Buffers) /\ DOMAIN <<>> = {}
  OBVIOUS
<1>. QED
  BY <1>1 DEF Neat, Distinct, HandlesIn

LEMMA OneHeld ==
    ASSUME NEW m, NEW b, Good(b, m)
    PROVE  Neat(<<b>>, m) /\ HandlesIn(<<b>>) = {b.h}
<1>1. b \in Buffers
  BY DEF Good
<1>2. <<b>> \in Seq(Buffers) /\ DOMAIN <<b>> = {1} /\ <<b>>[1] = b
  BY <1>1
<1>. HIDE DEF Good
<1>. QED
  BY <1>2 DEF Neat, Distinct, HandlesIn

LEMMA HeldMore ==
    ASSUME NEW m, NEW s, Neat(s, m), NEW b, Good(b, m), b.h \notin HandlesIn(s)
    PROVE  /\ Neat(Append(s, b), m) /\ HandlesIn(Append(s, b)) = HandlesIn(s) \cup {b.h}
           /\ Len(Append(s, b)) = Len(s) + 1
<1>. DEFINE t == Append(s, b)
<1>1. b \in Buffers /\ s \in Seq(Buffers)
  BY DEF Good, Neat
<1>2. t \in Seq(Buffers) /\ Len(t) = Len(s) + 1
  BY <1>1
<1>3. /\ DOMAIN t = DOMAIN s \cup {Len(s) + 1} /\ Len(s) + 1 \notin DOMAIN s
      /\ \A k \in DOMAIN s : t[k] = s[k]
      /\ t[Len(s) + 1] = b
  <2>1. Sequence(s)
    BY <1>1 DEF Sequence
  <2>. QED
    BY <2>1, AppendIs
<1>. HIDE DEF t
<1>4. \A i \in DOMAIN t : Good(t[i], m)
  BY <1>3 DEF Neat
<1>5. Distinct(t)
  BY <1>3 DEF Neat, Distinct, HandlesIn
<1>6. HandlesIn(t) = HandlesIn(s) \cup {b.h}
  BY <1>3 DEF HandlesIn
<1>. QED
  BY <1>2, <1>4, <1>5, <1>6 DEF Neat, t

LEMMA HeldTogether ==
    ASSUME NEW m, NEW s, Neat(s, m), NEW t, Neat(t, m), HandlesIn(s) \cap HandlesIn(t) = {}
    PROVE  Neat(s \o t, m) /\ HandlesIn(s \o t) = HandlesIn(s) \cup HandlesIn(t)
<1>. DEFINE u == s \o t
<1>1. s \in Seq(Buffers) /\ t \in Seq(Buffers)
  BY DEF Neat
<1>2. u \in Seq(Buffers) /\ Len(u) = Len(s) + Len(t) /\ DOMAIN u = 1 .. Len(s) + Len(t)
      /\ Len(s) \in Nat /\ Len(t) \in Nat /\ DOMAIN s = 1 .. Len(s) /\ DOMAIN t = 1 .. Len(t)
  BY <1>1
<1>3. /\ \A i \in DOMAIN s : i \in DOMAIN u /\ u[i] = s[i]
      /\ \A i \in DOMAIN t : Len(s) + i \in DOMAIN u /\ u[Len(s) + i] = t[i]
  BY <1>1, <1>2
<1>4. \A i \in DOMAIN u : i \in DOMAIN s \/ (i - Len(s) \in DOMAIN t /\ i = Len(s) + (i - Len(s)))
  BY <1>2
<1>. HIDE DEF u
<1>5. \A i \in DOMAIN u : \/ i \in DOMAIN s /\ u[i] = s[i]
                          \/ i - Len(s) \in DOMAIN t /\ u[i] = t[i - Len(s)]
  BY <1>3, <1>4
<1>6. \A i \in DOMAIN u : Good(u[i], m)
  BY <1>5 DEF Neat
<1>7. HandlesIn(u) = HandlesIn(s) \cup HandlesIn(t)
  <2>1. HandlesIn(u) \subseteq HandlesIn(s) \cup HandlesIn(t)
    BY <1>5 DEF HandlesIn
  <2>2. HandlesIn(s) \subseteq HandlesIn(u) /\ HandlesIn(t) \subseteq HandlesIn(u)
    BY <1>3 DEF HandlesIn
  <2>. QED
    BY <2>1, <2>2
<1>8. Distinct(u)
  <2>. SUFFICES ASSUME NEW i \in DOMAIN u, NEW j \in DOMAIN u, u[i].h = u[j].h
                PROVE  i = j
    BY DEF Distinct
  <2>1. CASE i \in DOMAIN s /\ u[i] = s[i] /\ j \in DOMAIN s /\ u[j] = s[j]
    BY <2>1 DEF Neat, Distinct
  <2>2. CASE i - Len(s) \in DOMAIN t /\ u[i] = t[i - Len(s)]
             /\ j - Len(s) \in DOMAIN t /\ u[j] = t[j - Len(s)]
    <3>1. i - Len(s) = j - Len(s)
      BY <2>2 DEF Neat, Distinct
    <3>. QED
      BY <1>2, <3>1
  <2>3. CASE i \in DOMAIN s /\ u[i] = s[i] /\ j - Len(s) \in DOMAIN t /\ u[j] = t[j - Len(s)]
    BY <2>3 DEF HandlesIn
  <2>4. CASE j \in DOMAIN s /\ u[j] = s[j] /\ i - Len(s) \in DOMAIN t /\ u[i] = t[i - Len(s)]
    BY <2>4 DEF HandlesIn
  <2>. QED
    BY <1>5, <2>1, <2>2, <2>3, <2>4
<1>. QED
  BY <1>2, <1>6, <1>7, <1>8 DEF Neat, u

\* n still lends the handles of H, at the sizes they had in m.
Keeping(m, n, H) == \A h \in H : h \in Lent(m) => h \in Lent(n) /\ n.cap[h] = m.cap[h]

LEMMA HeldStill ==
    ASSUME NEW m, NEW n, NEW s, Neat(s, m), NEW H, HandlesIn(s) \subseteq H, Keeping(m, n, H)
    PROVE  Neat(s, n)
<1>1. \A i \in DOMAIN s : s[i].h \in H
  BY DEF HandlesIn
<1>. QED
  BY <1>1 DEF Neat, Good, Keeping

LEMMA HeldAreLent ==
    ASSUME NEW m, NEW s, Neat(s, m)
    PROVE  HandlesIn(s) \subseteq Lent(m)
  BY DEF Neat, Good, HandlesIn

-----------------------------------------------------------------------------
(***************************************************************************)
(* The owners.  A client owns the outputs and the scratch of its call and  *)
(* the scratch of the submissions it has not waited for; the table owns    *)
(* the buffers behind the ids.                                             *)
(***************************************************************************)
HeldBy(p) == UNION {HandlesIn(p[k].scratch) : k \in DOMAIN p}

HandOf(outs, scratch, p) == HandlesIn(outs) \cup HandlesIn(scratch) \cup HeldBy(p)

PendingTidy(p, m) ==
  /\ Sequence(p)
  /\ \A k \in DOMAIN p : Neat(p[k].scratch, m)
  /\ \A j, k \in DOMAIN p : j # k => HandlesIn(p[j].scratch) \cap HandlesIn(p[k].scratch) = {}

HandTidy(outs, scratch, p, m) ==
  /\ Neat(outs, m) /\ Neat(scratch, m) /\ PendingTidy(p, m)
  /\ HandlesIn(outs) \cap HandlesIn(scratch) = {}
  /\ (HandlesIn(outs) \cup HandlesIn(scratch)) \cap HeldBy(p) = {}

TableOf(res) == {res[id].h : id \in DOMAIN res}
TableTidy(res, m) ==
  /\ \A id \in DOMAIN res : Good(res[id], m)
  /\ \A i, j \in DOMAIN res : res[i].h = res[j].h => i = j

LEMMA HeldByLent ==
    ASSUME NEW m, NEW p, PendingTidy(p, m)
    PROVE  HeldBy(p) \subseteq Lent(m)
<1>1. \A k \in DOMAIN p : HandlesIn(p[k].scratch) \subseteq Lent(m)
  BY HeldAreLent DEF PendingTidy
<1>. QED
  BY <1>1 DEF HeldBy

LEMMA HandLent ==
    ASSUME NEW m, NEW outs, NEW scratch, NEW p, HandTidy(outs, scratch, p, m)
    PROVE  HandOf(outs, scratch, p) \subseteq Lent(m)
  BY HeldAreLent, HeldByLent DEF HandTidy, HandOf

LEMMA PendingStill ==
    ASSUME NEW m, NEW n, NEW p, PendingTidy(p, m), NEW H, HeldBy(p) \subseteq H, Keeping(m, n, H)
    PROVE  PendingTidy(p, n)
<1>1. \A k \in DOMAIN p : HandlesIn(p[k].scratch) \subseteq H
  BY DEF HeldBy
<1>2. \A k \in DOMAIN p : Neat(p[k].scratch, n)
  BY <1>1, HeldStill DEF PendingTidy
<1>. QED
  BY <1>2 DEF PendingTidy

LEMMA HandStill ==
    ASSUME NEW m, NEW n, NEW outs, NEW scratch, NEW p, HandTidy(outs, scratch, p, m),
           NEW H, HandOf(outs, scratch, p) \subseteq H, Keeping(m, n, H)
    PROVE  HandTidy(outs, scratch, p, n)
<1>1. HandlesIn(outs) \subseteq H /\ HandlesIn(scratch) \subseteq H /\ HeldBy(p) \subseteq H
  BY DEF HandOf
<1>2. Neat(outs, n) /\ Neat(scratch, n) /\ PendingTidy(p, n)
  BY <1>1, HeldStill, PendingStill DEF HandTidy
<1>. QED
  BY <1>2 DEF HandTidy

LEMMA TableStill ==
    ASSUME NEW m, NEW n, NEW res, TableTidy(res, m), NEW H, TableOf(res) \subseteq H,
           Keeping(m, n, H)
    PROVE  TableTidy(res, n)
<1>1. \A id \in DOMAIN res : res[id].h \in H
  BY DEF TableOf
<1>. QED
  BY <1>1 DEF TableTidy, Good, Keeping

LEMMA TableLent ==
    ASSUME NEW m, NEW res, TableTidy(res, m)
    PROVE  TableOf(res) \subseteq Lent(m)
  BY DEF TableTidy, TableOf, Good

-----------------------------------------------------------------------------
(***************************************************************************)
(* The invariant of device memory.  NoBufferTwice is not inductive alone:  *)
(* one call must not hold a buffer twice either, or it would give it back  *)
(* twice, and the pool itself must hold each once.                         *)
(***************************************************************************)
OutsOf(c) == IF call[c].kind \in {"batch", "chain"} \/ pc[c] = "record"
               THEN call[c].outs ELSE <<>>
Has(c) == HandOf(OutsOf(c), call[c].scratch, pending[c])

Owners ==
  /\ Sound(Memory)
  /\ \A c \in Client : HandTidy(OutsOf(c), call[c].scratch, pending[c], Memory)
  /\ TableTidy(resident, Memory)
  /\ \A c \in Client : Has(c) \cap TableOf(resident) = {}
  /\ \A c, d \in Client : c # d => Has(c) \cap Has(d) = {}

\* The other clients' calls and submissions stay as they are.
OthersKept(c) ==
  \A d \in Client \ {c} : call'[d] = call[d] /\ pc'[d] = pc[d] /\ pending'[d] = pending[d]

LEMMA SetMemoryIs ==
    ASSUME NEW m \in Memories, SetMemory(m)
    PROVE  Memory' = m
  BY DEF Memory, SetMemory, Memories

\* A client's step takes only what nobody holds, and gives only what is its
\* own or a table's.
LEMMA OwnersStep ==
    ASSUME Owners, NEW c \in Client, OthersKept(c), NEW m, Memory' = m, Sound(m),
           Keeping(Memory, m, Lent(Memory) \ (Has(c) \cup TableOf(resident))),
           HandTidy(OutsOf(c)', call'[c].scratch, pending'[c], m),
           TableTidy(resident', m),
           HandOf(OutsOf(c)', call'[c].scratch, pending'[c]) \cap TableOf(resident') = {},
           HandOf(OutsOf(c)', call'[c].scratch, pending'[c]) \cap Lent(Memory)
             \subseteq Has(c) \cup TableOf(resident),
           TableOf(resident') \cap Lent(Memory) \subseteq Has(c) \cup TableOf(resident)
    PROVE  Owners'
<1>. DEFINE free == Lent(Memory) \ (Has(c) \cup TableOf(resident))
<1>1. ASSUME NEW d \in Client \ {c}
      PROVE  /\ Has(d) \subseteq free /\ Has(d)' = Has(d)
             /\ HandTidy(OutsOf(d)', call'[d].scratch, pending'[d], m)
  <2>1. call'[d] = call[d] /\ pc'[d] = pc[d] /\ pending'[d] = pending[d]
    BY DEF OthersKept
  <2>2. OutsOf(d)' = OutsOf(d)
    BY <2>1 DEF OutsOf
  <2>3. HandTidy(OutsOf(d), call[d].scratch, pending[d], Memory)
    BY DEF Owners
  <2>4. Has(d) \subseteq Lent(Memory)
    BY <2>3, HandLent DEF Has
  <2>5. Has(d) \subseteq free
    BY <2>4 DEF Owners
  <2>6. HandTidy(OutsOf(d), call[d].scratch, pending[d], m)
    <3>. HIDE DEF free
    <3>1. HandOf(OutsOf(d), call[d].scratch, pending[d]) \subseteq free
      BY <2>5 DEF Has
    <3>2. Keeping(Memory, m, free)
      BY DEF free
    <3>. QED
      BY <2>3, <3>1, <3>2, HandStill
  <2>. QED
    BY <2>1, <2>2, <2>5, <2>6 DEF Has
<1>2. Has(c)' = HandOf(OutsOf(c)', call'[c].scratch, pending'[c])
  BY DEF Has
<1>3. \A d \in Client : HandTidy(OutsOf(d)', call'[d].scratch, pending'[d], m)
  BY <1>1
<1>4. \A d \in Client : Has(d)' \cap TableOf(resident') = {}
  <2>. SUFFICES ASSUME NEW d \in Client \ {c} PROVE Has(d)' \cap TableOf(resident') = {}
    BY <1>2
  <2>1. Has(d)' \subseteq Lent(Memory) /\ Has(d)' \cap (Has(c) \cup TableOf(resident)) = {}
    BY <1>1
  <2>. QED
    BY <2>1
<1>5. \A d \in Client \ {c} : Has(d)' \cap Has(c)' = {}
  <2>. SUFFICES ASSUME NEW d \in Client \ {c} PROVE Has(d)' \cap Has(c)' = {}
    OBVIOUS
  <2>1. Has(d)' \subseteq Lent(Memory) /\ Has(d)' \cap (Has(c) \cup TableOf(resident)) = {}
    BY <1>1
  <2>. QED
    BY <1>2, <2>1
<1>6. \A d, e \in Client : d # e => Has(d)' \cap Has(e)' = {}
  <2>. SUFFICES ASSUME NEW d \in Client, NEW e \in Client, d # e
                PROVE  Has(d)' \cap Has(e)' = {}
    OBVIOUS
  <2>1. CASE d = c
    BY <1>5, <2>1
  <2>2. CASE e = c
    BY <1>5, <2>2
  <2>3. CASE d # c /\ e # c
    <3>1. Has(d)' = Has(d) /\ Has(e)' = Has(e)
      BY <1>1, <2>3
    <3>. QED
      BY <3>1 DEF Owners
  <2>. QED
    BY <2>1, <2>2, <2>3
<1>. QED
  BY <1>3, <1>4, <1>6 DEF Owners

LEMMA KeepingSame == \A m, H : Keeping(m, m, H)
  BY DEF Keeping

\* Memory and the table stay, and the client holds no more than before.
LEMMA HandStep ==
    ASSUME Owners, NEW c \in Client, OthersKept(c), Memory' = Memory, resident' = resident,
           HandTidy(OutsOf(c)', call'[c].scratch, pending'[c], Memory),
           HandOf(OutsOf(c)', call'[c].scratch, pending'[c]) \subseteq Has(c)
    PROVE  Owners'
<1>1. Sound(Memory) /\ TableTidy(resident, Memory) /\ Has(c) \cap TableOf(resident) = {}
  BY DEF Owners
<1>2. Keeping(Memory, Memory, Lent(Memory) \ (Has(c) \cup TableOf(resident)))
  BY KeepingSame
<1>3. HandOf(OutsOf(c)', call'[c].scratch, pending'[c]) \cap TableOf(resident) = {}
  BY <1>1
<1>4. /\ HandOf(OutsOf(c)', call'[c].scratch, pending'[c]) \cap Lent(Memory)
           \subseteq Has(c) \cup TableOf(resident)
      /\ TableOf(resident) \cap Lent(Memory) \subseteq Has(c) \cup TableOf(resident)
  OBVIOUS
<1>. QED
  BY <1>1, <1>2, <1>3, <1>4, OwnersStep

LEMMA EmptyHand ==
    ASSUME NEW m, NEW p, PendingTidy(p, m)
    PROVE  HandTidy(<<>>, <<>>, p, m) /\ HandOf(<<>>, <<>>, p) = HeldBy(p)
  BY NothingHeld DEF HandTidy, HandOf

\* A call that has nothing in hand, before a step and after it.
LEMMA LettingGo ==
    ASSUME Owners, NEW c \in Client, OthersKept(c), Memory' = Memory, resident' = resident,
           pending'[c] = pending[c], call'[c].outs = <<>>, call'[c].scratch = <<>>
    PROVE  Owners'
<1>1. OutsOf(c)' = <<>>
  BY DEF OutsOf
<1>2. PendingTidy(pending[c], Memory)
  BY DEF Owners, HandTidy
<1>3. /\ HandTidy(<<>>, <<>>, pending[c], Memory)
      /\ HandOf(<<>>, <<>>, pending[c]) \subseteq Has(c)
  BY <1>2, EmptyHand DEF Has, HandOf
<1>. QED
  BY <1>1, <1>3, HandStep

\* A client gives buffers back, of its own or of the table, and holds no more
\* than what it held or has allocated.
LEMMA GivingBack ==
    ASSUME Owners, NEW c \in Client, OthersKept(c),
           NEW m, Sound(m), Keeping(Memory, m, Lent(Memory)),
           NEW bs, Neat(bs, m), HandlesIn(bs) \cap Lent(Memory) \subseteq Has(c) \cup TableOf(resident),
           Memory' = RecycleAll(m, bs),
           HandTidy(OutsOf(c)', call'[c].scratch, pending'[c], m),
           TableTidy(resident', m),
           HandOf(OutsOf(c)', call'[c].scratch, pending'[c]) \cap HandlesIn(bs) = {},
           TableOf(resident') \cap HandlesIn(bs) = {},
           HandOf(OutsOf(c)', call'[c].scratch, pending'[c]) \cap TableOf(resident') = {},
           HandOf(OutsOf(c)', call'[c].scratch, pending'[c]) \cap Lent(Memory)
             \subseteq Has(c) \cup TableOf(resident),
           TableOf(resident') \cap Lent(Memory) \subseteq Has(c) \cup TableOf(resident)
    PROVE  Owners'
<1>. DEFINE n == RecycleAll(m, bs)
            H == Lent(m) \ HandlesIn(bs)
            hand == HandOf(OutsOf(c)', call'[c].scratch, pending'[c])
            free == Lent(Memory) \ (Has(c) \cup TableOf(resident))
<1>1. Sound(n) /\ Lent(n) = H /\ n.cap = m.cap
  BY RecycleAllIs
<1>. HIDE DEF n
<1>2. Keeping(m, n, H)
  BY <1>1 DEF Keeping
<1>3. hand \subseteq H
  <2>1. hand \subseteq Lent(m)
    BY HandLent
  <2>. QED
    BY <2>1
<1>4. TableOf(resident') \subseteq H
  <2>1. TableOf(resident') \subseteq Lent(m)
    BY TableLent
  <2>. QED
    BY <2>1
<1>5. HandTidy(OutsOf(c)', call'[c].scratch, pending'[c], n)
  <2>. HIDE DEF H
  <2>. QED
    BY <1>2, <1>3, HandStill
<1>6. TableTidy(resident', n)
  <2>. HIDE DEF H
  <2>. QED
    BY <1>2, <1>4, TableStill
<1>7. Keeping(Memory, n, free)
  <2>1. \A h \in free : h \in Lent(m) /\ m.cap[h] = Memory.cap[h]
    BY DEF Keeping
  <2>2. \A h \in free : h \notin HandlesIn(bs)
    OBVIOUS
  <2>. HIDE DEF free
  <2>. QED
    BY <1>1, <2>1, <2>2 DEF Keeping
<1>8. Memory' = n
  BY DEF n
<1>. QED
  BY <1>1, <1>5, <1>6, <1>7, <1>8, OwnersStep

\* An error before the submit.
LEMMA AbandonOwners ==
    ASSUME IInv, Owners, NEW c \in Client, pc[c] = "record",
           NEW m, Sound(m), Keeping(Memory, m, Lent(Memory)),
           NEW outs, Neat(outs, m), HandlesIn(outs) \cap HandlesIn(call[c].scratch) = {},
           HandlesIn(outs) \cap HeldBy(pending[c]) = {},
           HandlesIn(outs) \cap TableOf(resident) = {},
           HandlesIn(outs) \cap Lent(Memory) \subseteq Has(c),
           Abandon(c, m, outs)
    PROVE  Owners'
<1>. DEFINE bs == outs \o call[c].scratch
            p == pending[c]
<1>1. /\ call'[c] = Idle /\ pc'[c] = "idle" /\ pending' = pending /\ resident' = resident
      /\ \A d \in Client \ {c} : call'[d] = call[d] /\ pc'[d] = pc[d]
  <2>1. Return(c) /\ pending' = pending /\ resident' = resident
    BY DEF Abandon, ids
  <2>. QED
    BY <2>1, ReturnIs
<1>2. OthersKept(c)
  BY <1>1 DEF OthersKept
<1>3. OutsOf(c)' = <<>> /\ call'[c].scratch = <<>> /\ pending'[c] = p
  BY <1>1, IdleIs DEF OutsOf
<1>4. /\ HandTidy(OutsOf(c), call[c].scratch, p, Memory) /\ TableTidy(resident, Memory)
      /\ Has(c) \cap TableOf(resident) = {}
  BY DEF Owners
<1>5. /\ HandlesIn(call[c].scratch) \subseteq Has(c) /\ HeldBy(p) \subseteq Has(c)
      /\ HandlesIn(call[c].scratch) \cap HeldBy(p) = {} /\ Has(c) \subseteq Lent(Memory)
  BY <1>4, HandLent DEF Has, HandOf, HandTidy
<1>6. Neat(call[c].scratch, m)
  <2>1. Neat(call[c].scratch, Memory) /\ HandlesIn(call[c].scratch) \subseteq Lent(Memory)
    BY <1>4, <1>5 DEF HandTidy
  <2>. QED
    BY <2>1, HeldStill
<1>7. Neat(bs, m) /\ HandlesIn(bs) = HandlesIn(outs) \cup HandlesIn(call[c].scratch)
  BY <1>6, HeldTogether
<1>8. PendingTidy(p, m) /\ TableTidy(resident, m)
  <2>1. PendingTidy(p, Memory) /\ HeldBy(p) \subseteq Lent(Memory)
    BY <1>4, <1>5 DEF HandTidy
  <2>2. TableOf(resident) \subseteq Lent(Memory)
    BY <1>4, TableLent
  <2>. QED
    BY <1>4, <2>1, <2>2, PendingStill, TableStill
<1>9. HandTidy(<<>>, <<>>, p, m) /\ HandOf(<<>>, <<>>, p) = HeldBy(p)
  BY <1>8, EmptyHand
<1>10. Memory' = RecycleAll(m, bs)
  <2>1. SetMemory(RecycleAll(m, bs))
    BY DEF Abandon
  <2>2. RecycleAll(m, bs) \in Memories
    BY <1>7, RecycleAllIs DEF Sound
  <2>. QED
    BY <2>1, <2>2, SetMemoryIs
<1>. HIDE DEF bs
<1>11. /\ HandlesIn(bs) \cap Lent(Memory) \subseteq Has(c) \cup TableOf(resident)
       /\ HeldBy(p) \cap HandlesIn(bs) = {} /\ TableOf(resident) \cap HandlesIn(bs) = {}
       /\ HeldBy(p) \cap TableOf(resident) = {}
       /\ HeldBy(p) \cap Lent(Memory) \subseteq Has(c) \cup TableOf(resident)
       /\ TableOf(resident) \cap Lent(Memory) \subseteq Has(c) \cup TableOf(resident)
  BY <1>4, <1>5, <1>7
<1>. HIDE DEF p
<1>. QED
  BY <1>1, <1>2, <1>3, <1>7, <1>8, <1>9, <1>10, <1>11, GivingBack

-----------------------------------------------------------------------------
\* What the accounting counted for a creation the driver refused.
LEMMA FailingIs ==
    ASSUME NEW m, Sound(m), NEW size \in CallSize, NEW n \in AllocateFails(m, size)
    PROVE  Sound(n) /\ Lent(n) = Lent(m) /\ n.cap = m.cap /\ n.content = m.content
<1>1. n = [m EXCEPT !.alive = @ + size] /\ m \in Memories
  BY DEF AllocateFails, Sound
<1>2. size \in Nat /\ m.alive \in Int
  BY <1>1, SizesAssumption DEF Memories
<1>3. /\ n.cap = m.cap /\ n.freed = m.freed /\ n.content = m.content
      /\ n.recycled = m.recycled /\ n.alive = m.alive + size /\ n \in Memories
  <2>1. m.alive + size \in Int
    BY <1>2
  <2>. QED
    BY <1>1, <2>1 DEF Memories
<1>4. n.alive >= Units(n.cap, n.freed)
  <2>1. m.cap \in Seq(Size)
    BY <1>1 DEF Memories
  <2>2. Units(m.cap, m.freed) \in Nat /\ m.alive >= Units(m.cap, m.freed)
    BY <2>1, UnitsCount DEF Sound
  <2>. QED
    BY <1>2, <1>3, <2>2
<1>. QED
  BY <1>3, <1>4 DEF Sound, PoolNeat, Lent, InPool

\* The allocations of a call leave what was lent as it was.
LEMMA ExtendsKeeps ==
    ASSUME NEW m, Sound(m), NEW size \in CallSize
    PROVE  Keeping(m, Allocate(m, size), Lent(m))
<1>1. /\ Lent(Allocate(m, size)) = Lent(m) \cup {Allocated(m, size).h}
      /\ Extends(m, Allocate(m, size))
  BY AllocateIs
<1>. QED
  BY <1>1 DEF Keeping, Extends, Lent

LEMMA FailingKeeps ==
    ASSUME NEW m, Sound(m), NEW size \in CallSize, NEW n \in AllocateFails(m, size), NEW H
    PROVE  Keeping(m, n, H)
<1>1. Lent(n) = Lent(m) /\ n.cap = m.cap
  BY FailingIs
<1>. QED
  BY <1>1 DEF Keeping

LEMMA KeepingOn ==
    ASSUME NEW m, NEW n, NEW o, NEW H, Keeping(m, n, H), Keeping(n, o, H)
    PROVE  Keeping(m, o, H)
  BY DEF Keeping

LEMMA KeepingLess ==
    ASSUME NEW m, NEW n, NEW H, Keeping(m, n, H), NEW G, G \subseteq H
    PROVE  Keeping(m, n, G)
  BY DEF Keeping

\* A buffer nobody holds joins the outputs, or the scratch.
LEMMA OutputAdded ==
    ASSUME NEW m, NEW n, NEW o, NEW s, NEW p, HandTidy(o, s, p, m), Keeping(m, n, Lent(m)),
           NEW b, Good(b, n), b.h \notin Lent(m)
    PROVE  /\ HandTidy(Append(o, b), s, p, n)
           /\ HandOf(Append(o, b), s, p) = HandOf(o, s, p) \cup {b.h}
<1>1. HandOf(o, s, p) \subseteq Lent(m)
  BY HandLent
<1>2. HandTidy(o, s, p, n)
  BY <1>1, HandStill
<1>3. b.h \notin HandlesIn(o) /\ b.h \notin HandlesIn(s) /\ b.h \notin HeldBy(p)
  BY <1>1 DEF HandOf
<1>4. Neat(Append(o, b), n) /\ HandlesIn(Append(o, b)) = HandlesIn(o) \cup {b.h}
  BY <1>2, <1>3, HeldMore DEF HandTidy
<1>. QED
  BY <1>2, <1>3, <1>4 DEF HandTidy, HandOf

LEMMA ScratchAdded ==
    ASSUME NEW m, NEW n, NEW o, NEW s, NEW p, HandTidy(o, s, p, m), Keeping(m, n, Lent(m)),
           NEW b, Good(b, n), b.h \notin Lent(m)
    PROVE  /\ HandTidy(o, s \o <<b>>, p, n)
           /\ HandOf(o, s \o <<b>>, p) = HandOf(o, s, p) \cup {b.h}
<1>1. HandOf(o, s, p) \subseteq Lent(m)
  BY HandLent
<1>2. HandTidy(o, s, p, n)
  BY <1>1, HandStill
<1>3. b.h \notin HandlesIn(o) /\ b.h \notin HandlesIn(s) /\ b.h \notin HeldBy(p)
  BY <1>1 DEF HandOf
<1>4. Neat(<<b>>, n) /\ HandlesIn(<<b>>) = {b.h}
  BY OneHeld
<1>5. Neat(s \o <<b>>, n) /\ HandlesIn(s \o <<b>>) = HandlesIn(s) \cup {b.h}
  BY <1>2, <1>3, <1>4, HeldTogether DEF HandTidy
<1>. QED
  BY <1>2, <1>3, <1>5 DEF HandTidy, HandOf

LEMMA NoScratchAdded ==
    ASSUME NEW m, NEW o, NEW s, NEW p, HandTidy(o, s, p, m)
    PROVE  HandTidy(o, s \o <<>>, p, m) /\ HandOf(o, s \o <<>>, p) = HandOf(o, s, p)
<1>1. Neat(<<>>, m) /\ HandlesIn(<<>>) = {}
  BY NothingHeld
<1>2. Neat(s \o <<>>, m) /\ HandlesIn(s \o <<>>) = HandlesIn(s)
  BY <1>1, HeldTogether DEF HandTidy
<1>. QED
  BY <1>2 DEF HandTidy, HandOf

LEMMA PairHeld ==
    ASSUME NEW m, NEW a, NEW b, Good(a, m), Good(b, m), a.h # b.h
    PROVE  Neat(<<a, b>>, m) /\ HandlesIn(<<a, b>>) = {a.h, b.h}
<1>1. a \in Buffers /\ b \in Buffers
  BY DEF Good
<1>2. /\ <<a, b>> \in Seq(Buffers) /\ DOMAIN <<a, b>> = {1, 2}
      /\ <<a, b>>[1] = a /\ <<a, b>>[2] = b
  BY <1>1
<1>3. \A i \in DOMAIN <<a, b>> : Good(<<a, b>>[i], m)
  BY <1>2
<1>4. Distinct(<<a, b>>) /\ HandlesIn(<<a, b>>) = {a.h, b.h}
  BY <1>2 DEF Distinct, HandlesIn
<1>. QED
  BY <1>2, <1>3, <1>4 DEF Neat

LEMMA RecordNodeOwners ==
    ASSUME IInv, Calls, Owners, NEW c \in Client, RecordNode(c)
    PROVE  Owners'
<1>. DEFINE r == call[c]
            p == pending[c]
            host == NodeOf(c) = Host
            b == Allocated(Memory, r.size)
            up == IF host THEN Allocate(Memory, r.size) ELSE Memory
            src == CASE host -> Allocated(Memory, r.size).h
                     [] NodeOf(c).from = "id" -> resident[NodeOf(c).at].h
                     [] NodeOf(c).from = "out" -> r.outs[NodeOf(c).at].h
            want == CASE host -> stamp + 1
                      [] NodeOf(c).from = "id" -> meant[NodeOf(c).at]
                      [] NodeOf(c).from = "out" -> r.work[NodeOf(c).at].stamp
            at == IF host THEN NextBlock(r) ELSE 0
            o == Allocated(up, r.size)
            s == IF host THEN <<Buffer(src, r.size)>> ELSE <<>>
            d == Dispatched(at, src, want, o.h, stamp + 1)
            n == IF host THEN r.blocks + 1 ELSE r.blocks
            m == Allocate(up, r.size)
<1>1. /\ call' = [call EXCEPT ![c].work = Append(@, d), ![c].scratch = @ \o s,
                              ![c].outs = Append(@, o), ![c].blocks = n]
      /\ pc[c] = "record" /\ r.kind \in Nodewise /\ pc' = pc
      /\ pending' = pending /\ resident' = resident /\ SetMemory(m)
  BY DEF RecordNode, Nodewise, ids
<1>2. FormedCall(r, "record") /\ DOMAIN call = Client
  BY <1>1 DEF Calls, IInv, Shaped
<1>3. r.size \in CallSize /\ DOMAIN r = DOMAIN Idle
  BY <1>1, <1>2 DEF FormedCall, Nodewise
<1>4. host => s = <<b>>
  <2>. SUFFICES ASSUME host PROVE s = <<b>>
    OBVIOUS
  <2>1. Good(b, Allocate(Memory, r.size)) /\ b.size = r.size
    BY <1>3, AllocateIs DEF Owners
  <2>2. Buffer(b.h, r.size) = b
    BY <2>1 DEF Good, Buffers, Buffer
  <2>. HIDE DEF host, b
  <2>3. src = b.h
    <3>1. host
      OBVIOUS
    <3>2. NodeOf(c).from # "id" /\ NodeOf(c).from # "out"
      <4>1. Host.from = "host"
        BY DEF Host
      <4>. QED
        BY <4>1 DEF host
    <3>. QED
      BY <3>1, <3>2 DEF b
  <2>4. s = <<Buffer(src, r.size)>>
    OBVIOUS
  <2>. HIDE DEF src, s, b
  <2>. QED
    BY <2>2, <2>3, <2>4
<1>5. ~host => s = <<>>
  OBVIOUS
<1>6. /\ host => up = Allocate(Memory, r.size)
      /\ ~host => up = Memory
  OBVIOUS
<1>. HIDE DEF d, s, up, b, host
<1>7. /\ OutsOf(c)' = Append(r.outs, o) /\ OutsOf(c) = r.outs
      /\ call'[c].scratch = r.scratch \o s /\ pending'[c] = p
      /\ OthersKept(c)
  <2>1. call'[c].outs = Append(r.outs, o) /\ call'[c].scratch = r.scratch \o s
    BY <1>1, <1>2, <1>3, IdleIs
  <2>2. \A e \in Client \ {c} : call'[e] = call[e]
    BY <1>1, <1>2
  <2>3. OutsOf(c)' = call'[c].outs /\ OutsOf(c) = call[c].outs
    BY <1>1 DEF OutsOf
  <2>. QED
    BY <1>1, <2>1, <2>2, <2>3 DEF OthersKept
<1>8. /\ Sound(Memory) /\ HandTidy(r.outs, r.scratch, p, Memory) /\ TableTidy(resident, Memory)
      /\ Has(c) \cap TableOf(resident) = {} /\ Has(c) = HandOf(r.outs, r.scratch, p)
  BY <1>7 DEF Owners, Has
<1>. HIDE DEF r, p
<1>9. /\ Sound(up) /\ Keeping(Memory, up, Lent(Memory)) /\ Lent(Memory) \subseteq Lent(up)
      /\ HandTidy(r.outs, r.scratch \o s, p, up)
      /\ HandOf(r.outs, r.scratch \o s, p) \cap Lent(Memory) = Has(c)
  <2>1. Has(c) \subseteq Lent(Memory)
    BY <1>8, HandLent
  <2>2. CASE host
    <3>1. /\ Sound(up) /\ Good(b, up) /\ b.h \notin Lent(Memory)
          /\ Lent(up) = Lent(Memory) \cup {b.h} /\ Keeping(Memory, up, Lent(Memory))
      BY <1>3, <1>6, <1>8, <2>2, AllocateIs, ExtendsKeeps DEF b
    <3>2. /\ HandTidy(r.outs, r.scratch \o s, p, up)
          /\ HandOf(r.outs, r.scratch \o s, p) = Has(c) \cup {b.h}
      BY <1>4, <1>8, <2>2, <3>1, ScratchAdded
    <3>. QED
      BY <2>1, <3>1, <3>2
  <2>3. CASE ~host
    <3>1. /\ HandTidy(r.outs, r.scratch \o s, p, up)
          /\ HandOf(r.outs, r.scratch \o s, p) = Has(c)
      BY <1>5, <1>6, <1>8, <2>3, NoScratchAdded
    <3>. QED
      BY <1>6, <1>8, <2>1, <2>3, <3>1, KeepingSame
  <2>. QED
    BY <2>2, <2>3
<1>10. /\ Sound(m) /\ Good(o, m) /\ o.h \notin Lent(up) /\ Keeping(up, m, Lent(up))
  BY <1>3, <1>9, AllocateIs, ExtendsKeeps
<1>. HIDE DEF o, m
<1>11. /\ HandTidy(Append(r.outs, o), r.scratch \o s, p, m)
       /\ HandOf(Append(r.outs, o), r.scratch \o s, p)
            = HandOf(r.outs, r.scratch \o s, p) \cup {o.h}
  BY <1>9, <1>10, OutputAdded
<1>12. Keeping(Memory, m, Lent(Memory))
  <2>1. Keeping(up, m, Lent(Memory))
    BY <1>9, <1>10, KeepingLess
  <2>. QED
    BY <1>9, <2>1, KeepingOn
<1>13. TableOf(resident) \subseteq Lent(Memory) /\ TableTidy(resident, m)
  <2>1. TableOf(resident) \subseteq Lent(Memory)
    BY <1>8, TableLent
  <2>. QED
    BY <1>8, <1>12, <2>1, TableStill
<1>14. Keeping(Memory, m, Lent(Memory) \ (Has(c) \cup TableOf(resident)))
  BY <1>12, KeepingLess
<1>15. Memory' = m
  BY <1>1, <1>10, SetMemoryIs DEF Sound
<1>16. HandOf(Append(r.outs, o), r.scratch \o s, p) \cap Lent(Memory) = Has(c)
  BY <1>9, <1>10, <1>11
<1>17. HandTidy(OutsOf(c)', call'[c].scratch, pending'[c], m)
  BY <1>7, <1>11
<1>18. HandOf(OutsOf(c)', call'[c].scratch, pending'[c]) \cap Lent(Memory) = Has(c)
  BY <1>7, <1>16
<1>. QED
  BY <1>1, <1>7, <1>8, <1>10, <1>13, <1>14, <1>15, <1>17, <1>18, OwnersStep

\* What a recording that fails has allocated, and gives back.
LEMMA RecordNodeFailsOwners ==
    ASSUME IInv, Calls, Owners, NEW c \in Client, RecordNodeFails(c)
    PROVE  Owners'
<1>. DEFINE r == call[c]
            p == pending[c]
            host == NodeOf(c) = Host
            up == IF host THEN Allocate(Memory, r.size) ELSE Memory
            b == Allocated(Memory, r.size)
            target == IF host THEN <<b>> ELSE <<>>
            begun == IF host THEN AllocateFails(Memory, r.size) ELSE {}
<1>1. /\ pc[c] = "record" /\ r.kind \in Nodewise
      /\ \/ \E m \in begun : Abandon(c, m, r.outs)
         \/ \E m \in AllocateFails(up, r.size) \cup {Allocate(up, r.size)} :
              Abandon(c, m, r.outs \o target)
  BY DEF RecordNodeFails, Nodewise
<1>2. FormedCall(r, "record")
  BY <1>1 DEF Calls
<1>3. r.size \in CallSize
  BY <1>1, <1>2 DEF FormedCall, Nodewise
<1>4. OutsOf(c) = r.outs
  BY <1>1 DEF OutsOf
<1>5. /\ Sound(Memory) /\ HandTidy(r.outs, r.scratch, p, Memory) /\ TableTidy(resident, Memory)
      /\ Has(c) \cap TableOf(resident) = {} /\ Has(c) = HandOf(r.outs, r.scratch, p)
  BY <1>4 DEF Owners, Has
<1>6. Has(c) \subseteq Lent(Memory) /\ TableOf(resident) \subseteq Lent(Memory)
  BY <1>5, HandLent, TableLent
<1>7. /\ HandlesIn(r.outs) \subseteq Has(c) /\ HandlesIn(r.scratch) \subseteq Has(c)
      /\ HeldBy(p) \subseteq Has(c)
      /\ HandlesIn(r.outs) \cap HandlesIn(r.scratch) = {}
      /\ HandlesIn(r.outs) \cap HeldBy(p) = {}
  BY <1>5 DEF HandOf, HandTidy
<1>8. ASSUME NEW m \in begun, Abandon(c, m, r.outs) PROVE Owners'
  <2>1. host /\ m \in AllocateFails(Memory, r.size)
    BY <1>8
  <2>2. Sound(m) /\ Keeping(Memory, m, Lent(Memory))
    BY <1>3, <1>5, <2>1, FailingIs, FailingKeeps
  <2>3. Neat(r.outs, m)
    <3>1. Neat(r.outs, Memory) /\ HandlesIn(r.outs) \subseteq Lent(Memory)
      BY <1>5, <1>6, <1>7 DEF HandTidy
    <3>. QED
      BY <2>2, <3>1, HeldStill
  <2>4. HandlesIn(r.outs) \cap TableOf(resident) = {}
        /\ HandlesIn(r.outs) \cap Lent(Memory) \subseteq Has(c)
    BY <1>5, <1>7
  <2>. QED
    BY <1>1, <1>7, <1>8, <2>2, <2>3, <2>4, AbandonOwners
<1>9. /\ Sound(up) /\ Keeping(Memory, up, Lent(Memory)) /\ Lent(Memory) \subseteq Lent(up)
      /\ Neat(target, up) /\ HandlesIn(target) \cap Lent(Memory) = {}
  <2>1. CASE host
    <3>1. /\ Sound(up) /\ Good(b, up) /\ b.h \notin Lent(Memory)
          /\ Lent(up) = Lent(Memory) \cup {b.h} /\ Keeping(Memory, up, Lent(Memory))
      BY <1>3, <1>5, <2>1, AllocateIs, ExtendsKeeps
    <3>. HIDE DEF b, up
    <3>2. Neat(<<b>>, up) /\ HandlesIn(<<b>>) = {b.h} /\ target = <<b>>
      BY <2>1, <3>1, OneHeld
    <3>. QED
      BY <3>1, <3>2
  <2>2. CASE ~host
    <3>1. up = Memory /\ target = <<>>
      BY <2>2
    <3>. QED
      BY <1>5, <3>1, NothingHeld, KeepingSame
  <2>. QED
    BY <2>1, <2>2
<1>10. ASSUME NEW m \in AllocateFails(up, r.size) \cup {Allocate(up, r.size)},
              Abandon(c, m, r.outs \o target)
       PROVE  Owners'
  <2>. HIDE DEF up, target
  <2>1. Sound(m) /\ Keeping(up, m, Lent(up))
    BY <1>3, <1>9, <1>10, FailingIs, FailingKeeps, AllocateIs, ExtendsKeeps
  <2>2. Keeping(Memory, m, Lent(Memory))
    <3>1. Keeping(up, m, Lent(Memory))
      BY <1>9, <2>1, KeepingLess
    <3>. QED
      BY <1>9, <3>1, KeepingOn
  <2>3. Neat(r.outs, m)
    <3>1. Neat(r.outs, Memory) /\ HandlesIn(r.outs) \subseteq Lent(Memory)
      BY <1>5, <1>6, <1>7 DEF HandTidy
    <3>. QED
      BY <2>2, <3>1, HeldStill
  <2>4. Neat(target, m)
    <3>1. HandlesIn(target) \subseteq Lent(up)
      BY <1>9, HeldAreLent
    <3>. QED
      BY <1>9, <2>1, <3>1, HeldStill
  <2>. DEFINE outs == r.outs \o target
  <2>5. Neat(outs, m) /\ HandlesIn(outs) = HandlesIn(r.outs) \cup HandlesIn(target)
    <3>1. HandlesIn(r.outs) \cap HandlesIn(target) = {}
      BY <1>6, <1>7, <1>9
    <3>. QED
      BY <2>3, <2>4, <3>1, HeldTogether
  <2>6. Abandon(c, m, outs)
    BY <1>10
  <2>. HIDE DEF outs
  <2>7. /\ HandlesIn(outs) \cap HandlesIn(r.scratch) = {}
        /\ HandlesIn(outs) \cap HeldBy(p) = {}
        /\ HandlesIn(outs) \cap TableOf(resident) = {}
        /\ HandlesIn(outs) \cap Lent(Memory) \subseteq Has(c)
    BY <1>5, <1>6, <1>7, <1>9, <2>5
  <2>. QED
    BY <1>1, <2>1, <2>2, <2>5, <2>6, <2>7, AbandonOwners
<1>. QED
  BY <1>1, <1>8, <1>10

\* An error that comes before or after what was allocated is in the call's
\* hands: it gives back the scratch alone.
LEMMA AbandonPlainOwners ==
    ASSUME IInv, Owners, NEW c \in Client, pc[c] = "record", Abandon(c, Memory, <<>>)
    PROVE  Owners'
<1>1. Sound(Memory) /\ Keeping(Memory, Memory, Lent(Memory))
  BY KeepingSame DEF Owners
<1>2. Neat(<<>>, Memory) /\ HandlesIn(<<>>) = {}
  BY NothingHeld
<1>. QED
  BY <1>1, <1>2, AbandonOwners
\* A chain that has recorded nothing has nothing in hand.
LEMMA ChainBegins ==
    ASSUME IInv, Calls, Owners, NEW c \in Client, pc[c] = "record", call[c].kind = "chain",
           call[c].work = <<>>
    PROVE  /\ call[c].size \in CallSize /\ DOMAIN call[c] = DOMAIN Idle /\ DOMAIN call = Client
           /\ call[c].outs = <<>> /\ call[c].scratch = <<>>
           /\ Sound(Memory) /\ PendingTidy(pending[c], Memory) /\ Has(c) = HeldBy(pending[c])
           /\ TableTidy(resident, Memory) /\ Has(c) \cap TableOf(resident) = {}
           /\ Has(c) \subseteq Lent(Memory) /\ TableOf(resident) \subseteq Lent(Memory)
<1>1. FormedCall(call[c], "record") /\ DOMAIN call = Client
  BY DEF Calls, IInv, Shaped
<1>2. call[c].size \in CallSize /\ DOMAIN call[c] = DOMAIN Idle
  BY <1>1 DEF FormedCall
<1>3. call[c].outs = <<>> /\ call[c].scratch = <<>>
  BY <1>1 DEF FormedCall
<1>4. OutsOf(c) = <<>>
  BY <1>3 DEF OutsOf
<1>5. /\ Sound(Memory) /\ HandTidy(<<>>, <<>>, pending[c], Memory)
      /\ TableTidy(resident, Memory)
      /\ Has(c) \cap TableOf(resident) = {} /\ Has(c) = HandOf(<<>>, <<>>, pending[c])
  BY <1>3, <1>4 DEF Owners, Has
<1>6. PendingTidy(pending[c], Memory)
  BY <1>5 DEF HandTidy
<1>7. Has(c) = HeldBy(pending[c])
  BY <1>5, <1>6, EmptyHand
<1>. QED
  BY <1>1, <1>2, <1>3, <1>5, <1>6, <1>7, HeldByLent, TableLent

\* Two allocations after one another.
LEMMA AllocateTwice ==
    ASSUME NEW m, NEW n, Sound(n), NEW H, H \subseteq Lent(m), H \subseteq Lent(n),
           Keeping(m, n, H), NEW size \in CallSize
    PROVE  /\ Sound(Allocate(n, size)) /\ H \subseteq Lent(Allocate(n, size))
           /\ Keeping(m, Allocate(n, size), H)
           /\ Good(Allocated(n, size), Allocate(n, size)) /\ Allocated(n, size).h \notin Lent(n)
           /\ Lent(Allocate(n, size)) = Lent(n) \cup {Allocated(n, size).h}
           /\ \A b : Good(b, n) => Good(b, Allocate(n, size))
<1>1. /\ Sound(Allocate(n, size))
      /\ Good(Allocated(n, size), Allocate(n, size)) /\ Allocated(n, size).h \notin Lent(n)
      /\ Lent(Allocate(n, size)) = Lent(n) \cup {Allocated(n, size).h}
      /\ Keeping(n, Allocate(n, size), Lent(n))
  BY AllocateIs, ExtendsKeeps
<1>. DEFINE o == Allocate(n, size)
            b == Allocated(n, size)
<1>. HIDE DEF o, b
<1>2. Sound(o) /\ Good(b, o) /\ b.h \notin Lent(n) /\ Lent(o) = Lent(n) \cup {b.h}
      /\ Keeping(n, o, Lent(n))
  BY <1>1 DEF o, b
<1>3. Keeping(m, o, H)
  BY <1>2, KeepingLess, KeepingOn
<1>4. \A x : Good(x, n) => Good(x, o)
  BY <1>2 DEF Good, Keeping
<1>. QED
  BY <1>2, <1>3, <1>4 DEF o, b

LEMMA RecordChainOwners ==
    ASSUME IInv, Calls, Owners, NEW c \in Client, RecordChain(c)
    PROVE  Owners'
<1>. DEFINE r == call[c]
            p == pending[c]
            n == Len(r.nodes)
            m1 == Allocate(Memory, r.size)
            m2 == Allocate(m1, r.size)
            m == Allocate(m2, r.size)
            s == Allocated(Memory, r.size)
            a == Allocated(m1, r.size)
            b == Allocated(m2, r.size)
            o == IF n % 2 = 1 THEN <<a, b>> ELSE <<b, a>>
            w == ChainLinks(s, a, b, stamp, n)
            L == Lent(Memory)
<1>1. /\ pc[c] = "record" /\ r.kind = "chain" /\ r.work = <<>> /\ SetMemory(m)
      /\ call' = [call EXCEPT ![c].work = w, ![c].scratch = <<s>>, ![c].outs = o]
      /\ pc' = pc /\ pending' = pending /\ resident' = resident
  BY DEF RecordChain, ids
<1>2. /\ r.size \in CallSize /\ DOMAIN r = DOMAIN Idle /\ DOMAIN call = Client
      /\ Sound(Memory) /\ PendingTidy(p, Memory) /\ Has(c) = HeldBy(p)
      /\ TableTidy(resident, Memory) /\ Has(c) \cap TableOf(resident) = {}
      /\ Has(c) \subseteq L /\ TableOf(resident) \subseteq L
  BY <1>1, ChainBegins
<1>3. /\ Sound(m1) /\ L \subseteq Lent(m1) /\ Keeping(Memory, m1, L) /\ Good(s, m1)
      /\ s.h \notin L /\ s.h \in Lent(m1)
  BY <1>2, AllocateTwice, KeepingSame
<1>. HIDE DEF m1, s
<1>4. /\ Sound(m2) /\ L \subseteq Lent(m2) /\ Keeping(Memory, m2, L) /\ Good(s, m2) /\ Good(a, m2)
      /\ a.h \notin Lent(m1) /\ Lent(m1) \subseteq Lent(m2) /\ a.h \in Lent(m2)
  BY <1>2, <1>3, AllocateTwice
<1>. HIDE DEF m2, a
<1>5. /\ Sound(m) /\ Keeping(Memory, m, L) /\ Good(s, m) /\ Good(a, m) /\ Good(b, m)
      /\ b.h \notin Lent(m2)
  BY <1>2, <1>4, AllocateTwice
<1>6. s.h # a.h /\ s.h # b.h /\ a.h # b.h /\ a.h \notin L /\ b.h \notin L
  BY <1>3, <1>4, <1>5
<1>. HIDE DEF m, b
<1>7. Neat(o, m) /\ HandlesIn(o) = {a.h, b.h}
  <2>1. Neat(<<a, b>>, m) /\ HandlesIn(<<a, b>>) = {a.h, b.h}
    BY <1>5, <1>6, PairHeld
  <2>2. Neat(<<b, a>>, m) /\ HandlesIn(<<b, a>>) = {a.h, b.h}
    BY <1>5, <1>6, PairHeld
  <2>3. o = <<a, b>> \/ o = <<b, a>>
    OBVIOUS
  <2>. QED
    BY <2>1, <2>2, <2>3
<1>8. Neat(<<s>>, m) /\ HandlesIn(<<s>>) = {s.h}
  BY <1>5, OneHeld
<1>. HIDE DEF o, w
<1>9. PendingTidy(p, m) /\ TableTidy(resident, m)
  BY <1>2, <1>5, PendingStill, TableStill
<1>10. HandTidy(o, <<s>>, p, m) /\ HandOf(o, <<s>>, p) = Has(c) \cup {s.h, a.h, b.h}
  <2>1. HandOf(o, <<s>>, p) = Has(c) \cup {s.h, a.h, b.h}
    BY <1>2, <1>7, <1>8 DEF HandOf
  <2>2. HandlesIn(o) \cap HandlesIn(<<s>>) = {}
    BY <1>6, <1>7, <1>8
  <2>3. (HandlesIn(o) \cup HandlesIn(<<s>>)) \cap HeldBy(p) = {}
    BY <1>2, <1>3, <1>6, <1>7, <1>8
  <2>. QED
    BY <1>7, <1>8, <1>9, <2>1, <2>2, <2>3 DEF HandTidy
<1>11. /\ call'[c].outs = o /\ call'[c].scratch = <<s>>
       /\ \A d \in Client \ {c} : call'[d] = call[d]
  BY <1>1, <1>2, IdleIs
<1>12. OutsOf(c)' = o /\ pending'[c] = p /\ OthersKept(c)
  BY <1>1, <1>11 DEF OutsOf, OthersKept
<1>13. Memory' = m
  BY <1>1, <1>5, SetMemoryIs DEF Sound
<1>14. Keeping(Memory, m, L \ (Has(c) \cup TableOf(resident)))
  BY <1>5, KeepingLess
<1>. DEFINE hand == HandOf(OutsOf(c)', call'[c].scratch, pending'[c])
<1>15. HandTidy(OutsOf(c)', call'[c].scratch, pending'[c], m) /\ hand = Has(c) \cup {s.h, a.h, b.h}
  BY <1>10, <1>11, <1>12
<1>16. hand \cap TableOf(resident') = {} /\ hand \cap Lent(Memory) \subseteq Has(c)
  BY <1>1, <1>2, <1>3, <1>6, <1>15
<1>. HIDE DEF hand, r, p
<1>17. hand \cap Lent(Memory) \subseteq Has(c) \cup TableOf(resident)
       /\ TableOf(resident') \cap Lent(Memory) \subseteq Has(c) \cup TableOf(resident)
       /\ TableTidy(resident', m)
  BY <1>1, <1>9, <1>16
<1>. QED
  BY <1>5, <1>12, <1>13, <1>14, <1>15, <1>16, <1>17, OwnersStep DEF hand

LEMMA RecordChainFailsOwners ==
    ASSUME IInv, Calls, Owners, NEW c \in Client, RecordChainFails(c)
    PROVE  Owners'
<1>. DEFINE r == call[c]
            m1 == Allocate(Memory, r.size)
            m2 == Allocate(m1, r.size)
            s == Allocated(Memory, r.size)
            L == Lent(Memory)
<1>1. /\ pc[c] = "record" /\ r.kind = "chain" /\ r.work = <<>>
      /\ \/ \E m \in AllocateFails(Memory, r.size) : Abandon(c, m, <<>>)
         \/ \E m \in AllocateFails(m1, r.size) \cup AllocateFails(m2, r.size)
                 \cup {Allocate(m2, r.size)} : Abandon(c, m, <<s>>)
  BY DEF RecordChainFails
<1>2. /\ r.size \in CallSize /\ r.scratch = <<>>
      /\ Sound(Memory) /\ Has(c) = HeldBy(pending[c])
      /\ Has(c) \subseteq L /\ TableOf(resident) \subseteq L
  BY <1>1, ChainBegins
<1>3. HandlesIn(r.scratch) = {}
  BY <1>2, NothingHeld
<1>4. ASSUME NEW m \in AllocateFails(Memory, r.size), Abandon(c, m, <<>>) PROVE Owners'
  <2>1. Sound(m) /\ Keeping(Memory, m, L)
    BY <1>2, <1>4, FailingIs, FailingKeeps
  <2>2. Neat(<<>>, m) /\ HandlesIn(<<>>) = {}
    BY NothingHeld
  <2>. QED
    BY <1>1, <1>4, <2>1, <2>2, AbandonOwners
<1>5. /\ Sound(m1) /\ L \subseteq Lent(m1) /\ Keeping(Memory, m1, L) /\ Good(s, m1) /\ s.h \notin L
  BY <1>2, AllocateTwice, KeepingSame
<1>. HIDE DEF m1, s
<1>6. /\ Sound(m2) /\ L \subseteq Lent(m2) /\ Keeping(Memory, m2, L) /\ Good(s, m2)
  BY <1>2, <1>5, AllocateTwice
<1>. HIDE DEF m2
<1>7. ASSUME NEW m \in AllocateFails(m1, r.size) \cup AllocateFails(m2, r.size)
                         \cup {Allocate(m2, r.size)},
             Abandon(c, m, <<s>>)
      PROVE  Owners'
  <2>1. Sound(m) /\ Keeping(Memory, m, L) /\ Good(s, m)
    <3>1. ASSUME NEW n, Sound(n), Keeping(Memory, n, L), L \subseteq Lent(n), Good(s, n),
                 m \in AllocateFails(n, r.size)
          PROVE  Sound(m) /\ Keeping(Memory, m, L) /\ Good(s, m)
      <4>1. Sound(m) /\ Lent(m) = Lent(n) /\ m.cap = n.cap
        BY <1>2, <3>1, FailingIs
      <4>2. Keeping(n, m, L)
        BY <1>2, <3>1, FailingKeeps
      <4>. QED
        BY <3>1, <4>1, <4>2, KeepingOn DEF Good
    <3>2. CASE m \in AllocateFails(m1, r.size)
      BY <1>5, <3>1, <3>2
    <3>3. CASE m \in AllocateFails(m2, r.size)
      BY <1>6, <3>1, <3>3
    <3>4. CASE m = Allocate(m2, r.size)
      BY <1>2, <1>6, <3>4, AllocateTwice
    <3>. QED
      BY <1>7, <3>2, <3>3, <3>4
  <2>2. Neat(<<s>>, m) /\ HandlesIn(<<s>>) = {s.h}
    BY <2>1, OneHeld
  <2>3. /\ HandlesIn(<<s>>) \cap HandlesIn(r.scratch) = {}
        /\ HandlesIn(<<s>>) \cap HeldBy(pending[c]) = {}
        /\ HandlesIn(<<s>>) \cap TableOf(resident) = {}
        /\ HandlesIn(<<s>>) \cap Lent(Memory) \subseteq Has(c)
    BY <1>2, <1>3, <1>5, <2>2
  <2>. QED
    BY <1>1, <1>7, <2>1, <2>2, <2>3, AbandonOwners
<1>. QED
  BY <1>1, <1>4, <1>7
-----------------------------------------------------------------------------
\* Steps that move no buffer.

LEMMA SameMemory == UNCHANGED memory => Memory' = Memory
  BY DEF memory, Memory

LEMMA TakeOwners ==
    ASSUME IInv, Owners, NEW c \in Client, NEW r, Take(c, r), DOMAIN r = DOMAIN Idle,
           r.outs = <<>>, r.scratch = <<>>, UNCHANGED <<memory, resident, pending>>
    PROVE  Owners'
<1>1. DOMAIN call = Client /\ DOMAIN pc = Client
  BY DEF IInv, Shaped
<1>2. /\ call' = [call EXCEPT ![c] = [r EXCEPT !.slot = cursor]]
      /\ \/ pc' = [pc EXCEPT ![c] = "wait slot"]
         \/ pc' = [pc EXCEPT ![c] = "record"]
  BY DEF Take
<1>3. call'[c].outs = <<>> /\ call'[c].scratch = <<>>
  BY <1>1, <1>2, IdleIs
<1>4. OthersKept(c)
  BY <1>1, <1>2 DEF OthersKept
<1>. QED
  BY <1>3, <1>4, SameMemory, LettingGo

LEMMA ReturnOwners ==
    ASSUME IInv, Owners, NEW c \in Client, Return(c), UNCHANGED <<memory, resident, pending>>
    PROVE  Owners'
<1>1. /\ call'[c] = Idle /\ \A d \in Client \ {c} : call'[d] = call[d] /\ pc'[d] = pc[d]
  BY ReturnIs
<1>2. call'[c].outs = <<>> /\ call'[c].scratch = <<>> /\ OthersKept(c)
  BY <1>1, IdleIs DEF OthersKept
<1>. QED
  BY <1>2, SameMemory, LettingGo

LEMMA BeginOwners ==
    ASSUME IInv, Owners, NEW c \in Client, Begin(c) \/ BeginFetch(c)
    PROVE  Owners'
<1>1. DOMAIN call = Client /\ DOMAIN pc = Client
  BY DEF IInv, Shaped
<1>2. CASE Begin(c)
  <2>1. PICK r \in Requests(c), size \in CallSize :
          Take(c, [Idle EXCEPT !.kind = r.kind, !.nodes = r.nodes, !.size = size])
    BY <1>2 DEF Begin
  <2>. DEFINE q == [Idle EXCEPT !.kind = r.kind, !.nodes = r.nodes, !.size = size]
  <2>2. DOMAIN q = DOMAIN Idle /\ q.outs = <<>> /\ q.scratch = <<>>
    BY IdleIs
  <2>3. Take(c, q)
    BY <2>1
  <2>4. UNCHANGED <<memory, resident, pending>>
    BY <1>2 DEF Begin, ids
  <2>. HIDE DEF q
  <2>. QED
    BY <2>2, <2>3, <2>4, TakeOwners
<1>3. CASE BeginFetch(c)
  <2>1. PICK id \in owned[c] \cap DOMAIN resident :
          call' = [call EXCEPT ![c] = [Idle EXCEPT !.kind = "fetch", !.id = id,
                                                   !.src = resident[id].h]]
    BY <1>3 DEF BeginFetch
  <2>2. call'[c].outs = <<>> /\ call'[c].scratch = <<>>
    BY <1>1, <2>1, IdleIs
  <2>3. OthersKept(c)
    BY <1>1, <1>3, <2>1 DEF OthersKept, BeginFetch
  <2>4. UNCHANGED <<memory, resident, pending>>
    BY <1>3 DEF BeginFetch, ids
  <2>. QED
    BY <2>2, <2>3, <2>4, SameMemory, LettingGo
<1>. QED
  BY <1>2, <1>3

LEMMA SlotOwners ==
    ASSUME IInv, Calls, Owners, NEW c \in Client,
           Acquire(c) \/ SlotFree(c) \/ SlotWaitFails(c)
    PROVE  Owners'
<1>1. DOMAIN call = Client /\ DOMAIN pc = Client
  BY DEF IInv, Shaped
<1>2. CASE Acquire(c)
  <2>1. pc[c] = "acquire" /\ Take(c, call[c]) /\ UNCHANGED <<memory, resident, pending>>
    BY <1>2 DEF Acquire, ids
  <2>2. DOMAIN call[c] = DOMAIN Idle /\ call[c].outs = <<>> /\ call[c].scratch = <<>>
    <3>1. FormedCall(call[c], "acquire")
      BY <2>1 DEF Calls
    <3>. QED
      BY <3>1 DEF FormedCall
  <2>. QED
    BY <2>1, <2>2, TakeOwners
<1>3. CASE SlotFree(c)
  <2>1. /\ pc[c] = "wait slot" /\ pc' = [pc EXCEPT ![c] = "record"]
        /\ UNCHANGED <<memory, resident, pending, call>>
    BY <1>3 DEF SlotFree, ids
  <2>2. call'[c].outs = <<>> /\ call'[c].scratch = <<>>
    <3>1. FormedCall(call[c], "wait slot")
      BY <2>1 DEF Calls
    <3>. QED
      BY <2>1, <3>1 DEF FormedCall
  <2>3. OthersKept(c)
    BY <1>1, <2>1 DEF OthersKept
  <2>. QED
    BY <2>1, <2>2, <2>3, SameMemory, LettingGo
<1>4. CASE SlotWaitFails(c)
  <2>1. Return(c) /\ UNCHANGED <<memory, resident, pending>>
    BY <1>4 DEF SlotWaitFails, ids
  <2>. QED
    BY <2>1, ReturnOwners
<1>. QED
  BY <1>2, <1>3, <1>4

LEMMA ReadOwners ==
    ASSUME IInv, Owners, NEW c \in Client, ReadBack(c) \/ ReadFails(c)
    PROVE  Owners'
<1>1. Return(c) /\ UNCHANGED <<memory, resident, pending>>
  BY DEF ReadBack, ReadFails, ids
<1>. QED
  BY <1>1, ReturnOwners

\* The buffers in a call's hands stay in its hands.
LEMMA SameHand ==
    ASSUME Owners, NEW c \in Client, OthersKept(c), UNCHANGED <<memory, resident>>,
           pending'[c] = pending[c], OutsOf(c)' = OutsOf(c), call'[c].scratch = call[c].scratch
    PROVE  Owners'
<1>1. HandTidy(OutsOf(c), call[c].scratch, pending[c], Memory)
  BY DEF Owners
<1>2. HandTidy(OutsOf(c)', call'[c].scratch, pending'[c], Memory)
  BY <1>1
<1>3. HandOf(OutsOf(c)', call'[c].scratch, pending'[c]) \subseteq Has(c)
  BY DEF Has
<1>. QED
  BY <1>2, <1>3, SameMemory, HandStep

LEMMA TakeSyncOwners ==
    ASSUME IInv, Owners, NEW c \in Client, TakeSync(c)
    PROVE  Owners'
<1>1. /\ DOMAIN pc = Client /\ pc[c] = "sync" /\ pc' = [pc EXCEPT ![c] = "wait sync"]
      /\ UNCHANGED <<memory, resident, pending, call>>
  BY DEF TakeSync, ids, IInv, Shaped
<1>2. OutsOf(c)' = OutsOf(c) /\ OthersKept(c)
  BY <1>1 DEF OutsOf, OthersKept
<1>. QED
  BY <1>1, <1>2, SameHand

LEMMA RecordFetchOwners ==
    ASSUME IInv, Calls, Owners, NEW c \in Client, RecordFetch(c)
    PROVE  Owners'
<1>. DEFINE w == <<Dispatched(0, call[c].src, Junk, Junk, Junk)>>
<1>1. /\ DOMAIN call = Client /\ pc[c] = "record" /\ pc' = pc
      /\ call' = [call EXCEPT ![c].work = w]
      /\ UNCHANGED <<memory, resident, pending>>
  BY DEF RecordFetch, ids, IInv, Shaped
<1>. HIDE DEF w
<1>2. DOMAIN call[c] = DOMAIN Idle
  BY DEF Calls, FormedCall
<1>3. call'[c].outs = call[c].outs /\ call'[c].scratch = call[c].scratch
  BY <1>1, <1>2, IdleIs
<1>4. OutsOf(c)' = OutsOf(c) /\ OthersKept(c)
  BY <1>1, <1>3 DEF OutsOf, OthersKept
<1>. QED
  BY <1>1, <1>3, <1>4, SameHand

LEMMA SameOwners ==
    ASSUME Owners, UNCHANGED <<memory, resident, call, pending, pc>>
    PROVE  Owners'
<1>1. Memory' = Memory
  BY SameMemory
<1>2. \A c \in Client : OutsOf(c)' = OutsOf(c)
  BY DEF OutsOf
<1>3. \A c \in Client : Has(c)' = Has(c)
  BY <1>2 DEF Has
<1>. QED
  BY <1>1, <1>2, <1>3 DEF Owners

LEMMA RelabelOwners ==
    ASSUME IInv, Owners, NEW c \in Client, Relabel(c)
    PROVE  Owners'
<1>1. PICK id \in owned[c] \cap DOMAIN resident, size \in Size :
        /\ size <= resident[id].size
        /\ resident' = [resident EXCEPT ![id].size = size]
  BY DEF Relabel
<1>2. UNCHANGED <<memory, call, pending, pc>>
  BY DEF Relabel
<1>3. Memory' = Memory
  BY <1>2, SameMemory
<1>4. \A i \in DOMAIN resident : Good(resident[i], Memory)
  BY DEF Owners, TableTidy
<1>5. Sound(Memory) /\ Size \subseteq Nat
  BY SizesAssumption DEF Owners
<1>6. /\ DOMAIN resident' = DOMAIN resident
      /\ \A i \in DOMAIN resident : resident'[i].h = resident[i].h
  <2>1. \A i \in DOMAIN resident : resident[i] \in Buffers
    BY <1>4 DEF Good
  <2>2. \A i \in DOMAIN resident : i # id => resident'[i] = resident[i]
    BY <1>1
  <2>3. resident'[id] = [resident[id] EXCEPT !.size = size]
    BY <1>1
  <2>4. resident'[id].h = resident[id].h
    BY <2>1, <2>3 DEF Buffers
  <2>. QED
    BY <1>1, <2>2, <2>4
<1>7. \A i \in DOMAIN resident : Good(resident'[i], Memory)
  <2>1. ASSUME NEW i \in DOMAIN resident, i # id PROVE Good(resident'[i], Memory)
    BY <1>1, <1>4, <2>1
  <2>2. Good(resident'[id], Memory)
    <3>1. Good(resident[id], Memory) /\ resident[id] \in Buffers
      BY <1>4 DEF Good
    <3>2. resident'[id] = [h |-> resident[id].h, size |-> size]
      BY <1>1, <3>1 DEF Buffers
    <3>3. resident'[id] \in Buffers
      BY <3>1, <3>2 DEF Buffers
    <3>4. /\ resident[id].h \in Lent(Memory)
          /\ resident[id].size <= Memory.cap[resident[id].h]
          /\ resident[id].h \in 1 .. Len(Memory.cap)
      BY <3>1 DEF Good, Lent
    <3>5. Memory.cap[resident[id].h] \in Nat
      <4>. DEFINE s == Memory.cap
      <4>1. s \in Seq(Size)
        BY <1>5 DEF Sound, Memories
      <4>2. resident[id].h \in 1 .. Len(s)
        BY <3>4
      <4>. HIDE DEF s
      <4>3. s[resident[id].h] \in Size
        BY <4>1, <4>2
      <4>4. s[resident[id].h] \in Nat
        BY <1>5, <4>3
      <4>. QED
        BY <4>4 DEF s
    <3>6. size <= Memory.cap[resident[id].h]
      <4>1. size \in Nat /\ resident[id].size \in Nat
        BY <1>5, <3>1 DEF Buffers
      <4>. QED
        BY <1>1, <3>4, <3>5, <4>1
    <3>. QED
      BY <3>2, <3>3, <3>4, <3>6 DEF Good
  <2>. QED
    BY <2>1, <2>2
<1>8. TableTidy(resident', Memory)
  BY <1>6, <1>7 DEF Owners, TableTidy
<1>9. TableOf(resident') = TableOf(resident)
  BY <1>6 DEF TableOf
<1>10. \A d \in Client : OutsOf(d)' = OutsOf(d) /\ Has(d)' = Has(d)
  BY <1>2 DEF OutsOf, Has
<1>. QED
  BY <1>2, <1>3, <1>8, <1>9, <1>10 DEF Owners

\* A memory of which only the contents differ.
LEMMA ContentOwners ==
    ASSUME Owners, UNCHANGED <<cap, freed, recycled, alive, resident, call, pending, pc>>,
           content' \in Seq(Nat), Len(content') = Len(content)
    PROVE  Owners'
<1>. DEFINE m == Memory
            n == [cap |-> cap, freed |-> freed, content |-> content',
                  recycled |-> recycled, alive |-> alive]
<1>1. Memory' = n
  BY DEF Memory
<1>2. /\ n.cap = m.cap /\ n.freed = m.freed /\ n.recycled = m.recycled /\ n.alive = m.alive
      /\ n.content = content' /\ m.content = content
  BY DEF Memory
<1>3. Sound(m)
  BY DEF Owners
<1>4. n \in Memories
  <2>1. /\ cap \in Seq(Size) /\ freed \in SUBSET Nat /\ recycled \in [Size -> Seq(Buffers)]
        /\ alive \in Int
    BY <1>3 DEF Sound, Memories, Memory
  <2>. QED
    BY <2>1 DEF Memories
<1>. HIDE DEF n, m
<1>5. PoolNeat(n) /\ \A h : InPool(n, h) <=> InPool(m, h)
  BY <1>2, <1>3 DEF Sound, PoolNeat, InPool
<1>6. Sound(n)
  BY <1>2, <1>3, <1>4, <1>5 DEF Sound
<1>7. Lent(n) = Lent(m)
  BY <1>2, <1>5 DEF Lent
<1>8. \A H : Keeping(m, n, H)
  BY <1>2, <1>7 DEF Keeping
<1>9. \A d \in Client : OutsOf(d)' = OutsOf(d) /\ Has(d)' = Has(d)
  BY DEF OutsOf, Has
<1>10. TableTidy(resident, n)
  BY <1>8, TableStill DEF Owners, m
<1>11. ASSUME NEW d \in Client PROVE HandTidy(OutsOf(d), call[d].scratch, pending[d], n)
  BY <1>8, HandStill DEF Owners, m
<1>. QED
  BY <1>1, <1>6, <1>9, <1>10, <1>11 DEF Owners
-----------------------------------------------------------------------------
(***************************************************************************)
(* The books: the ids that were issued, and who has been told of them.     *)
(***************************************************************************)
Books ==
  /\ stamp \in Nat /\ meant \in Seq(Nat) /\ DOMAIN resident \subseteq DOMAIN meant
  /\ DOMAIN owned = Client /\ \A c \in Client : owned[c] \subseteq DOMAIN meant
  /\ \A c \in Client : \A k \in DOMAIN pending[c] : pending[c][k].ids[1] \in DOMAIN meant
  /\ \A c \in Client : pc[c] \in {"sync", "wait sync"} /\ call[c].kind \in {"run", "wait"} =>
       call[c].id \in DOMAIN meant
  /\ pc \in [Client -> Points]
  /\ lock \in Client \cup {NoClient} /\ timedOut \in BOOLEAN /\ refused \in BOOLEAN

\* The ids a call is handed are new.
LEMMA IssuedAre ==
    ASSUME NEW n \in Nat, Len(meant) \in Nat
    PROVE  /\ ToSet(Issued(n)) = {Len(meant) + k : k \in 1 .. n}
           /\ n # 0 => Issued(n)[1] = Len(meant) + 1
<1>1. DOMAIN Issued(n) = 1 .. n /\ \A k \in 1 .. n : Issued(n)[k] = Len(meant) + k
  BY DEF Issued
<1>2. ToSet(Issued(n)) = {Issued(n)[k] : k \in 1 .. n}
  BY <1>1 DEF ToSet
<1>3. n # 0 => 1 \in 1 .. n
  OBVIOUS
<1>. HIDE DEF Issued
<1>. QED
  BY <1>1, <1>2, <1>3

LEMMA IssueIs ==
    ASSUME Books, NEW bufs, NEW stamps, Sequence(bufs), stamps \in Seq(Nat), Issue(bufs, stamps),
           Len(bufs) \in 0 .. Len(stamps)
    PROVE  /\ meant' \in Seq(Nat) /\ DOMAIN meant \subseteq DOMAIN meant'
           /\ Len(meant') = Len(meant) + Len(stamps)
           /\ DOMAIN meant' = 1 .. Len(meant) + Len(stamps)
           /\ DOMAIN resident' = DOMAIN resident \cup {Len(meant) + k : k \in 1 .. Len(bufs)}
           /\ \A id \in DOMAIN resident : resident'[id] = resident[id]
           /\ \A k \in 1 .. Len(bufs) : /\ Len(meant) + k \notin DOMAIN resident
                                        /\ resident'[Len(meant) + k] = bufs[k]
           /\ \A k \in 1 .. Len(bufs) : Len(meant) + k \in DOMAIN meant'
           /\ DOMAIN resident' \subseteq DOMAIN meant'
<1>. DEFINE n == Len(meant)
            b == Len(bufs)
<1>1. meant \in Seq(Nat) /\ n \in Nat /\ DOMAIN meant = 1 .. n /\ Len(stamps) \in Nat /\ b \in Nat
  <2>1. meant \in Seq(Nat)
    BY DEF Books
  <2>2. Len(stamps) \in Nat
    OBVIOUS
  <2>3. b \in Nat
    BY <2>2
  <2>. QED
    BY <2>1, <2>2, <2>3
<1>2. meant' \in Seq(Nat) /\ Len(meant') = n + Len(stamps)
  BY <1>1 DEF Issue
<1>3. DOMAIN meant' = 1 .. n + Len(stamps)
  BY <1>2
<1>4. ToSet(Issued(b)) = {n + k : k \in 1 .. b}
  BY <1>1, IssuedAre
<1>5. resident' = [id \in DOMAIN resident \cup {n + k : k \in 1 .. b} |->
                     IF id \in DOMAIN resident THEN resident[id] ELSE bufs[id - n]]
  BY <1>4 DEF Issue
<1>6. DOMAIN resident \subseteq 1 .. n
  BY <1>1 DEF Books
<1>. HIDE DEF n, b
<1>7. DOMAIN resident' = DOMAIN resident \cup {n + k : k \in 1 .. b}
      /\ \A id \in DOMAIN resident : resident'[id] = resident[id]
  BY <1>5
<1>8. ASSUME NEW k \in 1 .. b
      PROVE  n + k \notin DOMAIN resident /\ resident'[n + k] = bufs[k] /\ n + k \in DOMAIN meant'
  <2>1. n + k \notin 1 .. n /\ (n + k) - n = k /\ n + k \in 1 .. n + Len(stamps)
    BY <1>1 DEF b
  <2>2. n + k \notin DOMAIN resident /\ n + k \in DOMAIN meant'
    BY <1>3, <1>6, <2>1
  <2>. DEFINE x == n + k
              D == DOMAIN resident \cup {n + j : j \in 1 .. b}
  <2>3. x \in D /\ x \notin DOMAIN resident /\ x - n = k /\ x \in DOMAIN meant'
    <3>1. x \in D
      BY Zenon
    <3>2. x \notin DOMAIN resident /\ x \in DOMAIN meant'
      BY <2>2, Zenon
    <3>3. x - n = k
      BY <2>1, Zenon
    <3>. QED
      BY <3>1, <3>2, <3>3
  <2>4. resident' = [id \in D |-> IF id \in DOMAIN resident THEN resident[id] ELSE bufs[id - n]]
    BY <1>5
  <2>. HIDE DEF x, D
  <2>5. resident'[x] = bufs[x - n]
    BY <2>3, <2>4
  <2>6. x \notin DOMAIN resident /\ resident'[x] = bufs[k] /\ x \in DOMAIN meant'
    BY <2>3, <2>5
  <2>. QED
    BY <2>6 DEF x
<1>9. DOMAIN meant \subseteq DOMAIN meant'
  BY <1>1, <1>3
<1>10. DOMAIN resident' \subseteq DOMAIN meant'
  BY <1>1, <1>6, <1>7, <1>8, <1>9
<1>. QED
  BY <1>2, <1>3, <1>7, <1>8, <1>9, <1>10 DEF n, b

\* The table takes the buffers over.
LEMMA IssueTable ==
    ASSUME Books, NEW bufs, NEW stamps, stamps \in Seq(Nat), Issue(bufs, stamps),
           Len(bufs) \in 0 .. Len(stamps),
           NEW m, Neat(bufs, m), TableTidy(resident, m),
           HandlesIn(bufs) \cap TableOf(resident) = {}
    PROVE  TableTidy(resident', m) /\ TableOf(resident') = TableOf(resident) \cup HandlesIn(bufs)
<1>. DEFINE n == Len(meant)
            t == resident'
<1>1. bufs \in Seq(Buffers) /\ Sequence(bufs) /\ DOMAIN bufs = 1 .. Len(bufs)
  BY DEF Neat, Sequence
<1>2. /\ DOMAIN t = DOMAIN resident \cup {n + k : k \in 1 .. Len(bufs)}
      /\ \A id \in DOMAIN resident : t[id] = resident[id]
      /\ \A k \in 1 .. Len(bufs) : n + k \notin DOMAIN resident /\ t[n + k] = bufs[k]
  BY <1>1, IssueIs
<1>. HIDE DEF n, t
<1>3. \A id \in DOMAIN t : \/ id \in DOMAIN resident /\ t[id] = resident[id]
                           \/ \E k \in DOMAIN bufs : id = n + k /\ t[id] = bufs[k]
  BY <1>1, <1>2
<1>4. \A id \in DOMAIN t : Good(t[id], m)
  BY <1>3 DEF TableTidy, Neat
<1>5. TableOf(t) = TableOf(resident) \cup HandlesIn(bufs)
  <2>1. TableOf(t) \subseteq TableOf(resident) \cup HandlesIn(bufs)
    BY <1>3 DEF TableOf, HandlesIn
  <2>2. TableOf(resident) \subseteq TableOf(t)
    BY <1>2 DEF TableOf
  <2>3. HandlesIn(bufs) \subseteq TableOf(t)
    BY <1>1, <1>2 DEF TableOf, HandlesIn
  <2>. QED
    BY <2>1, <2>2, <2>3
<1>6. ASSUME NEW i \in DOMAIN t, NEW j \in DOMAIN t, t[i].h = t[j].h PROVE i = j
  <2>1. CASE i \in DOMAIN resident /\ t[i] = resident[i]
    <3>1. CASE j \in DOMAIN resident /\ t[j] = resident[j]
      BY <1>6, <2>1, <3>1 DEF TableTidy
    <3>2. CASE \E k \in DOMAIN bufs : j = n + k /\ t[j] = bufs[k]
      <4>1. t[i].h \in TableOf(resident) /\ t[j].h \in HandlesIn(bufs)
        BY <2>1, <3>2 DEF TableOf, HandlesIn
      <4>. QED
        BY <1>6, <4>1
    <3>. QED
      BY <1>3, <3>1, <3>2
  <2>2. CASE \E k \in DOMAIN bufs : i = n + k /\ t[i] = bufs[k]
    <3>1. CASE j \in DOMAIN resident /\ t[j] = resident[j]
      <4>1. t[j].h \in TableOf(resident) /\ t[i].h \in HandlesIn(bufs)
        BY <2>2, <3>1 DEF TableOf, HandlesIn
      <4>. QED
        BY <1>6, <4>1
    <3>2. CASE \E k \in DOMAIN bufs : j = n + k /\ t[j] = bufs[k]
      BY <1>6, <2>2, <3>2 DEF Neat, Distinct
    <3>. QED
      BY <1>3, <3>1, <3>2
  <2>. QED
    BY <1>3, <2>1, <2>2
<1>. QED
  BY <1>4, <1>5, <1>6 DEF TableTidy, t

LEMMA RecycleNone == \A m \in Memories : RecycleAll(m, <<>>) = m
<1>. SUFFICES ASSUME NEW m \in Memories PROVE RecycleAll(m, <<>>) = m
  OBVIOUS
<1>1. <<>> \in Seq(Buffers) /\ Len(<<>>) = 0
  OBVIOUS
<1>2. PICK at \in [0 .. Len(<<>>) -> Memories] : at[0] = m /\ RecycleAll(m, <<>>) = at[Len(<<>>)]
  BY <1>1, RecycledInTurn
<1>. QED
  BY <1>1, <1>2

\* A client gives back some of what it holds, and hands some to the table.
LEMMA Settling ==
    ASSUME Owners, NEW c \in Client, OthersKept(c),
           NEW give, Neat(give, Memory), HandlesIn(give) \subseteq Has(c),
           NEW keep, HandlesIn(keep) \subseteq Has(c), HandlesIn(give) \cap HandlesIn(keep) = {},
           Memory' = RecycleAll(Memory, give),
           TableTidy(resident', Memory),
           TableOf(resident') = TableOf(resident) \cup HandlesIn(keep),
           HandTidy(OutsOf(c)', call'[c].scratch, pending'[c], Memory),
           HandOf(OutsOf(c)', call'[c].scratch, pending'[c])
             \subseteq Has(c) \ (HandlesIn(give) \cup HandlesIn(keep))
    PROVE  Owners'
<1>. DEFINE hand == HandOf(OutsOf(c)', call'[c].scratch, pending'[c])
            t == TableOf(resident')
<1>1. Sound(Memory) /\ Keeping(Memory, Memory, Lent(Memory)) /\ Has(c) \cap TableOf(resident) = {}
  BY KeepingSame DEF Owners
<1>2. /\ HandlesIn(give) \cap Lent(Memory) \subseteq Has(c) \cup TableOf(resident)
      /\ hand \cap HandlesIn(give) = {} /\ t \cap HandlesIn(give) = {} /\ hand \cap t = {}
      /\ hand \cap Lent(Memory) \subseteq Has(c) \cup TableOf(resident)
      /\ t \cap Lent(Memory) \subseteq Has(c) \cup TableOf(resident)
  BY <1>1
<1>. QED
  BY <1>1, <1>2, GivingBack

\* A call returns: the client keeps the submissions it has not waited for.
LEMMA Ending ==
    ASSUME IInv, Owners, NEW c \in Client, Return(c), pending' = pending,
           NEW give, Neat(give, Memory), HandlesIn(give) \subseteq Has(c) \ HeldBy(pending[c]),
           NEW keep, HandlesIn(keep) \subseteq Has(c) \ HeldBy(pending[c]),
           HandlesIn(give) \cap HandlesIn(keep) = {},
           Memory' = RecycleAll(Memory, give),
           TableTidy(resident', Memory),
           TableOf(resident') = TableOf(resident) \cup HandlesIn(keep)
    PROVE  Owners'
<1>1. /\ call'[c] = Idle /\ pc'[c] = "idle"
      /\ \A d \in Client \ {c} : call'[d] = call[d] /\ pc'[d] = pc[d]
  BY ReturnIs
<1>2. call'[c].outs = <<>> /\ call'[c].scratch = <<>> /\ OthersKept(c) /\ OutsOf(c)' = <<>>
  BY <1>1, IdleIs DEF OthersKept, OutsOf
<1>3. PendingTidy(pending[c], Memory)
  BY DEF Owners, HandTidy
<1>4. HandTidy(<<>>, <<>>, pending[c], Memory) /\ HandOf(<<>>, <<>>, pending[c]) = HeldBy(pending[c])
  BY <1>3, EmptyHand
<1>5. HeldBy(pending[c]) \subseteq Has(c)
  BY DEF Has, HandOf
<1>6. HandTidy(OutsOf(c)', call'[c].scratch, pending'[c], Memory)
  BY <1>2, <1>4
<1>7. HandOf(OutsOf(c)', call'[c].scratch, pending'[c])
        \subseteq Has(c) \ (HandlesIn(give) \cup HandlesIn(keep))
  BY <1>2, <1>4, <1>5
<1>. QED
  BY <1>2, <1>6, <1>7, Settling
-----------------------------------------------------------------------------
\* Submissions that are handed back in flight, and waited for.

LEMMA RemoveAtIs ==
    ASSUME NEW s, Sequence(s), NEW k \in DOMAIN s
    PROVE  /\ DOMAIN RemoveAt(s, k) \subseteq Nat /\ k \in Nat
           /\ \A i \in DOMAIN RemoveAt(s, k) :
                LET j == IF i < k THEN i ELSE i + 1 IN
                j \in DOMAIN s /\ j # k /\ RemoveAt(s, k)[i] = s[j]
           /\ \A i \in DOMAIN s : i # k =>
                \E j \in DOMAIN RemoveAt(s, k) : RemoveAt(s, k)[j] = s[i]
<1>1. PICK T : s \in Seq(T)
  BY DEF Sequence
<1>. DEFINE a == SubSeq(s, 1, k - 1)
            b == SubSeq(s, k + 1, Len(s))
            n == Len(s)
            t == RemoveAt(s, k)
<1>2. n \in Nat /\ DOMAIN s = 1 .. n /\ k \in 1 .. n
  BY <1>1
<1>3. a \in Seq(T) /\ Len(a) = k - 1 /\ \A i \in 1 .. k - 1 : a[i] = s[i]
  BY <1>1, <1>2
<1>4. b \in Seq(T) /\ Len(b) = n - k /\ \A i \in 1 .. n - k : b[i] = s[k + i]
  BY <1>1, <1>2
<1>5. t = a \o b
  BY DEF RemoveAt
<1>. HIDE DEF a, b, t
<1>6. /\ DOMAIN t = 1 .. n - 1
      /\ \A i \in 1 .. n - 1 : t[i] = IF i < k THEN a[i] ELSE b[i - (k - 1)]
  <2>1. t = a \o b /\ a \in Seq(T) /\ b \in Seq(T)
    BY <1>3, <1>4, <1>5
  <2>2. Len(a) + Len(b) = n - 1
    BY <1>2, <1>3, <1>4
  <2>3. DOMAIN t = 1 .. Len(a) + Len(b)
    BY <2>1
  <2>4. \A i \in 1 .. Len(a) + Len(b) : t[i] = IF i <= Len(a) THEN a[i] ELSE b[i - Len(a)]
    BY <2>1
  <2>5. \A i \in 1 .. n - 1 : i < k <=> i <= Len(a)
    BY <1>2, <1>3
  <2>. QED
    BY <1>3, <2>2, <2>3, <2>4, <2>5
<1>. HIDE DEF n
<1>7. ASSUME NEW i \in 1 .. n - 1
      PROVE  /\ i < k => i \in 1 .. n /\ i # k /\ t[i] = s[i]
             /\ ~(i < k) => i + 1 \in 1 .. n /\ i + 1 # k /\ t[i] = s[i + 1]
  <2>1. CASE i < k
    <3>1. i \in 1 .. n /\ i # k /\ i \in 1 .. k - 1
      BY <1>2, <2>1
    <3>. QED
      BY <1>3, <1>6, <2>1, <3>1
  <2>2. CASE ~(i < k)
    <3>1. i + 1 \in 1 .. n /\ i + 1 # k /\ i - (k - 1) \in 1 .. n - k /\ k + (i - (k - 1)) = i + 1
      BY <1>2, <2>2
    <3>2. t[i] = b[i - (k - 1)]
      BY <1>6, <2>2
    <3>3. b[i - (k - 1)] = s[k + (i - (k - 1))]
      BY <1>4, <3>1
    <3>4. t[i] = s[i + 1]
      BY <3>1, <3>2, <3>3
    <3>. QED
      BY <2>2, <3>1, <3>4
  <2>. QED
    BY <2>1, <2>2
<1>8. ASSUME NEW i \in 1 .. n, i # k PROVE \E j \in 1 .. n - 1 : t[j] = s[i]
  <2>1. CASE i < k
    <3>1. i \in 1 .. n - 1
      BY <1>2, <2>1
    <3>. QED
      BY <1>7, <2>1, <3>1
  <2>2. CASE ~(i < k)
    <3>1. i - 1 \in 1 .. n - 1 /\ ~(i - 1 < k) /\ (i - 1) + 1 = i
      BY <1>2, <1>8, <2>2
    <3>2. t[i - 1] = s[(i - 1) + 1]
      BY <1>7, <3>1
    <3>. QED
      BY <3>1, <3>2
  <2>. QED
    BY <2>1, <2>2
<1>9. 1 .. n - 1 \subseteq Nat /\ k \in Nat
  BY <1>2
<1>10. ASSUME NEW i \in 1 .. n - 1
       PROVE  LET j == IF i < k THEN i ELSE i + 1 IN j \in 1 .. n /\ j # k /\ t[i] = s[j]
  BY <1>7
<1>. QED
  BY <1>2, <1>6, <1>8, <1>9, <1>10 DEF t

\* A submission that is waited for leaves the list, and only it.
LEMMA PendingTaken ==
    ASSUME NEW m, NEW p, PendingTidy(p, m), NEW k \in DOMAIN p
    PROVE  /\ PendingTidy(RemoveAt(p, k), m) /\ Neat(p[k].scratch, m)
           /\ HeldBy(RemoveAt(p, k)) \cap HandlesIn(p[k].scratch) = {}
           /\ HeldBy(RemoveAt(p, k)) \cup HandlesIn(p[k].scratch) \subseteq HeldBy(p)
<1>. DEFINE q == RemoveAt(p, k)
            J(i) == IF i < k THEN i ELSE i + 1
<1>1. Sequence(p) /\ Sequence(q)
  BY RemoveIs DEF PendingTidy
<1>2. /\ DOMAIN q \subseteq Nat /\ k \in Nat
      /\ \A i \in DOMAIN q : J(i) \in DOMAIN p /\ J(i) # k /\ q[i] = p[J(i)]
  BY <1>1, RemoveAtIs
<1>3. \A i, j \in Nat : J(i) = J(j) => i = j
  BY <1>2
<1>. HIDE DEF q, J
<1>4. \A i \in DOMAIN q : Neat(q[i].scratch, m)
  BY <1>2 DEF PendingTidy
<1>5. \A i, j \in DOMAIN q : i # j => HandlesIn(q[i].scratch) \cap HandlesIn(q[j].scratch) = {}
  <2>. SUFFICES ASSUME NEW i \in DOMAIN q, NEW j \in DOMAIN q, i # j
                PROVE  HandlesIn(q[i].scratch) \cap HandlesIn(q[j].scratch) = {}
    OBVIOUS
  <2>1. J(i) # J(j) /\ J(i) \in DOMAIN p /\ J(j) \in DOMAIN p /\ q[i] = p[J(i)] /\ q[j] = p[J(j)]
    BY <1>2, <1>3
  <2>. QED
    BY <2>1 DEF PendingTidy
<1>6. \A i \in DOMAIN q : /\ HandlesIn(q[i].scratch) \cap HandlesIn(p[k].scratch) = {}
                          /\ HandlesIn(q[i].scratch) \subseteq HeldBy(p)
  BY <1>2 DEF PendingTidy, HeldBy
<1>7. HeldBy(q) \cap HandlesIn(p[k].scratch) = {} /\ HeldBy(q) \subseteq HeldBy(p)
  BY <1>6 DEF HeldBy
<1>8. HandlesIn(p[k].scratch) \subseteq HeldBy(p)
  BY DEF HeldBy
<1>9. Neat(p[k].scratch, m) /\ PendingTidy(q, m)
  BY <1>1, <1>4, <1>5 DEF PendingTidy
<1>. QED
  BY <1>7, <1>8, <1>9 DEF q

LEMMA PendingMore ==
    ASSUME NEW m, NEW p, PendingTidy(p, m), NEW e, Neat(e.scratch, m),
           HandlesIn(e.scratch) \cap HeldBy(p) = {}
    PROVE  /\ PendingTidy(Append(p, e), m)
           /\ HeldBy(Append(p, e)) = HeldBy(p) \cup HandlesIn(e.scratch)
<1>. DEFINE q == Append(p, e)
            n == Len(p) + 1
<1>1. Sequence(p)
  BY DEF PendingTidy
<1>2. /\ Sequence(q) /\ DOMAIN q = DOMAIN p \cup {n} /\ n \notin DOMAIN p
      /\ (\A k \in DOMAIN p : q[k] = p[k]) /\ q[n] = e
  BY <1>1, AppendIs
<1>. HIDE DEF q, n
<1>3. \A k \in DOMAIN q : Neat(q[k].scratch, m)
  BY <1>2 DEF PendingTidy
<1>4. \A k \in DOMAIN p : HandlesIn(p[k].scratch) \cap HandlesIn(e.scratch) = {}
  BY DEF HeldBy
<1>5. \A i, j \in DOMAIN q : i # j => HandlesIn(q[i].scratch) \cap HandlesIn(q[j].scratch) = {}
  <2>. SUFFICES ASSUME NEW i \in DOMAIN q, NEW j \in DOMAIN q, i # j
                PROVE  HandlesIn(q[i].scratch) \cap HandlesIn(q[j].scratch) = {}
    OBVIOUS
  <2>1. CASE i \in DOMAIN p /\ j \in DOMAIN p
    BY <1>2, <2>1 DEF PendingTidy
  <2>2. CASE i = n /\ j \in DOMAIN p
    BY <1>2, <1>4, <2>2
  <2>3. CASE i \in DOMAIN p /\ j = n
    BY <1>2, <1>4, <2>3
  <2>. QED
    BY <1>2, <2>1, <2>2, <2>3
<1>6. HeldBy(q) = HeldBy(p) \cup HandlesIn(e.scratch)
  <2>1. HeldBy(q) \subseteq HeldBy(p) \cup HandlesIn(e.scratch)
    <3>1. \A k \in DOMAIN q : HandlesIn(q[k].scratch) \subseteq HeldBy(p) \cup HandlesIn(e.scratch)
      BY <1>2 DEF HeldBy
    <3>. QED
      BY <3>1 DEF HeldBy
  <2>2. HeldBy(p) \subseteq HeldBy(q)
    <3>1. \A k \in DOMAIN p : HandlesIn(p[k].scratch) \subseteq HeldBy(q)
      BY <1>2 DEF HeldBy
    <3>. QED
      BY <3>1 DEF HeldBy
  <2>3. HandlesIn(e.scratch) \subseteq HeldBy(q)
    BY <1>2 DEF HeldBy
  <2>. QED
    BY <2>1, <2>2, <2>3
<1>. QED
  BY <1>2, <1>3, <1>5, <1>6 DEF PendingTidy, q

LEMMA BeginWaitOwners ==
    ASSUME IInv, Owners, NEW c \in Client, BeginWait(c)
    PROVE  Owners'
<1>1. PICK k \in DOMAIN pending[c] :
        /\ pending' = [pending EXCEPT ![c] = RemoveAt(@, k)]
        /\ call' = [call EXCEPT ![c] = [Idle EXCEPT !.kind = "wait", !.slot = pending[c][k].slot,
                        !.scratch = pending[c][k].scratch, !.id = pending[c][k].ids[1]]]
  BY DEF BeginWait
<1>. DEFINE p == pending[c]
            q == RemoveAt(p, k)
            s == p[k].scratch
<1>2. /\ DOMAIN call = Client /\ DOMAIN pc = Client /\ DOMAIN pending = Client
      /\ pc[c] = "idle" /\ pc' = [pc EXCEPT ![c] = "sync"] /\ UNCHANGED <<memory, resident>>
  BY DEF BeginWait, ids, IInv, Shaped
<1>3. /\ call'[c].scratch = s /\ call'[c].kind = "wait" /\ pending'[c] = q
      /\ pc'[c] = "sync" /\ OthersKept(c)
  BY <1>1, <1>2, IdleIs DEF OthersKept
<1>4. OutsOf(c)' = <<>>
  BY <1>3 DEF OutsOf
<1>5. PendingTidy(p, Memory) /\ HeldBy(p) \subseteq Has(c)
  BY DEF Owners, HandTidy, Has, HandOf
<1>6. /\ PendingTidy(q, Memory) /\ Neat(s, Memory)
      /\ HeldBy(q) \cap HandlesIn(s) = {} /\ HeldBy(q) \cup HandlesIn(s) \subseteq HeldBy(p)
  BY <1>5, PendingTaken
<1>. HIDE DEF p, q, s
<1>7. Neat(<<>>, Memory) /\ HandlesIn(<<>>) = {}
  BY NothingHeld
<1>8. HandTidy(<<>>, s, q, Memory) /\ HandOf(<<>>, s, q) \subseteq Has(c)
  BY <1>5, <1>6, <1>7 DEF HandTidy, HandOf
<1>9. /\ HandTidy(OutsOf(c)', call'[c].scratch, pending'[c], Memory)
      /\ HandOf(OutsOf(c)', call'[c].scratch, pending'[c]) \subseteq Has(c)
  BY <1>3, <1>4, <1>8
<1>. QED
  BY <1>2, <1>3, <1>9, SameMemory, HandStep
-----------------------------------------------------------------------------
\* The dispatches' stamps, one for each output of a node.
LEMMA StampsAre ==
    ASSUME NEW w, Sequence(w), \A i \in DOMAIN w : w[i].stamp \in Nat
    PROVE  Stamps(w) \in Seq(Nat) /\ Len(Stamps(w)) = Len(w)
<1>1. DOMAIN w = 1 .. Len(w) /\ Len(w) \in Nat
  BY DEF Sequence
<1>2. Stamps(w) \in [1 .. Len(w) -> Nat]
  BY <1>1 DEF Stamps
<1>3. \A n \in Nat : \A f \in [1 .. n -> Nat] : f \in Seq(Nat) /\ Len(f) = n
  OBVIOUS
<1>. QED
  BY <1>1, <1>2, <1>3

LEMMA SubmitOwners ==
    ASSUME IInv, Calls, Books, Owners, NEW c \in Client, Submit(c)
    PROVE  Owners'
<1>. DEFINE r == call[c]
            p == pending[c]
            e == [slot |-> r.slot, scratch |-> r.scratch, ids |-> Issued(Len(r.outs))]
<1>1. /\ pc[c] = "record" /\ r.work # <<>> /\ UNCHANGED memory
      /\ r.kind \in {"run", "submit"} => Issue(r.outs, Stamps(r.work))
      /\ r.kind \notin {"run", "submit"} => UNCHANGED ids
      /\ r.kind = "submit" => pending' = [pending EXCEPT ![c] = Append(@, e)] /\ Return(c)
      /\ r.kind # "submit" =>
           /\ pending' = pending
           /\ pc' = [pc EXCEPT ![c] = IF r.kind = "fetch" THEN "wait read" ELSE "sync"]
           /\ call' = IF r.kind \in {"run", "submit"}
                        THEN [call EXCEPT ![c].id = Len(meant) + 1] ELSE call
  BY DEF Submit, Recorded
<1>2. /\ DOMAIN call = Client /\ DOMAIN pc = Client /\ DOMAIN pending = Client
      /\ FormedCall(r, "record")
  BY <1>1 DEF IInv, Shaped, Calls
<1>3. OutsOf(c) = r.outs
  BY <1>1 DEF OutsOf
<1>4. /\ Sound(Memory) /\ HandTidy(r.outs, r.scratch, p, Memory) /\ TableTidy(resident, Memory)
      /\ Has(c) = HandOf(r.outs, r.scratch, p) /\ Has(c) \cap TableOf(resident) = {}
  BY <1>3 DEF Owners, Has
<1>5. /\ Neat(r.outs, Memory) /\ Neat(r.scratch, Memory) /\ PendingTidy(p, Memory)
      /\ HandlesIn(r.outs) \subseteq Has(c) /\ HandlesIn(r.scratch) \subseteq Has(c)
      /\ HeldBy(p) \subseteq Has(c)
      /\ HandlesIn(r.outs) \cap HandlesIn(r.scratch) = {}
      /\ HandlesIn(r.outs) \cap HeldBy(p) = {} /\ HandlesIn(r.scratch) \cap HeldBy(p) = {}
  BY <1>4 DEF HandTidy, HandOf
<1>6. Neat(<<>>, Memory) /\ HandlesIn(<<>>) = {} /\ Memory' = RecycleAll(Memory, <<>>)
  BY <1>1, <1>4, NothingHeld, RecycleNone, SameMemory DEF Sound
<1>7. CASE r.kind \notin {"run", "submit"}
  <2>1. OthersKept(c) /\ UNCHANGED <<memory, resident>> /\ pending'[c] = p /\ call'[c] = r
    BY <1>1, <1>2, <1>7 DEF OthersKept, ids
  <2>2. CASE r.kind \in {"batch", "chain"}
    <3>1. OutsOf(c)' = OutsOf(c)
      BY <1>3, <2>1, <2>2 DEF OutsOf
    <3>. QED
      BY <2>1, <3>1, SameHand
  <2>3. CASE r.kind \notin {"batch", "chain"}
    <3>1. pc'[c] # "record"
      BY <1>1, <1>2, <1>7
    <3>2. OutsOf(c)' = <<>>
      BY <2>1, <2>3, <3>1 DEF OutsOf
    <3>3. /\ HandTidy(<<>>, r.scratch, p, Memory)
          /\ HandOf(<<>>, r.scratch, p) \subseteq Has(c)
      BY <1>5, <1>6 DEF HandTidy, HandOf
    <3>4. /\ HandTidy(OutsOf(c)', call'[c].scratch, pending'[c], Memory)
          /\ HandOf(OutsOf(c)', call'[c].scratch, pending'[c]) \subseteq Has(c)
      BY <2>1, <3>2, <3>3
    <3>. QED
      BY <2>1, <3>4, SameMemory, HandStep
  <2>. QED
    BY <2>2, <2>3
<1>8. r.kind \in {"run", "submit"} =>
        /\ TableTidy(resident', Memory)
        /\ TableOf(resident') = TableOf(resident) \cup HandlesIn(r.outs)
  <2>. SUFFICES ASSUME r.kind \in {"run", "submit"}
                PROVE  /\ TableTidy(resident', Memory)
                       /\ TableOf(resident') = TableOf(resident) \cup HandlesIn(r.outs)
    OBVIOUS
  <2>1. Sequence(r.work) /\ Sequence(r.outs) /\ Len(r.outs) = Len(r.work)
        /\ \A i \in DOMAIN r.work : r.work[i].stamp \in Nat
    BY <1>2 DEF FormedCall, Nodewise
  <2>2. Stamps(r.work) \in Seq(Nat) /\ Len(Stamps(r.work)) = Len(r.work)
    BY <2>1, StampsAre
  <2>3. Len(r.outs) \in 0 .. Len(Stamps(r.work))
    <3>1. Len(r.work) \in Nat
      BY <2>1 DEF Sequence
    <3>. QED
      BY <2>1, <2>2, <3>1
  <2>4. HandlesIn(r.outs) \cap TableOf(resident) = {}
    BY <1>4, <1>5
  <2>. QED
    BY <1>1, <1>4, <1>5, <2>2, <2>3, <2>4, IssueTable
<1>9. CASE r.kind = "run"
  <2>1. /\ call' = [call EXCEPT ![c].id = Len(meant) + 1] /\ pending' = pending
        /\ pc' = [pc EXCEPT ![c] = "sync"]
    BY <1>1, <1>9
  <2>2. DOMAIN r = DOMAIN Idle
    BY <1>2 DEF FormedCall
  <2>3. /\ call'[c].scratch = r.scratch /\ call'[c].kind = "run" /\ pc'[c] = "sync"
        /\ pending'[c] = p /\ OthersKept(c)
    BY <1>2, <1>9, <2>1, <2>2, IdleIs DEF OthersKept
  <2>4. OutsOf(c)' = <<>>
    BY <2>3 DEF OutsOf
  <2>5. /\ HandTidy(<<>>, r.scratch, p, Memory)
        /\ HandOf(<<>>, r.scratch, p) \subseteq Has(c) \ HandlesIn(r.outs)
    BY <1>5, <1>6 DEF HandTidy, HandOf
  <2>6. HandTidy(OutsOf(c)', call'[c].scratch, pending'[c], Memory)
    BY <2>3, <2>4, <2>5
  <2>7. HandOf(OutsOf(c)', call'[c].scratch, pending'[c])
          \subseteq Has(c) \ (HandlesIn(<<>>) \cup HandlesIn(r.outs))
    BY <1>6, <2>3, <2>4, <2>5
  <2>. HIDE DEF r, p
  <2>8. HandlesIn(<<>>) \subseteq Has(c) /\ HandlesIn(<<>>) \cap HandlesIn(r.outs) = {}
    BY <1>6
  <2>9. /\ TableTidy(resident', Memory)
        /\ TableOf(resident') = TableOf(resident) \cup HandlesIn(r.outs)
    BY <1>8, <1>9
  <2>. QED
    BY <1>5, <1>6, <2>3, <2>6, <2>7, <2>8, <2>9, Settling
<1>10. CASE r.kind = "submit"
  <2>1. /\ call'[c] = Idle /\ pc'[c] = "idle"
        /\ \A d \in Client \ {c} : call'[d] = call[d] /\ pc'[d] = pc[d]
    BY <1>1, <1>10, ReturnIs
  <2>2. pending'[c] = Append(p, e) /\ OthersKept(c)
    BY <1>1, <1>2, <1>10, <2>1 DEF OthersKept
  <2>3. OutsOf(c)' = <<>> /\ call'[c].scratch = <<>>
    BY <2>1, IdleIs DEF OutsOf
  <2>4. e.scratch = r.scratch
    OBVIOUS
  <2>. HIDE DEF e
  <2>5. PendingTidy(Append(p, e), Memory) /\ HeldBy(Append(p, e)) = HeldBy(p) \cup HandlesIn(r.scratch)
    BY <1>5, <2>4, PendingMore
  <2>6. /\ HandTidy(<<>>, <<>>, Append(p, e), Memory)
        /\ HandOf(<<>>, <<>>, Append(p, e)) = HeldBy(p) \cup HandlesIn(r.scratch)
    BY <2>5, EmptyHand
  <2>7. HandTidy(OutsOf(c)', call'[c].scratch, pending'[c], Memory)
    BY <2>2, <2>3, <2>6
  <2>8. HandOf(OutsOf(c)', call'[c].scratch, pending'[c])
          \subseteq Has(c) \ (HandlesIn(<<>>) \cup HandlesIn(r.outs))
    BY <1>5, <1>6, <2>2, <2>3, <2>6
  <2>. HIDE DEF r, p
  <2>9. HandlesIn(<<>>) \subseteq Has(c) /\ HandlesIn(<<>>) \cap HandlesIn(r.outs) = {}
    BY <1>6
  <2>10. /\ TableTidy(resident', Memory)
         /\ TableOf(resident') = TableOf(resident) \cup HandlesIn(r.outs)
    BY <1>8, <1>10
  <2>. QED
    BY <1>5, <1>6, <2>2, <2>7, <2>8, <2>9, <2>10, Settling
<1>. QED
  BY <1>7, <1>9, <1>10

LEMMA SyncedOwners ==
    ASSUME IInv, Calls, Books, Owners, NEW c \in Client, Synced(c)
    PROVE  Owners'
<1>. DEFINE r == call[c]
            p == pending[c]
<1>1. pc[c] = "wait sync" /\ Return(c) /\ pending' = pending /\ DOMAIN call = Client
  BY DEF Synced, IInv, Shaped
<1>2. FormedCall(r, "wait sync")
  BY <1>1 DEF Calls
<1>3. r.kind \in {"run", "wait", "batch", "chain"}
  BY <1>2 DEF FormedCall
<1>4. /\ Sound(Memory) /\ HandTidy(OutsOf(c), r.scratch, p, Memory) /\ TableTidy(resident, Memory)
      /\ Has(c) = HandOf(OutsOf(c), r.scratch, p) /\ Has(c) \cap TableOf(resident) = {}
  BY DEF Owners, Has
<1>5. /\ Neat(OutsOf(c), Memory) /\ Neat(r.scratch, Memory) /\ PendingTidy(p, Memory)
      /\ HandlesIn(OutsOf(c)) \subseteq Has(c) \ HeldBy(p)
      /\ HandlesIn(r.scratch) \subseteq Has(c) \ HeldBy(p)
      /\ HandlesIn(OutsOf(c)) \cap HandlesIn(r.scratch) = {}
  BY <1>4 DEF HandTidy, HandOf
<1>6. CASE r.kind \in {"run", "wait"}
  <2>1. SetMemory(RecycleAll(Memory, r.scratch)) /\ resident' = resident
    BY <1>6 DEF Synced, ids
  <2>2. Memory' = RecycleAll(Memory, r.scratch)
    BY <1>4, <1>5, <2>1, RecycleAllIs, SetMemoryIs DEF Sound
  <2>3. Neat(<<>>, Memory) /\ HandlesIn(<<>>) = {}
    BY NothingHeld
  <2>4. TableTidy(resident', Memory) /\ TableOf(resident') = TableOf(resident) \cup HandlesIn(<<>>)
    BY <1>4, <2>1, <2>3
  <2>5. HandlesIn(<<>>) \subseteq Has(c) \ HeldBy(p) /\ HandlesIn(r.scratch) \cap HandlesIn(<<>>) = {}
    BY <2>3
  <2>. QED
    BY <1>1, <1>5, <2>2, <2>4, <2>5, Ending
<1>7. r.kind \in {"batch", "chain"} =>
        /\ OutsOf(c) = r.outs /\ r.work # <<>> /\ Sequence(r.work) /\ Sequence(r.outs)
        /\ \A i \in DOMAIN r.work : r.work[i].stamp \in Nat
  BY <1>1, <1>2 DEF OutsOf, FormedCall
<1>8. CASE r.kind = "batch"
  <2>1. SetMemory(RecycleAll(Memory, r.scratch)) /\ Issue(r.outs, Stamps(r.work))
    BY <1>8 DEF Synced
  <2>2. Memory' = RecycleAll(Memory, r.scratch)
    BY <1>4, <1>5, <2>1, RecycleAllIs, SetMemoryIs DEF Sound
  <2>3. Stamps(r.work) \in Seq(Nat) /\ Len(r.outs) \in 0 .. Len(Stamps(r.work))
    <3>1. Len(r.outs) = Len(r.work) /\ Len(r.work) \in Nat
      <4>1. Len(r.outs) = Len(r.work)
        BY <1>2, <1>8 DEF FormedCall, Nodewise
      <4>2. Sequence(r.work)
        BY <1>7, <1>8
      <4>3. Len(r.work) \in Nat
        BY <4>2 DEF Sequence
      <4>. QED
        BY <4>1, <4>3
    <3>2. Stamps(r.work) \in Seq(Nat) /\ Len(Stamps(r.work)) = Len(r.work)
      BY <1>7, <1>8, StampsAre
    <3>. QED
      BY <3>1, <3>2
  <2>4. Neat(r.outs, Memory) /\ HandlesIn(r.outs) \subseteq Has(c) \ HeldBy(p)
        /\ HandlesIn(r.scratch) \cap HandlesIn(r.outs) = {}
        /\ HandlesIn(r.outs) \cap TableOf(resident) = {}
    BY <1>4, <1>5, <1>7, <1>8
  <2>5. /\ TableTidy(resident', Memory)
        /\ TableOf(resident') = TableOf(resident) \cup HandlesIn(r.outs)
    BY <1>4, <2>1, <2>3, <2>4, IssueTable
  <2>. QED
    BY <1>1, <1>5, <2>2, <2>4, <2>5, Ending
<1>9. CASE r.kind = "chain"
  <2>. DEFINE a == r.outs[1]
              b == r.outs[2]
              w == <<Last(r.work).stamp>>
  <2>1. SetMemory(RecycleAll(Memory, <<b>> \o r.scratch)) /\ Issue(<<a>>, w)
    BY <1>9 DEF Synced, Spare
  <2>2. Len(r.outs) = 2
    BY <1>2, <1>7, <1>9 DEF FormedCall
  <2>3. w \in Seq(Nat) /\ Len(w) = 1
    <3>1. PICK T : r.work \in Seq(T)
      BY <1>7, <1>9 DEF Sequence
    <3>2. Len(r.work) \in DOMAIN r.work /\ Last(r.work) = r.work[Len(r.work)]
      BY <1>7, <1>9, <3>1 DEF Last
    <3>3. Last(r.work).stamp \in Nat
      BY <1>7, <1>9, <3>2
    <3>. HIDE DEF r
    <3>. QED
      BY <3>3
  <2>4. /\ Good(a, Memory) /\ Good(b, Memory) /\ a.h # b.h
        /\ a.h \in HandlesIn(r.outs) /\ b.h \in HandlesIn(r.outs)
    <3>1. 1 \in DOMAIN r.outs /\ 2 \in DOMAIN r.outs
      BY <1>7, <1>9, <2>2 DEF Sequence
    <3>2. Neat(r.outs, Memory)
      BY <1>5, <1>7, <1>9
    <3>. HIDE DEF r
    <3>. QED
      BY <3>1, <3>2 DEF Neat, Distinct, HandlesIn
  <2>5. HandlesIn(r.outs) \subseteq Has(c) \ HeldBy(p) /\ HandlesIn(r.outs) \cap HandlesIn(r.scratch) = {}
    BY <1>5, <1>7, <1>9
  <2>. HIDE DEF a, b, w
  <2>6. Neat(<<a>>, Memory) /\ HandlesIn(<<a>>) = {a.h} /\ Len(<<a>>) = 1
    BY <2>4, OneHeld
  <2>7. Neat(<<b>>, Memory) /\ HandlesIn(<<b>>) = {b.h}
    BY <2>4, OneHeld
  <2>. DEFINE bs == <<b>> \o r.scratch
  <2>8. Neat(bs, Memory) /\ HandlesIn(bs) = {b.h} \cup HandlesIn(r.scratch)
    <3>1. HandlesIn(<<b>>) \cap HandlesIn(r.scratch) = {}
      BY <2>4, <2>5, <2>7
    <3>. QED
      BY <1>5, <2>7, <3>1, HeldTogether
  <2>9. SetMemory(RecycleAll(Memory, bs))
    BY <2>1
  <2>. HIDE DEF bs
  <2>10. Memory' = RecycleAll(Memory, bs)
    BY <1>4, <2>8, <2>9, RecycleAllIs, SetMemoryIs DEF Sound
  <2>11. /\ HandlesIn(bs) \subseteq Has(c) \ HeldBy(p) /\ HandlesIn(<<a>>) \subseteq Has(c) \ HeldBy(p)
         /\ HandlesIn(bs) \cap HandlesIn(<<a>>) = {}
         /\ HandlesIn(<<a>>) \cap TableOf(resident) = {}
    BY <1>4, <1>5, <2>4, <2>5, <2>6, <2>8
  <2>12. Len(<<a>>) \in 0 .. Len(w)
    BY <2>3, <2>6
  <2>13. /\ TableTidy(resident', Memory)
         /\ TableOf(resident') = TableOf(resident) \cup HandlesIn(<<a>>)
    BY <1>4, <2>1, <2>3, <2>6, <2>11, <2>12, IssueTable
  <2>. QED
    BY <1>1, <2>8, <2>10, <2>11, <2>13, Ending
<1>. QED
  BY <1>3, <1>6, <1>8, <1>9

LEMMA SyncFailsOwners ==
    ASSUME IInv, Owners, NEW c \in Client, SyncFails(c)
    PROVE  Owners'
<1>. DEFINE r == call[c]
            p == pending[c]
<1>1. /\ Return(c) /\ pending' = pending /\ resident' = resident
      /\ SetMemory(IF r.kind = "wait" THEN Memory ELSE RecycleAll(Memory, r.scratch))
  BY DEF SyncFails, ids
<1>2. /\ Sound(Memory) /\ HandTidy(OutsOf(c), r.scratch, p, Memory) /\ TableTidy(resident, Memory)
      /\ Has(c) = HandOf(OutsOf(c), r.scratch, p)
  BY DEF Owners, Has
<1>3. /\ Neat(r.scratch, Memory) /\ HandlesIn(r.scratch) \subseteq Has(c) \ HeldBy(p)
  BY <1>2 DEF HandTidy, HandOf
<1>4. Neat(<<>>, Memory) /\ HandlesIn(<<>>) = {}
  BY NothingHeld
<1>5. TableTidy(resident', Memory) /\ TableOf(resident') = TableOf(resident) \cup HandlesIn(<<>>)
  BY <1>1, <1>2, <1>4
<1>6. /\ HandlesIn(<<>>) \subseteq Has(c) \ HeldBy(p)
      /\ HandlesIn(<<>>) \cap HandlesIn(<<>>) = {}
      /\ HandlesIn(r.scratch) \cap HandlesIn(<<>>) = {}
  BY <1>4
<1>7. CASE r.kind = "wait"
  <2>1. Memory' = RecycleAll(Memory, <<>>)
    BY <1>1, <1>2, <1>7, SetMemoryIs, RecycleNone DEF Sound
  <2>. QED
    BY <1>1, <1>4, <1>5, <1>6, <2>1, Ending
<1>8. CASE r.kind # "wait"
  <2>1. Memory' = RecycleAll(Memory, r.scratch)
    BY <1>1, <1>2, <1>3, <1>8, SetMemoryIs, RecycleAllIs DEF Sound
  <2>. QED
    BY <1>1, <1>3, <1>5, <1>6, <2>1, Ending
<1>. QED
  BY <1>7, <1>8

LEMMA ReleaseOwners ==
    ASSUME IInv, Owners, NEW c \in Client, Release(c)
    PROVE  Owners'
<1>1. PICK id \in owned[c] \cap DOMAIN resident :
        /\ resident' = [i \in DOMAIN resident \ {id} |-> resident[i]]
        /\ SetMemory(Recycle(Memory, resident[id]))
  BY DEF Release
<1>. DEFINE b == resident[id]
            m == Recycle(Memory, b)
            H == Lent(Memory) \ {b.h}
<1>2. UNCHANGED <<pc, call, pending>>
  BY DEF Release
<1>3. /\ Sound(Memory) /\ TableTidy(resident, Memory) /\ Has(c) \cap TableOf(resident) = {}
      /\ HandTidy(OutsOf(c), call[c].scratch, pending[c], Memory)
  BY DEF Owners
<1>4. Good(b, Memory) /\ b.h \in TableOf(resident)
  BY <1>1, <1>3 DEF TableTidy, TableOf
<1>5. Sound(m) /\ Lent(m) = H /\ m.cap = Memory.cap
  BY <1>3, <1>4, RecycleIs
<1>6. Memory' = m
  BY <1>1, <1>5, SetMemoryIs DEF Sound
<1>. HIDE DEF m, b
<1>7. \A G : G \subseteq H => Keeping(Memory, m, G)
  BY <1>5 DEF Keeping
<1>8. OutsOf(c)' = OutsOf(c) /\ OthersKept(c)
  BY <1>2 DEF OutsOf, OthersKept
<1>9. Has(c) \subseteq H
  <2>1. Has(c) \subseteq Lent(Memory)
    BY <1>3, HandLent DEF Has
  <2>. QED
    BY <1>3, <1>4, <2>1
<1>10. HandTidy(OutsOf(c), call[c].scratch, pending[c], m)
  BY <1>3, <1>7, <1>9, HandStill DEF Has
<1>11. /\ DOMAIN resident' = DOMAIN resident \ {id}
       /\ \A i \in DOMAIN resident' : resident'[i] = resident[i]
  BY <1>1
<1>12. TableTidy(resident', Memory) /\ TableOf(resident') \subseteq TableOf(resident) \ {b.h}
  <2>1. TableTidy(resident', Memory)
    BY <1>3, <1>11 DEF TableTidy
  <2>2. \A i \in DOMAIN resident' : resident'[i].h # b.h
    BY <1>1, <1>3, <1>11 DEF TableTidy, b
  <2>. QED
    BY <1>11, <2>1, <2>2 DEF TableOf
<1>13. TableOf(resident') \subseteq H
  BY <1>3, <1>12, TableLent
<1>14. TableTidy(resident', m)
  BY <1>7, <1>12, <1>13, TableStill
<1>15. Keeping(Memory, m, Lent(Memory) \ (Has(c) \cup TableOf(resident)))
  BY <1>4, <1>7
<1>. DEFINE hand == HandOf(OutsOf(c)', call'[c].scratch, pending'[c])
<1>16. HandTidy(OutsOf(c)', call'[c].scratch, pending'[c], m) /\ hand = Has(c)
  BY <1>2, <1>8, <1>10 DEF Has
<1>17. /\ hand \cap TableOf(resident') = {}
       /\ hand \cap Lent(Memory) \subseteq Has(c) \cup TableOf(resident)
       /\ TableOf(resident') \cap Lent(Memory) \subseteq Has(c) \cup TableOf(resident)
  BY <1>3, <1>12, <1>16
<1>. HIDE DEF H
<1>. QED
  BY <1>5, <1>6, <1>8, <1>14, <1>15, <1>16, <1>17, OwnersStep
-----------------------------------------------------------------------------
\* The books are kept by every step.

LEMMA BooksStep ==
    ASSUME Books, NEW c \in Client, OthersKept(c),
           stamp' \in Nat, meant' \in Seq(Nat), DOMAIN meant \subseteq DOMAIN meant',
           DOMAIN resident' \subseteq DOMAIN meant',
           DOMAIN owned' = Client, \A d \in Client \ {c} : owned'[d] = owned[d],
           owned'[c] \subseteq DOMAIN meant',
           \A k \in DOMAIN pending'[c] : pending'[c][k].ids[1] \in DOMAIN meant',
           pc'[c] \in {"sync", "wait sync"} /\ call'[c].kind \in {"run", "wait"} =>
             call'[c].id \in DOMAIN meant',
           pc' \in [Client -> Points], lock' \in Client \cup {NoClient},
           timedOut' \in BOOLEAN, refused' \in BOOLEAN
    PROVE  Books'
<1>1. \A d \in Client : owned'[d] \subseteq DOMAIN meant'
  BY DEF Books
<1>2. \A d \in Client : \A k \in DOMAIN pending'[d] : pending'[d][k].ids[1] \in DOMAIN meant'
  BY DEF Books, OthersKept
<1>3. \A d \in Client : pc'[d] \in {"sync", "wait sync"} /\ call'[d].kind \in {"run", "wait"} =>
        call'[d].id \in DOMAIN meant'
  BY DEF Books, OthersKept
<1>. QED
  BY <1>1, <1>2, <1>3 DEF Books

\* A call returns.
LEMMA ReturnBooks ==
    ASSUME IInv, Books, NEW c \in Client, Return(c), pending' = pending, stamp' = stamp,
           meant' \in Seq(Nat), DOMAIN meant \subseteq DOMAIN meant',
           DOMAIN resident' \subseteq DOMAIN meant',
           NEW S, S \subseteq DOMAIN meant', owned' = [owned EXCEPT ![c] = @ \cup S] \/ owned' = owned,
           timedOut' \in BOOLEAN, refused' \in BOOLEAN
    PROVE  Books'
<1>1. /\ call'[c] = Idle /\ pc'[c] = "idle"
      /\ \A d \in Client \ {c} : call'[d] = call[d] /\ pc'[d] = pc[d]
  BY ReturnIs
<1>2. OthersKept(c)
  BY <1>1 DEF OthersKept
<1>3. /\ DOMAIN owned' = Client /\ (\A d \in Client \ {c} : owned'[d] = owned[d])
      /\ owned'[c] \subseteq DOMAIN meant'
  BY DEF Books
<1>4. pc' \in [Client -> Points] /\ lock' \in Client \cup {NoClient}
  BY DEF Return, Books, Points
<1>5. \A k \in DOMAIN pending'[c] : pending'[c][k].ids[1] \in DOMAIN meant'
  BY DEF Books
<1>6. stamp' \in Nat
  BY DEF Books
<1>. QED
  BY <1>1, <1>2, <1>3, <1>4, <1>5, <1>6, BooksStep

LEMMA LeaveBooks ==
    ASSUME IInv, Books, NEW c \in Client, Return(c), UNCHANGED <<ids, pending, owned, stamp>>,
           timedOut' \in BOOLEAN, refused' \in BOOLEAN
    PROVE  Books'
<1>1. /\ meant' \in Seq(Nat) /\ DOMAIN meant \subseteq DOMAIN meant'
      /\ DOMAIN resident' \subseteq DOMAIN meant'
  BY DEF Books, ids
<1>2. {} \subseteq DOMAIN meant'
  OBVIOUS
<1>. QED
  BY <1>1, <1>2, ReturnBooks

LEMMA FaultIs ==
    ASSUME Books
    PROVE  /\ Fault => timedOut' \in BOOLEAN
           /\ \A s : WaitFails(s) => timedOut' \in BOOLEAN /\ refused' \in BOOLEAN
  BY DEF Books, Fault, WaitFails

LEMMA LeavingBooks ==
    ASSUME IInv, Books, NEW c \in Client,
           \/ SlotWaitFails(c) \/ SyncFails(c) \/ ReadBack(c) \/ ReadFails(c)
           \/ RecordNodeFails(c) \/ RecordChainFails(c) \/ RecordFetchFails(c) \/ SubmitFails(c)
    PROVE  Books'
<1>1. timedOut \in BOOLEAN /\ refused \in BOOLEAN
  BY DEF Books
<1>2. CASE SlotWaitFails(c)
  BY <1>2, FaultIs, LeaveBooks DEF SlotWaitFails
<1>3. CASE SyncFails(c)
  BY <1>3, FaultIs, LeaveBooks DEF SyncFails
<1>4. CASE ReadBack(c)
  BY <1>1, <1>4, LeaveBooks DEF ReadBack, bounds
<1>5. CASE ReadFails(c)
  BY <1>5, FaultIs, LeaveBooks DEF ReadFails
<1>6. ASSUME NEW m, NEW outs, Abandon(c, m, outs), Fault, refused' \in BOOLEAN PROVE Books'
  BY <1>6, FaultIs, LeaveBooks DEF Abandon
<1>7. CASE RecordNodeFails(c)
  BY <1>1, <1>6, <1>7 DEF RecordNodeFails
<1>8. CASE RecordChainFails(c)
  BY <1>1, <1>6, <1>8 DEF RecordChainFails
<1>9. CASE RecordFetchFails(c)
  BY <1>1, <1>6, <1>9 DEF RecordFetchFails
<1>10. CASE SubmitFails(c)
  <2>1. refused' \in BOOLEAN /\ Fault /\ Abandon(c, Memory, <<>>)
    BY <1>1, <1>10 DEF SubmitFails
  <2>. QED
    BY <1>6, <2>1
<1>. QED
  BY <1>2, <1>3, <1>4, <1>5, <1>7, <1>8, <1>9, <1>10

\* A step within a call, before its dispatches are with the queue.
LEMMA WithinBooks ==
    ASSUME IInv, Books, NEW c \in Client, OthersKept(c), UNCHANGED <<ids, owned, timedOut, refused>>,
           pending'[c] = pending[c], stamp' \in Nat,
           pc'[c] \in {"sync", "wait sync"} /\ call'[c].kind \in {"run", "wait"} =>
             call'[c].id \in DOMAIN meant,
           pc' \in [Client -> Points], lock' \in Client \cup {NoClient}
    PROVE  Books'
<1>1. /\ meant' \in Seq(Nat) /\ DOMAIN meant \subseteq DOMAIN meant'
      /\ DOMAIN resident' \subseteq DOMAIN meant' /\ meant' = meant
      /\ DOMAIN owned' = Client /\ (\A d \in Client \ {c} : owned'[d] = owned[d])
      /\ owned'[c] \subseteq DOMAIN meant' /\ timedOut' \in BOOLEAN /\ refused' \in BOOLEAN
  BY DEF Books, ids
<1>2. \A k \in DOMAIN pending'[c] : pending'[c][k].ids[1] \in DOMAIN meant'
  BY <1>1 DEF Books
<1>3. pc'[c] \in {"sync", "wait sync"} /\ call'[c].kind \in {"run", "wait"} =>
        call'[c].id \in DOMAIN meant'
  BY <1>1
<1>. QED
  BY <1>1, <1>2, <1>3, BooksStep

LEMMA TakeBooks ==
    ASSUME IInv, Books, NEW c \in Client, NEW r, Take(c, r),
           UNCHANGED <<ids, pending, owned, stamp, timedOut, refused>>
    PROVE  Books'
<1>1. /\ DOMAIN call = Client /\ lock' = c /\ pc \in [Client -> Points]
      /\ call' = [call EXCEPT ![c] = [r EXCEPT !.slot = cursor]]
      /\ \/ pc' = [pc EXCEPT ![c] = "wait slot"]
         \/ pc' = [pc EXCEPT ![c] = "record"]
  BY DEF IInv, Shaped, Take, Books
<1>2. OthersKept(c)
  BY <1>1 DEF OthersKept
<1>3. pc'[c] \notin {"sync", "wait sync"} /\ pc' \in [Client -> Points]
  BY <1>1 DEF Points
<1>4. stamp' \in Nat
  BY DEF Books
<1>. QED
  BY <1>1, <1>2, <1>3, <1>4, WithinBooks

LEMMA TakingBooks ==
    ASSUME IInv, Books, NEW c \in Client, Begin(c) \/ BeginFetch(c) \/ Acquire(c)
    PROVE  Books'
<1>1. CASE Begin(c)
  BY <1>1, TakeBooks DEF Begin
<1>2. CASE Acquire(c)
  BY <1>2, TakeBooks DEF Acquire, bounds
<1>3. CASE BeginFetch(c)
  <2>1. /\ DOMAIN call = Client /\ pc \in [Client -> Points] /\ pc' = [pc EXCEPT ![c] = "acquire"]
        /\ lock \in Client \cup {NoClient} /\ stamp \in Nat
        /\ UNCHANGED <<ids, owned, timedOut, refused, stamp, lock, pending>>
    BY <1>3 DEF BeginFetch, IInv, Shaped, Books, slots
  <2>2. OthersKept(c)
    BY <1>3, <2>1 DEF BeginFetch, OthersKept
  <2>3. pc'[c] \notin {"sync", "wait sync"} /\ pc' \in [Client -> Points]
    BY <2>1 DEF Points
  <2>. QED
    BY <2>1, <2>2, <2>3, WithinBooks
<1>. QED
  BY <1>1, <1>2, <1>3

LEMMA InsideBooks ==
    ASSUME IInv, Books, NEW c \in Client,
           SlotFree(c) \/ RecordNode(c) \/ RecordChain(c) \/ RecordFetch(c) \/ TakeSync(c)
    PROVE  Books'
<1>1. /\ DOMAIN call = Client /\ pc \in [Client -> Points]
      /\ lock \in Client \cup {NoClient} /\ stamp \in Nat
  BY DEF IInv, Shaped, Books
<1>2. CASE SlotFree(c)
  <2>1. /\ UNCHANGED <<ids, owned, timedOut, refused, stamp, lock, pending, call>>
        /\ pc' = [pc EXCEPT ![c] = "record"]
    BY <1>2 DEF SlotFree, bounds
  <2>2. OthersKept(c) /\ pc'[c] \notin {"sync", "wait sync"} /\ pc' \in [Client -> Points]
    BY <1>1, <2>1 DEF OthersKept, Points
  <2>. QED
    BY <1>1, <2>1, <2>2, WithinBooks
<1>3. CASE TakeSync(c)
  <2>1. /\ UNCHANGED <<ids, owned, timedOut, refused, stamp, pending, call>>
        /\ lock' = c /\ pc[c] = "sync" /\ pc' = [pc EXCEPT ![c] = "wait sync"]
    BY <1>3 DEF TakeSync, bounds
  <2>2. OthersKept(c) /\ pc' \in [Client -> Points]
    BY <1>1, <2>1 DEF OthersKept, Points
  <2>3. call'[c].kind \in {"run", "wait"} => call'[c].id \in DOMAIN meant
    BY <2>1 DEF Books
  <2>. QED
    BY <1>1, <2>1, <2>2, <2>3, WithinBooks
<1>4. ASSUME pc[c] = "record", pc' = pc, UNCHANGED <<ids, owned, bounds, lock, pending>>,
             \A d \in Client \ {c} : call'[d] = call[d], stamp' \in Nat
      PROVE  Books'
  <2>1. OthersKept(c) /\ UNCHANGED <<timedOut, refused>>
    BY <1>4 DEF OthersKept, bounds
  <2>. QED
    BY <1>1, <1>4, <2>1, WithinBooks
<1>5. CASE RecordNode(c)
  <2>1. /\ pc[c] = "record" /\ pc' = pc /\ UNCHANGED <<ids, owned, bounds, lock, pending>>
        /\ stamp' = stamp + 1 /\ \A d \in Client \ {c} : call'[d] = call[d]
    BY <1>1, <1>5 DEF RecordNode
  <2>. QED
    BY <1>1, <1>4, <2>1
<1>6. CASE RecordChain(c)
  <2>1. /\ pc[c] = "record" /\ pc' = pc /\ UNCHANGED <<ids, owned, bounds, lock, pending>>
        /\ call[c].kind = "chain"
        /\ stamp' = stamp + Len(call[c].nodes) /\ \A d \in Client \ {c} : call'[d] = call[d]
    BY <1>1, <1>6 DEF RecordChain
  <2>. QED
    BY <1>1, <1>4, <2>1
<1>7. CASE RecordFetch(c)
  <2>1. /\ pc[c] = "record" /\ pc' = pc /\ UNCHANGED <<ids, owned, bounds, lock, pending>>
        /\ stamp' = stamp /\ \A d \in Client \ {c} : call'[d] = call[d]
    BY <1>1, <1>7 DEF RecordFetch, slots
  <2>. QED
    BY <1>1, <1>4, <2>1
<1>. QED
  BY <1>2, <1>3, <1>5, <1>6, <1>7

LEMMA SubmitBooks ==
    ASSUME IInv, Calls, Books, NEW c \in Client, Submit(c)
    PROVE  Books'
<1>. DEFINE r == call[c]
            n == Len(meant)
            w == Stamps(r.work)
            e == [slot |-> r.slot, scratch |-> r.scratch, ids |-> Issued(Len(r.outs))]
<1>1. /\ pc[c] = "record" /\ r.work # <<>> /\ UNCHANGED <<stamp, owned, timedOut, refused>>
      /\ r.kind \in {"run", "submit"} => Issue(r.outs, w)
      /\ r.kind \notin {"run", "submit"} => UNCHANGED ids
      /\ r.kind = "submit" => pending' = [pending EXCEPT ![c] = Append(@, e)] /\ Return(c)
      /\ r.kind # "submit" =>
           /\ pending' = pending
           /\ lock' = IF r.kind = "fetch" THEN lock ELSE NoClient
           /\ pc' = [pc EXCEPT ![c] = IF r.kind = "fetch" THEN "wait read" ELSE "sync"]
           /\ call' = IF r.kind \in {"run", "submit"}
                        THEN [call EXCEPT ![c].id = n + 1] ELSE call
  BY DEF Submit, Recorded, bounds
<1>2. /\ DOMAIN call = Client /\ pc \in [Client -> Points] /\ DOMAIN pending = Client
      /\ FormedCall(r, "record") /\ lock \in Client \cup {NoClient} /\ stamp \in Nat
      /\ meant \in Seq(Nat) /\ n \in Nat
      /\ timedOut' \in BOOLEAN /\ refused' \in BOOLEAN
      /\ DOMAIN owned' = Client /\ \A d \in Client \ {c} : owned'[d] = owned[d]
      /\ owned'[c] = owned[c]
  <2>1. DOMAIN call = Client /\ DOMAIN pending = Client
    BY DEF IInv, Shaped
  <2>2. FormedCall(r, "record")
    BY <1>1 DEF Calls
  <2>3. /\ pc \in [Client -> Points] /\ lock \in Client \cup {NoClient} /\ stamp \in Nat
        /\ meant \in Seq(Nat) /\ DOMAIN owned = Client
        /\ timedOut \in BOOLEAN /\ refused \in BOOLEAN
    BY DEF Books
  <2>4. n \in Nat
    BY <2>3
  <2>. HIDE DEF r, n, w, e
  <2>5. /\ timedOut' \in BOOLEAN /\ refused' \in BOOLEAN
        /\ DOMAIN owned' = Client /\ \A d \in Client : owned'[d] = owned[d]
    BY <1>1, <2>3
  <2>. QED
    BY <2>1, <2>2, <2>3, <2>4, <2>5
<1>3. r.kind # "wait" /\ DOMAIN r = DOMAIN Idle
  <2>1. r.kind \in {"fetch", "chain"} \cup Nodewise /\ DOMAIN r = DOMAIN Idle
    BY <1>2 DEF FormedCall
  <2>. QED
    BY <2>1 DEF Nodewise
<1>4. CASE r.kind \notin {"run", "submit"}
  <2>1. /\ OthersKept(c) /\ pending'[c] = pending[c] /\ call'[c].kind \notin {"run", "wait"}
    BY <1>1, <1>2, <1>3, <1>4 DEF OthersKept
  <2>2. pc' \in [Client -> Points] /\ lock' \in Client \cup {NoClient}
    BY <1>1, <1>2, <1>4 DEF Points
  <2>. QED
    BY <1>1, <1>2, <1>4, <2>1, <2>2, WithinBooks
<1>5. r.kind \in {"run", "submit"} =>
        /\ meant' \in Seq(Nat) /\ DOMAIN meant \subseteq DOMAIN meant'
        /\ DOMAIN resident' \subseteq DOMAIN meant' /\ n + 1 \in DOMAIN meant'
        /\ Issued(Len(r.outs))[1] = n + 1
  <2>. SUFFICES ASSUME r.kind \in {"run", "submit"}
                PROVE  /\ meant' \in Seq(Nat) /\ DOMAIN meant \subseteq DOMAIN meant'
                       /\ DOMAIN resident' \subseteq DOMAIN meant' /\ n + 1 \in DOMAIN meant'
                       /\ Issued(Len(r.outs))[1] = n + 1
    OBVIOUS
  <2>1. Sequence(r.work) /\ Sequence(r.outs) /\ Len(r.outs) = Len(r.work)
        /\ \A i \in DOMAIN r.work : r.work[i].stamp \in Nat
    BY <1>2 DEF FormedCall, Nodewise
  <2>2. w \in Seq(Nat) /\ Len(w) = Len(r.work)
    BY <2>1, StampsAre
  <2>3. Len(r.work) \in Nat \ {0}
    <3>. DEFINE s == r.work
    <3>1. PICK T : s \in Seq(T)
      BY <2>1 DEF Sequence
    <3>2. s # <<>>
      BY <1>1
    <3>. HIDE DEF s
    <3>3. Len(s) \in Nat \ {0}
      BY <3>1, <3>2
    <3>. QED
      BY <3>3 DEF s
  <2>4. Len(r.outs) \in 0 .. Len(w) /\ Len(r.outs) \in Nat /\ 1 \in 1 .. Len(r.outs)
    BY <2>1, <2>2, <2>3
  <2>5. /\ meant' \in Seq(Nat) /\ DOMAIN meant \subseteq DOMAIN meant'
        /\ DOMAIN resident' \subseteq DOMAIN meant'
        /\ \A k \in 1 .. Len(r.outs) : n + k \in DOMAIN meant'
    BY <1>1, <2>1, <2>2, <2>4, IssueIs
  <2>6. Issued(Len(r.outs))[1] = n + 1
    BY <1>2, <2>4, IssuedAre
  <2>7. n + 1 \in DOMAIN meant'
    BY <2>4, <2>5
  <2>. QED
    BY <2>5, <2>6, <2>7
<1>. HIDE DEF w, n
<1>6. owned'[c] \subseteq DOMAIN meant' /\ (\A k \in DOMAIN pending[c] : pending[c][k].ids[1] \in DOMAIN meant')
  <2>1. DOMAIN meant \subseteq DOMAIN meant'
    BY <1>1, <1>4, <1>5 DEF ids
  <2>. QED
    BY <1>1, <2>1 DEF Books
<1>7. CASE r.kind = "run"
  <2>1. /\ call' = [call EXCEPT ![c].id = n + 1] /\ pending' = pending
        /\ pc' = [pc EXCEPT ![c] = "sync"] /\ lock' = NoClient
    BY <1>1, <1>7
  <2>2. OthersKept(c) /\ call'[c].id = n + 1
    BY <1>2, <1>3, <2>1, IdleIs DEF OthersKept
  <2>3. pc' \in [Client -> Points]
    BY <1>2, <2>1 DEF Points
  <2>4. call'[c].id \in DOMAIN meant' /\ pending'[c] = pending[c] /\ stamp' \in Nat
    BY <1>1, <1>2, <1>5, <1>7, <2>1, <2>2
  <2>5. lock' \in Client \cup {NoClient}
    BY <2>1
  <2>. QED
    BY <1>2, <1>5, <1>6, <1>7, <2>2, <2>3, <2>4, <2>5, BooksStep
<1>8. CASE r.kind = "submit"
  <2>1. /\ call'[c] = Idle /\ pc'[c] = "idle"
        /\ \A d \in Client \ {c} : call'[d] = call[d] /\ pc'[d] = pc[d]
    BY <1>1, <1>8, ReturnIs
  <2>2. pending'[c] = Append(pending[c], e) /\ OthersKept(c)
    BY <1>1, <1>2, <1>8, <2>1 DEF OthersKept
  <2>3. e.ids[1] = n + 1
    BY <1>5, <1>8
  <2>. HIDE DEF e
  <2>4. \A k \in DOMAIN pending'[c] : pending'[c][k].ids[1] \in DOMAIN meant'
    <3>1. Sequence(pending[c])
      BY DEF IInv, Shaped
    <3>2. \A k \in DOMAIN Append(pending[c], e) :
            \/ Append(pending[c], e)[k] = e
            \/ k \in DOMAIN pending[c] /\ Append(pending[c], e)[k] = pending[c][k]
      BY <3>1, AppendIs
    <3>. QED
      BY <1>5, <1>6, <1>8, <2>2, <2>3, <3>2
  <2>5. pc' \in [Client -> Points] /\ lock' \in Client \cup {NoClient} /\ stamp' \in Nat
    BY <1>1, <1>2, <1>8 DEF Return, Points
  <2>6. pc'[c] \notin {"sync", "wait sync"}
    BY <2>1
  <2>. QED
    BY <1>2, <1>5, <1>6, <1>8, <2>2, <2>4, <2>5, <2>6, BooksStep
<1>. QED
  BY <1>4, <1>7, <1>8

LEMMA BeginWaitBooks ==
    ASSUME IInv, Books, NEW c \in Client, BeginWait(c)
    PROVE  Books'
<1>1. PICK k \in DOMAIN pending[c] :
        /\ pending' = [pending EXCEPT ![c] = RemoveAt(@, k)]
        /\ call' = [call EXCEPT ![c] = [Idle EXCEPT !.kind = "wait", !.slot = pending[c][k].slot,
                        !.scratch = pending[c][k].scratch, !.id = pending[c][k].ids[1]]]
  BY DEF BeginWait
<1>2. /\ DOMAIN call = Client /\ pc \in [Client -> Points] /\ DOMAIN pending = Client
      /\ pc' = [pc EXCEPT ![c] = "sync"]
      /\ UNCHANGED <<ids, owned, stamp, lock, timedOut, refused>>
      /\ Sequence(pending[c])
  BY DEF BeginWait, ids, bounds, slots, IInv, Shaped, Books
<1>3. /\ call'[c].id = pending[c][k].ids[1] /\ pending'[c] = RemoveAt(pending[c], k)
      /\ OthersKept(c)
  BY <1>1, <1>2, IdleIs DEF OthersKept
<1>4. \A i \in DOMAIN RemoveAt(pending[c], k) :
        \E j \in DOMAIN pending[c] : RemoveAt(pending[c], k)[i] = pending[c][j]
  BY <1>2, RemoveIs
<1>5. /\ meant' = meant /\ meant' \in Seq(Nat) /\ DOMAIN resident' \subseteq DOMAIN meant'
      /\ stamp' \in Nat /\ lock' \in Client \cup {NoClient}
      /\ timedOut' \in BOOLEAN /\ refused' \in BOOLEAN
      /\ DOMAIN owned' = Client /\ (\A d \in Client \ {c} : owned'[d] = owned[d])
      /\ owned'[c] \subseteq DOMAIN meant'
  BY <1>2 DEF Books, ids
<1>6. \A i \in DOMAIN pending'[c] : pending'[c][i].ids[1] \in DOMAIN meant'
  <2>1. \A j \in DOMAIN pending[c] : pending[c][j].ids[1] \in DOMAIN meant'
    BY <1>5 DEF Books
  <2>2. \A i \in DOMAIN pending'[c] : \E j \in DOMAIN pending[c] : pending'[c][i] = pending[c][j]
    BY <1>3, <1>4
  <2>. QED
    BY <2>1, <2>2
<1>7. call'[c].id \in DOMAIN meant'
  BY <1>3, <1>5 DEF Books
<1>8. pc' \in [Client -> Points]
  BY <1>2 DEF Points
<1>. QED
  BY <1>3, <1>5, <1>6, <1>7, <1>8, BooksStep

LEMMA SyncedBooks ==
    ASSUME IInv, Calls, Books, NEW c \in Client, Synced(c)
    PROVE  Books'
<1>. DEFINE r == call[c]
            n == Len(meant)
<1>1. /\ pc[c] = "wait sync" /\ Return(c) /\ pending' = pending /\ stamp' = stamp
      /\ timedOut' \in BOOLEAN /\ refused' \in BOOLEAN
      /\ meant \in Seq(Nat) /\ n \in Nat
  <2>1. /\ pc[c] = "wait sync" /\ Return(c) /\ pending' = pending /\ stamp' = stamp
        /\ timedOut' = timedOut /\ refused' = refused
    BY DEF Synced, bounds
  <2>2. timedOut \in BOOLEAN /\ refused \in BOOLEAN /\ meant \in Seq(Nat)
    BY DEF Books
  <2>3. n \in Nat
    BY <2>2
  <2>. QED
    BY <2>1, <2>2, <2>3
<1>2. FormedCall(r, "wait sync")
  BY <1>1 DEF Calls
<1>3. r.kind \in {"run", "wait", "batch", "chain"}
  BY <1>2 DEF FormedCall
<1>4. CASE r.kind \in {"run", "wait"}
  <2>1. owned' = [owned EXCEPT ![c] = @ \cup {r.id}] /\ UNCHANGED ids
    BY <1>4 DEF Synced
  <2>2. {r.id} \subseteq DOMAIN meant' /\ meant' \in Seq(Nat) /\ DOMAIN meant \subseteq DOMAIN meant'
        /\ DOMAIN resident' \subseteq DOMAIN meant'
    BY <1>1, <1>4, <2>1 DEF Books, ids
  <2>. QED
    BY <1>1, <2>1, <2>2, ReturnBooks
<1>5. ASSUME NEW bufs, NEW stamps, Sequence(bufs), stamps \in Seq(Nat), Issue(bufs, stamps),
             Len(bufs) \in 0 .. Len(stamps), Len(bufs) \in Nat,
             owned' = [owned EXCEPT ![c] = @ \cup ToSet(Issued(Len(bufs)))]
      PROVE  Books'
  <2>1. /\ meant' \in Seq(Nat) /\ DOMAIN meant \subseteq DOMAIN meant'
        /\ DOMAIN resident' \subseteq DOMAIN meant'
        /\ \A k \in 1 .. Len(bufs) : n + k \in DOMAIN meant'
    BY <1>5, IssueIs
  <2>2. ToSet(Issued(Len(bufs))) = {n + k : k \in 1 .. Len(bufs)}
    BY <1>1, <1>5, IssuedAre
  <2>. DEFINE S == ToSet(Issued(Len(bufs)))
  <2>3. S \subseteq DOMAIN meant' /\ owned' = [owned EXCEPT ![c] = @ \cup S]
    BY <1>5, <2>1, <2>2
  <2>. HIDE DEF S
  <2>. QED
    BY <1>1, <2>1, <2>3, ReturnBooks
<1>6. r.kind \in {"batch", "chain"} =>
        /\ r.work # <<>> /\ Sequence(r.work) /\ Sequence(r.outs) /\ Len(r.work) \in Nat
        /\ \A i \in DOMAIN r.work : r.work[i].stamp \in Nat
  <2>1. r.kind \in {"batch", "chain"} => r.work # <<>>
    BY <1>2 DEF FormedCall
  <2>2. /\ Sequence(r.work) /\ Sequence(r.outs)
        /\ \A i \in DOMAIN r.work : r.work[i].stamp \in Nat
    BY <1>2 DEF FormedCall
  <2>3. Len(r.work) \in Nat
    BY <2>2 DEF Sequence
  <2>. QED
    BY <2>1, <2>2, <2>3
<1>7. CASE r.kind = "batch"
  <2>1. owned' = [owned EXCEPT ![c] = @ \cup ToSet(Issued(Len(r.outs)))]
        /\ Issue(r.outs, Stamps(r.work))
    BY <1>7 DEF Synced
  <2>2. Stamps(r.work) \in Seq(Nat) /\ Len(Stamps(r.work)) = Len(r.work)
    BY <1>6, <1>7, StampsAre
  <2>3. Len(r.outs) = Len(r.work)
    BY <1>2, <1>7 DEF FormedCall, Nodewise
  <2>4. Len(r.outs) \in 0 .. Len(Stamps(r.work)) /\ Len(r.outs) \in Nat
    BY <1>6, <1>7, <2>2, <2>3
  <2>. QED
    BY <1>5, <1>6, <1>7, <2>1, <2>2, <2>4
<1>8. CASE r.kind = "chain"
  <2>. DEFINE a == r.outs[1]
              w == <<Last(r.work).stamp>>
  <2>1. owned' = [owned EXCEPT ![c] = @ \cup ToSet(Issued(1))] /\ Issue(<<a>>, w)
    BY <1>8 DEF Synced
  <2>2. Last(r.work).stamp \in Nat
    <3>1. PICK T : r.work \in Seq(T)
      BY <1>6, <1>8 DEF Sequence
    <3>2. Len(r.work) \in DOMAIN r.work /\ Last(r.work) = r.work[Len(r.work)]
      BY <1>6, <1>8, <3>1 DEF Last
    <3>. QED
      BY <1>6, <1>8, <3>2
  <2>3. w \in Seq(Nat) /\ Len(w) = 1
    <3>. HIDE DEF r
    <3>. QED
      BY <2>2
  <2>. HIDE DEF a, w
  <2>4. Sequence(<<a>>) /\ Len(<<a>>) = 1
    BY SingletonIs
  <2>5. Len(<<a>>) \in 0 .. Len(w) /\ Len(<<a>>) \in Nat
    BY <2>3, <2>4
  <2>6. owned' = [owned EXCEPT ![c] = @ \cup ToSet(Issued(Len(<<a>>)))]
    BY <2>1, <2>4
  <2>. QED
    BY <1>5, <2>1, <2>3, <2>4, <2>5, <2>6
<1>. QED
  BY <1>3, <1>4, <1>7, <1>8

LEMMA ClientBooks ==
    ASSUME IInv, Calls, Books, NEW c \in Client,
           \/ Begin(c) \/ BeginFetch(c) \/ BeginWait(c) \/ Release(c) \/ Relabel(c) \/ Continue(c)
    PROVE  Books'
<1>1. CASE Begin(c) \/ BeginFetch(c) \/ Acquire(c)
  BY <1>1, TakingBooks
<1>2. CASE BeginWait(c)
  BY <1>2, BeginWaitBooks
<1>3. CASE Release(c) \/ Relabel(c)
  <2>1. /\ UNCHANGED <<meant, pc, call, pending, owned, stamp, lock, timedOut, refused>>
        /\ DOMAIN resident' \subseteq DOMAIN resident
    BY <1>3 DEF Release, Relabel, slots, bounds
  <2>. QED
    BY <2>1 DEF Books
<1>4. CASE SlotFree(c) \/ RecordNode(c) \/ RecordChain(c) \/ RecordFetch(c) \/ TakeSync(c)
  BY <1>4, InsideBooks
<1>5. CASE \/ SlotWaitFails(c) \/ SyncFails(c) \/ ReadBack(c) \/ ReadFails(c)
           \/ RecordNodeFails(c) \/ RecordChainFails(c) \/ RecordFetchFails(c) \/ SubmitFails(c)
  BY <1>5, LeavingBooks
<1>6. CASE Submit(c)
  BY <1>6, SubmitBooks
<1>7. CASE Synced(c)
  BY <1>7, SyncedBooks
<1>. QED
  BY <1>1, <1>2, <1>3, <1>4, <1>5, <1>6, <1>7 DEF Continue

LEMMA BooksNext ==
    ASSUME IInv, Calls, Books, [Next]_vars
    PROVE  Books'
<1>1. CASE UNCHANGED vars
  BY <1>1 DEF vars, slots, ids, bounds, Books
<1>2. CASE DeviceRuns
  BY <1>2 DEF DeviceRuns, ids, bounds, Books
<1>3. CASE \E c \in Client : \/ Begin(c) \/ BeginFetch(c) \/ BeginWait(c)
                             \/ Release(c) \/ Relabel(c) \/ Continue(c)
  BY <1>3, ClientBooks
<1>. QED
  BY <1>1, <1>2, <1>3 DEF Next
-----------------------------------------------------------------------------
(***************************************************************************)
(* What device memory holds: stamps of dispatches that were recorded, or   *)
(* junk.                                                                   *)
(***************************************************************************)
Grows(m) == Sound(m) /\ Extends(Memory, m)

\* What a step of a client may do to it: lend more, holding junk.
Grown == Len(content') = Len(cap') /\ Extends(Memory, Memory')

LEMMA RecycleAllKeeps ==
    ASSUME NEW m \in Memories, NEW bs \in Seq(Buffers)
    PROVE  /\ RecycleAll(m, bs) \in Memories /\ RecycleAll(m, bs).content = m.content
           /\ RecycleAll(m, bs).cap = m.cap
<1>1. PICK at \in [0 .. Len(bs) -> Memories] :
        /\ at[0] = m /\ RecycleAll(m, bs) = at[Len(bs)]
        /\ \A k \in 1 .. Len(bs) : at[k] = Recycle(at[k - 1], bs[k])
  BY RecycledInTurn
<1>. DEFINE S == {k \in Nat : k <= Len(bs) => at[k].content = m.content /\ at[k].cap = m.cap}
            n == Len(bs)
<1>2. n \in Nat /\ DOMAIN bs = 1 .. n /\ \A k \in 1 .. n : bs[k] \in Buffers
  OBVIOUS
<1>3. 0 \in S
  BY <1>1
<1>4. ASSUME NEW k \in Nat, k \in S PROVE k + 1 \in S
  <2>. SUFFICES ASSUME k + 1 <= n PROVE at[k + 1].content = m.content /\ at[k + 1].cap = m.cap
    OBVIOUS
  <2>1. k \in 0 .. n /\ k + 1 \in 1 .. n /\ (k + 1) - 1 = k
    BY <1>2
  <2>2. at[k] \in Memories /\ at[k].content = m.content /\ at[k].cap = m.cap
    BY <1>1, <1>4, <2>1
  <2>3. at[k + 1] = Recycle(at[k], bs[k + 1])
    BY <1>1, <2>1
  <2>4. bs[k + 1] \in Buffers
    BY <1>2, <2>1
  <2>5. /\ Recycle(at[k], bs[k + 1]).content = at[k].content
        /\ Recycle(at[k], bs[k + 1]).cap = at[k].cap
    BY <2>2, <2>4, RecycleType
  <2>. QED
    BY <2>2, <2>3, <2>5
<1>. HIDE DEF S
<1>5. Nat \subseteq S
  BY <1>3, <1>4, ByInduction
<1>6. n \in S /\ n \in 0 .. n
  BY <1>2, <1>5
<1>7. at[n].content = m.content /\ at[n].cap = m.cap /\ at[n] \in Memories
  BY <1>1, <1>2, <1>6 DEF S
<1>. QED
  BY <1>1, <1>7

\* Memory as it is, or with a stretch of junk.
LEMMA GrowsSame == Owners => Grows(Memory)
<1>. SUFFICES ASSUME Owners PROVE Grows(Memory)
  OBVIOUS
<1>1. Sound(Memory)
  BY DEF Owners
<1>2. Len(Memory.cap) \in Nat
  BY <1>1 DEF Sound, Memories
<1>. QED
  BY <1>1, <1>2 DEF Grows, Extends

LEMMA ExtendsFurther ==
    ASSUME NEW m, NEW n, NEW l, Extends(m, n), Extends(n, l),
           Len(m.cap) \in Nat, Len(n.cap) \in Nat, Len(l.cap) \in Nat
    PROVE  Extends(m, l)
<1>1. Len(m.cap) <= Len(l.cap) /\ 1 .. Len(m.cap) \subseteq 1 .. Len(n.cap)
  BY DEF Extends
<1>2. \A h \in 1 .. Len(m.cap) : l.cap[h] = m.cap[h] /\ l.content[h] = m.content[h]
  BY <1>1 DEF Extends
<1>3. \A h \in 1 .. Len(l.cap) : h \notin 1 .. Len(m.cap) => l.content[h] = Junk
  BY DEF Extends
<1>. QED
  BY <1>1, <1>2, <1>3 DEF Extends

LEMMA AllocateGrows ==
    ASSUME Owners, NEW m, Grows(m), NEW size \in CallSize
    PROVE  Grows(Allocate(m, size))
<1>. DEFINE n == Allocate(m, size)
<1>1. Sound(n) /\ Extends(m, n)
  BY AllocateIs DEF Grows
<1>. HIDE DEF n
<1>2. Len(Memory.cap) \in Nat /\ Len(m.cap) \in Nat /\ Len(n.cap) \in Nat
  BY <1>1 DEF Owners, Grows, Sound, Memories
<1>3. Grows(n)
  BY <1>1, <1>2, ExtendsFurther DEF Grows
<1>. QED
  BY <1>3 DEF n

LEMMA FailsGrows ==
    ASSUME NEW m, Grows(m), NEW size \in CallSize, NEW n \in AllocateFails(m, size)
    PROVE  Grows(n)
<1>1. Sound(n) /\ n.cap = m.cap /\ n.content = m.content
  BY FailingIs DEF Grows
<1>. QED
  BY <1>1 DEF Grows, Extends

\* Giving buffers back changes the contents of none.
LEMMA SetGrown ==
    ASSUME NEW m, Grows(m), NEW n, n.cap = m.cap, n.content = m.content, SetMemory(n)
    PROVE  Grown
<1>1. cap' = m.cap /\ content' = m.content
  BY DEF SetMemory
<1>2. Memory'.cap = m.cap /\ Memory'.content = m.content
  BY <1>1 DEF Memory
<1>3. Extends(Memory, Memory')
  BY <1>2 DEF Grows, Extends
<1>. QED
  BY <1>1, <1>3 DEF Grown, Grows, Sound

LEMMA GivenGrown ==
    ASSUME NEW m, Grows(m), NEW bs \in Seq(Buffers), SetMemory(RecycleAll(m, bs))
    PROVE  Grown
<1>1. RecycleAll(m, bs).content = m.content /\ RecycleAll(m, bs).cap = m.cap
  BY RecycleAllKeeps DEF Grows, Sound
<1>. QED
  BY <1>1, SetGrown

LEMMA AbandonGrown ==
    ASSUME Owners, NEW c \in Client, NEW m, Grows(m),
           NEW outs \in Seq(Buffers), Abandon(c, m, outs)
    PROVE  Grown
<1>1. call[c].scratch \in Seq(Buffers)
  BY DEF Owners, HandTidy, Neat
<1>. DEFINE bs == outs \o call[c].scratch
<1>2. bs \in Seq(Buffers)
  BY <1>1
<1>3. SetMemory(RecycleAll(m, bs))
  BY DEF Abandon
<1>. HIDE DEF bs
<1>. QED
  BY <1>2, <1>3, GivenGrown

\* What a call that records has in hand, and how large its buffers are.
LEMMA RecordingIs ==
    ASSUME Calls, Owners, NEW c \in Client, pc[c] = "record"
    PROVE  /\ Sound(Memory) /\ call[c].outs \in Seq(Buffers) /\ call[c].scratch \in Seq(Buffers)
           /\ call[c].kind # "fetch" => call[c].size \in CallSize
<1>1. OutsOf(c) = call[c].outs
  BY DEF OutsOf
<1>2. FormedCall(call[c], "record")
  BY DEF Calls
<1>3. call[c].kind # "fetch" => call[c].size \in CallSize
  BY <1>2 DEF FormedCall
<1>. QED
  BY <1>1, <1>3 DEF Owners, HandTidy, Neat

LEMMA RecordGrown ==
    ASSUME Calls, Owners, NEW c \in Client, RecordNode(c) \/ RecordChain(c)
    PROVE  Grown
<1>. DEFINE r == call[c]
            a == Allocate(Memory, r.size)
            b == Allocate(a, r.size)
            d == Allocate(b, r.size)
<1>1. pc[c] = "record" /\ r.kind # "fetch"
  BY DEF RecordNode, RecordChain
<1>2. Grows(Memory) /\ r.size \in CallSize
  BY <1>1, RecordingIs, GrowsSame
<1>3. Grows(a)
  BY <1>2, AllocateGrows
<1>4. Grows(b)
  BY <1>2, <1>3, AllocateGrows
<1>5. Grows(d)
  BY <1>2, <1>4, AllocateGrows
<1>6. SetMemory(a) \/ SetMemory(b) \/ SetMemory(d)
  BY DEF RecordNode, RecordChain
<1>. HIDE DEF a, b, d
<1>. QED
  BY <1>3, <1>4, <1>5, <1>6, SetGrown

LEMMA RecordFailsGrown ==
    ASSUME Calls, Owners, NEW c \in Client, RecordNodeFails(c) \/ RecordChainFails(c) \/ RecordFetchFails(c) \/ SubmitFails(c)
    PROVE  Grown
<1>. DEFINE r == call[c]
            m1 == Allocate(Memory, r.size)
            m2 == Allocate(m1, r.size)
            s == Allocated(Memory, r.size)
            host == NodeOf(c) = Host
            up == IF host THEN m1 ELSE Memory
            target == IF host THEN <<s>> ELSE <<>>
            begun == IF host THEN AllocateFails(Memory, r.size) ELSE {}
<1>1. pc[c] = "record"
  BY DEF RecordNodeFails, RecordChainFails, RecordFetchFails, SubmitFails, Recorded
<1>2. /\ Sound(Memory) /\ r.outs \in Seq(Buffers) /\ <<>> \in Seq(Buffers)
      /\ (r.kind # "fetch" => r.size \in CallSize) /\ Grows(Memory)
  BY <1>1, RecordingIs, GrowsSame
<1>3. ASSUME r.kind # "fetch"
      PROVE  /\ Grows(m1) /\ s \in Buffers /\ Grows(m2)
             /\ Grows(Allocate(m2, r.size))
  <2>1. Grows(m1)
    BY <1>2, <1>3, AllocateGrows
  <2>2. s \in Buffers
    BY <1>2, <1>3, AllocateIs DEF Good
  <2>. HIDE DEF m1
  <2>3. Grows(m2)
    BY <1>2, <1>3, <2>1, AllocateGrows
  <2>. HIDE DEF m2
  <2>. QED
    BY <1>2, <1>3, <2>1, <2>2, <2>3, AllocateGrows
<1>4. CASE RecordNodeFails(c)
  <2>1. r.kind # "fetch"
    BY <1>4 DEF RecordNodeFails
  <2>2. \/ \E m \in begun : Abandon(c, m, r.outs)
        \/ \E m \in AllocateFails(up, r.size) \cup {Allocate(up, r.size)} :
             Abandon(c, m, r.outs \o target)
    BY <1>4 DEF RecordNodeFails
  <2>3. Grows(up) /\ target \in Seq(Buffers)
    <3>1. CASE host
      <4>1. up = m1 /\ target = <<s>>
        BY <3>1
      <4>. HIDE DEF up, target, m1, s
      <4>2. <<s>> \in Seq(Buffers)
        BY <1>3, <2>1
      <4>. QED
        BY <1>3, <2>1, <4>1, <4>2
    <3>2. CASE ~host
      BY <1>2, <3>2
    <3>. QED
      BY <3>1, <3>2
  <2>4. \A m \in begun : m \in AllocateFails(Memory, r.size)
    OBVIOUS
  <2>. HIDE DEF begun, up, target
  <2>5. ASSUME NEW m \in begun, Abandon(c, m, r.outs)
        PROVE  Grown
    <3>1. Grows(m)
      BY <1>2, <2>1, <2>4, <2>5, FailsGrows
    <3>. QED
      BY <1>2, <2>5, <3>1, AbandonGrown
  <2>6. ASSUME NEW m \in AllocateFails(up, r.size) \cup {Allocate(up, r.size)},
               Abandon(c, m, r.outs \o target)
        PROVE  Grown
    <3>1. Grows(m)
      BY <1>2, <2>1, <2>3, <2>6, FailsGrows, AllocateGrows
    <3>. DEFINE o == r.outs \o target
    <3>2. o \in Seq(Buffers)
      BY <1>2, <2>3
    <3>3. Abandon(c, m, o)
      BY <2>6
    <3>. HIDE DEF o
    <3>. QED
      BY <3>1, <3>2, <3>3, AbandonGrown
  <2>. QED
    BY <2>2, <2>5, <2>6
<1>5. CASE RecordChainFails(c)
  <2>1. r.kind # "fetch"
    BY <1>5 DEF RecordChainFails
  <2>2. \/ \E m \in AllocateFails(Memory, r.size) : Abandon(c, m, <<>>)
        \/ \E m \in AllocateFails(m1, r.size) \cup AllocateFails(m2, r.size)
                 \cup {Allocate(m2, r.size)} : Abandon(c, m, <<s>>)
    BY <1>5 DEF RecordChainFails
  <2>3. /\ Grows(m1) /\ s \in Buffers /\ Grows(m2)
        /\ Grows(Allocate(m2, r.size))
    BY <1>3, <2>1
  <2>. HIDE DEF m1, m2, s
  <2>4. <<s>> \in Seq(Buffers)
    BY <2>3
  <2>5. ASSUME NEW m \in AllocateFails(Memory, r.size), Abandon(c, m, <<>>)
        PROVE  Grown
    <3>1. Grows(m)
      BY <1>2, <2>1, FailsGrows
    <3>. QED
      BY <1>2, <2>5, <3>1, AbandonGrown
  <2>6. ASSUME NEW m \in AllocateFails(m1, r.size) \cup AllocateFails(m2, r.size)
                           \cup {Allocate(m2, r.size)}, Abandon(c, m, <<s>>)
        PROVE  Grown
    <3>1. Grows(m)
      BY <1>2, <2>1, <2>3, <2>6, FailsGrows
    <3>. QED
      BY <2>4, <2>6, <3>1, AbandonGrown
  <2>. QED
    BY <2>2, <2>5, <2>6
<1>6. CASE RecordFetchFails(c) \/ SubmitFails(c)
  <2>1. Abandon(c, Memory, <<>>)
    BY <1>6 DEF RecordFetchFails, SubmitFails
  <2>. QED
    BY <1>2, <2>1, AbandonGrown
<1>. QED
  BY <1>4, <1>5, <1>6

LEMMA SettledGrown ==
    ASSUME Calls, Owners, NEW c \in Client, Synced(c) \/ SyncFails(c) \/ Release(c)
    PROVE  Grown
<1>. DEFINE r == call[c]
<1>1. /\ Sound(Memory) /\ r.scratch \in Seq(Buffers) /\ OutsOf(c) \in Seq(Buffers)
      /\ \A id \in DOMAIN resident : Good(resident[id], Memory)
      /\ Grows(Memory)
  BY GrowsSame DEF Owners, HandTidy, Neat, TableTidy
<1>2. CASE Synced(c)
  <2>1. FormedCall(r, "wait sync")
    BY <1>2 DEF Synced, Calls
  <2>2. CASE r.kind \in {"run", "wait", "batch"}
    <3>1. SetMemory(RecycleAll(Memory, r.scratch))
      BY <1>2, <2>2 DEF Synced
    <3>. QED
      BY <1>1, <3>1, GivenGrown
  <2>3. CASE r.kind = "chain"
    <3>1. SetMemory(RecycleAll(Memory, <<r.outs[2]>> \o r.scratch))
      BY <1>2, <2>3 DEF Synced, Spare
    <3>2. OutsOf(c) = r.outs
      BY <2>3 DEF OutsOf
    <3>3. Len(r.outs) = 2
      <4>1. pc[c] = "wait sync"
        BY <1>2 DEF Synced
      <4>. QED
        BY <2>1, <2>3 DEF FormedCall
    <3>4. r.outs[2] \in Buffers
      BY <1>1, <3>2, <3>3
    <3>. DEFINE bs == <<r.outs[2]>> \o r.scratch
    <3>5. bs \in Seq(Buffers)
      BY <1>1, <3>4
    <3>6. SetMemory(RecycleAll(Memory, bs))
      BY <3>1
    <3>. HIDE DEF bs
    <3>. QED
      BY <1>1, <3>5, <3>6, GivenGrown
  <2>. QED
    BY <2>1, <2>2, <2>3 DEF FormedCall
<1>3. CASE SyncFails(c)
  <2>1. SetMemory(Memory) \/ SetMemory(RecycleAll(Memory, r.scratch))
    BY <1>3 DEF SyncFails
  <2>2. CASE SetMemory(Memory)
    BY <1>1, <2>2, SetGrown
  <2>3. CASE SetMemory(RecycleAll(Memory, r.scratch))
    BY <1>1, <2>3, GivenGrown
  <2>. QED
    BY <2>1, <2>2, <2>3
<1>4. CASE Release(c)
  <2>1. PICK id \in DOMAIN resident : SetMemory(Recycle(Memory, resident[id]))
    BY <1>4 DEF Release
  <2>2. /\ Recycle(Memory, resident[id]).content = Memory.content
        /\ Recycle(Memory, resident[id]).cap = Memory.cap
    BY <1>1, RecycleIs
  <2>. QED
    BY <1>1, <2>1, <2>2, SetGrown
<1>. QED
  BY <1>2, <1>3, <1>4

LEMMA GrownWithin ==
    ASSUME Owners, stamp \in Nat, \A h \in DOMAIN content : content[h] \in 0 .. stamp, Grown
    PROVE  \A h \in DOMAIN content' : content'[h] \in 0 .. stamp
<1>1. /\ Memory.cap = cap /\ Memory.content = content
      /\ Memory'.cap = cap' /\ Memory'.content = content'
  BY DEF Memory
<1>2. DOMAIN content = 1 .. Len(cap) /\ DOMAIN content' = 1 .. Len(cap') /\ Junk \in 0 .. stamp
  <2>1. Sound(Memory) /\ Extends(Memory, Memory') /\ Len(content') = Len(cap')
    BY DEF Owners, Grown
  <2>. QED
    BY <1>1, <2>1 DEF Sound, Memories, Junk
<1>3. /\ \A h \in 1 .. Len(cap) : content'[h] = content[h]
      /\ \A h \in 1 .. Len(cap') : h \notin 1 .. Len(cap) => content'[h] = Junk
  BY <1>1 DEF Grown, Extends
<1>. QED
  BY <1>2, <1>3
-----------------------------------------------------------------------------
(***************************************************************************)
(* The staging blocks.  A dispatch that uploads finds a stamp in the block *)
(* it was recorded for, while it is recorded and while it is queued.       *)
(***************************************************************************)
Staging(r, blocks, V) ==
  /\ WorkFits(blocks, r.work, V)
  /\ r.kind \in Nodewise =>
       /\ \A k \in 1 .. r.blocks : blocks[k] \in V
       /\ \A i \in DOMAIN r.work : r.work[i].up \in 0 .. r.blocks

Staged ==
  /\ DOMAIN staging = Slots
  /\ \A h \in DOMAIN content : content[h] \in 0 .. stamp
  /\ \A k \in DOMAIN queue : ~queue[k].fetch =>
       Sequence(queue[k].work) /\ WorkFits(staging[queue[k].slot], queue[k].work, 0 .. stamp)
  /\ \A c \in Client : pc[c] = "record" => Staging(call[c], staging[call[c].slot], 0 .. stamp)

LEMMA FitsMore ==
    ASSUME NEW V, NEW W, V \subseteq W
    PROVE  /\ \A blocks, work : WorkFits(blocks, work, V) => WorkFits(blocks, work, W)
           /\ \A r, blocks : Staging(r, blocks, V) => Staging(r, blocks, W)
<1>1. \A blocks, work : WorkFits(blocks, work, V) => WorkFits(blocks, work, W)
  BY DEF WorkFits
<1>. QED
  BY <1>1 DEF Staging

\* A step of one client that leaves the queue and the staging alone.
LEMMA StagedStep ==
    ASSUME Staged, NEW c \in Client, UNCHANGED <<staging, queue, stamp>>,
           \A d \in Client \ {c} : call'[d] = call[d] /\ pc'[d] = pc[d],
           \A h \in DOMAIN content' : content'[h] \in 0 .. stamp,
           pc'[c] = "record" => Staging(call'[c], staging[call'[c].slot], 0 .. stamp)
    PROVE  Staged'
  BY DEF Staged

LEMMA NothingStaged ==
    ASSUME NEW r, NEW blocks, NEW V, r.work = <<>>, r.blocks = 0
    PROVE  Staging(r, blocks, V)
<1>1. DOMAIN r.work = {}
  BY EmptyIs
<1>2. 1 .. r.blocks = {}
  OBVIOUS
<1>. QED
  BY <1>1, <1>2 DEF Staging, WorkFits

LEMMA TakeStaged ==
    ASSUME IInv, Staged, NEW c \in Client, NEW r, Take(c, r), DOMAIN r = DOMAIN Idle,
           r.work = <<>>, r.blocks = 0, UNCHANGED <<queue, memory, stamp>>
    PROVE  Staged'
<1>1. DOMAIN call = Client /\ DOMAIN pc = Client
  BY DEF IInv, Shaped
<1>2. /\ call' = [call EXCEPT ![c] = [r EXCEPT !.slot = cursor]] /\ staging' = staging
      /\ \/ pc' = [pc EXCEPT ![c] = "wait slot"]
         \/ pc' = [pc EXCEPT ![c] = "record"]
  BY DEF Take
<1>3. call'[c].work = <<>> /\ call'[c].blocks = 0
  BY <1>1, <1>2, IdleIs
<1>4. \A d \in Client \ {c} : call'[d] = call[d] /\ pc'[d] = pc[d]
  BY <1>1, <1>2
<1>5. Staging(call'[c], staging[call'[c].slot], 0 .. stamp)
  BY <1>3, NothingStaged
<1>6. \A h \in DOMAIN content' : content'[h] \in 0 .. stamp
  BY DEF Staged, memory
<1>. QED
  BY <1>2, <1>4, <1>5, <1>6, StagedStep

LEMMA TakingStaged ==
    ASSUME IInv, Calls, Staged, NEW c \in Client, Begin(c) \/ Acquire(c)
    PROVE  Staged'
<1>1. CASE Begin(c)
  <2>1. PICK r \in Requests(c), size \in CallSize :
          Take(c, [Idle EXCEPT !.kind = r.kind, !.nodes = r.nodes, !.size = size])
    BY <1>1 DEF Begin
  <2>. DEFINE q == [Idle EXCEPT !.kind = r.kind, !.nodes = r.nodes, !.size = size]
  <2>2. DOMAIN q = DOMAIN Idle /\ q.work = <<>> /\ q.blocks = 0
    BY IdleIs
  <2>3. Take(c, q)
    BY <2>1
  <2>4. UNCHANGED <<queue, memory, stamp>>
    BY <1>1 DEF Begin
  <2>. HIDE DEF q
  <2>. QED
    BY <2>2, <2>3, <2>4, TakeStaged
<1>2. CASE Acquire(c)
  <2>1. pc[c] = "acquire" /\ Take(c, call[c]) /\ UNCHANGED <<queue, memory, stamp>>
    BY <1>2 DEF Acquire
  <2>2. FormedCall(call[c], "acquire")
    BY <2>1 DEF Calls
  <2>3. DOMAIN call[c] = DOMAIN Idle /\ call[c].work = <<>> /\ call[c].blocks = 0
    BY <2>2 DEF FormedCall
  <2>. QED
    BY <2>1, <2>3, TakeStaged
<1>. QED
  BY <1>1, <1>2

\* Steps that leave the queue, the staging and the memory alone.
LEMMA QuietStaged ==
    ASSUME IInv, Calls, Books, Staged, NEW c \in Client,
           \/ BeginFetch(c) \/ BeginWait(c) \/ SlotFree(c) \/ TakeSync(c) \/ RecordFetch(c)
           \/ SlotWaitFails(c) \/ ReadBack(c) \/ ReadFails(c) \/ Relabel(c)
    PROVE  Staged'
<1>1. DOMAIN call = Client /\ DOMAIN pc = Client
  BY DEF IInv, Shaped
<1>2. UNCHANGED <<staging, queue, stamp, content>>
  BY DEF BeginFetch, BeginWait, SlotFree, TakeSync, RecordFetch, SlotWaitFails, ReadBack,
         ReadFails, Relabel, memory, slots
<1>3. \A h \in DOMAIN content' : content'[h] \in 0 .. stamp
  BY <1>2 DEF Staged
<1>4. \A d \in Client \ {c} : call'[d] = call[d] /\ pc'[d] = pc[d]
  <2>1. CASE BeginFetch(c) \/ BeginWait(c)
    BY <1>1, <2>1 DEF BeginFetch, BeginWait
  <2>2. CASE SlotFree(c) \/ TakeSync(c) \/ RecordFetch(c) \/ Relabel(c)
    BY <1>1, <2>2 DEF SlotFree, TakeSync, RecordFetch, Relabel
  <2>3. CASE SlotWaitFails(c) \/ ReadBack(c) \/ ReadFails(c)
    <3>1. Return(c)
      BY <2>3 DEF SlotWaitFails, ReadBack, ReadFails
    <3>. QED
      BY <3>1, ReturnIs
  <2>. QED
    BY <2>1, <2>2, <2>3
<1>5. pc'[c] = "record" => Staging(call'[c], staging[call'[c].slot], 0 .. stamp)
  <2>1. CASE BeginFetch(c) \/ BeginWait(c) \/ TakeSync(c)
    BY <1>1, <2>1 DEF BeginFetch, BeginWait, TakeSync
  <2>2. CASE SlotWaitFails(c) \/ ReadBack(c) \/ ReadFails(c)
    <3>1. Return(c)
      BY <2>2 DEF SlotWaitFails, ReadBack, ReadFails
    <3>. QED
      BY <3>1, ReturnIs
  <2>3. CASE Relabel(c)
    BY <2>3 DEF Relabel
  <2>4. CASE SlotFree(c)
    <3>1. pc[c] = "wait slot" /\ call' = call
      BY <2>4 DEF SlotFree
    <3>2. FormedCall(call[c], "wait slot")
      BY <3>1 DEF Calls
    <3>3. call[c].work = <<>> /\ call[c].blocks = 0
      BY <3>2 DEF FormedCall
    <3>. QED
      BY <3>1, <3>3, NothingStaged
  <2>5. CASE RecordFetch(c)
    <3>. DEFINE d == Dispatched(0, call[c].src, Junk, Junk, Junk)
    <3>1. call' = [call EXCEPT ![c].work = <<d>>] /\ call[c].kind = "fetch"
      BY <2>5 DEF RecordFetch
    <3>2. DOMAIN call[c] = DOMAIN Idle
      BY DEF Calls, FormedCall
    <3>3. call'[c].work = <<d>> /\ call'[c].kind = "fetch"
      BY <1>1, <3>1, <3>2, IdleIs
    <3>4. d.up = 0 /\ d.stamp = 0
      BY DEF Dispatched, Junk
    <3>5. DOMAIN <<d>> = {1} /\ <<d>>[1] = d
      OBVIOUS
    <3>. HIDE DEF d
    <3>6. 0 \in 0 .. stamp /\ \A b : WorkFits(b, <<d>>, 0 .. stamp)
      <4>1. 0 \in 0 .. stamp
        <5>1. stamp \in Nat
          BY DEF Books
        <5>. QED
          BY <5>1
      <4>. QED
        BY <3>4, <3>5, <4>1 DEF WorkFits
    <3>. QED
      BY <3>3, <3>6 DEF Staging, Nodewise
  <2>. QED
    BY <2>1, <2>2, <2>3, <2>4, <2>5
<1>. QED
  BY <1>2, <1>3, <1>4, <1>5, StagedStep

\* Only the holder of the lock records.
LEMMA OneRecords ==
    ASSUME IInv, NEW c \in Client, pc[c] = "record"
    PROVE  /\ \A d \in Client \ {c} : pc[d] # "record"
           /\ ~InFlight(call[c].slot) /\ call[c].slot \in Slots
<1>1. \A d \in Client : pc[d] = "record" => lock = d
  BY DEF IInv, LockHolds, Holding
<1>. QED
  BY <1>1 DEF IInv, SlotsIdle, Shaped

\* The recorder writes its slot's staging, and the stamps grow.
LEMMA RecorderStaged ==
    ASSUME IInv, Staged, stamp \in Nat, NEW c \in Client, pc[c] = "record",
           stamp' \in Nat, stamp <= stamp', queue' = queue,
           NEW blocks, staging' = [staging EXCEPT ![call[c].slot] = blocks] \/ staging' = staging,
           \A d \in Client \ {c} : call'[d] = call[d] /\ pc'[d] = pc[d],
           \A h \in DOMAIN content' : content'[h] \in 0 .. stamp,
           pc'[c] = "record" => Staging(call'[c], staging'[call'[c].slot], 0 .. stamp')
    PROVE  Staged'
<1>1. 0 .. stamp \subseteq 0 .. stamp'
  OBVIOUS
<1>2. /\ \A d \in Client \ {c} : pc[d] # "record"
      /\ ~InFlight(call[c].slot) /\ call[c].slot \in Slots
  BY OneRecords
<1>3. DOMAIN staging' = Slots
  BY DEF Staged
<1>4. \A h \in DOMAIN content' : content'[h] \in 0 .. stamp'
  BY <1>1
<1>5. ASSUME NEW k \in DOMAIN queue, ~queue[k].fetch
      PROVE  Sequence(queue[k].work) /\ WorkFits(staging'[queue[k].slot], queue[k].work, 0 .. stamp')
  <2>1. queue[k].slot # call[c].slot /\ queue[k].slot \in Slots /\ DOMAIN staging = Slots
    BY <1>2 DEF InFlight, IInv, Shaped, Staged
  <2>2. staging'[queue[k].slot] = staging[queue[k].slot]
    BY <2>1
  <2>3. Sequence(queue[k].work) /\ WorkFits(staging[queue[k].slot], queue[k].work, 0 .. stamp)
    BY <1>5 DEF Staged
  <2>. QED
    BY <1>1, <2>2, <2>3, FitsMore
<1>6. ASSUME NEW d \in Client, pc'[d] = "record"
      PROVE  Staging(call'[d], staging'[call'[d].slot], 0 .. stamp')
  BY <1>2, <1>6
<1>. QED
  BY <1>3, <1>4, <1>5, <1>6 DEF Staged

LEMMA RecordNodeStaged ==
    ASSUME IInv, Calls, Books, Owners, Staged, NEW c \in Client, RecordNode(c)
    PROVE  Staged'
<1>. DEFINE r == call[c]
            host == NodeOf(c) = Host
            up == IF host THEN Allocate(Memory, r.size) ELSE Memory
            src == CASE host -> Allocated(Memory, r.size).h
                     [] NodeOf(c).from = "id" -> resident[NodeOf(c).at].h
                     [] NodeOf(c).from = "out" -> r.outs[NodeOf(c).at].h
            want == CASE host -> stamp + 1
                      [] NodeOf(c).from = "id" -> meant[NodeOf(c).at]
                      [] NodeOf(c).from = "out" -> r.work[NodeOf(c).at].stamp
            at == IF host THEN NextBlock(r) ELSE 0
            o == Allocated(up, r.size)
            s == IF host THEN <<Buffer(src, r.size)>> ELSE <<>>
            d == Dispatched(at, src, want, o.h, stamp + 1)
            n == IF host THEN r.blocks + 1 ELSE r.blocks
            old == staging[r.slot]
            new == PutBlock(old, at, stamp + 1)
            V == 0 .. stamp'
<1>1. /\ call' = [call EXCEPT ![c].work = Append(@, d), ![c].scratch = @ \o s,
                              ![c].outs = Append(@, o), ![c].blocks = n]
      /\ pc[c] = "record" /\ r.kind \in Nodewise /\ pc' = pc /\ queue' = queue
      /\ stamp' = stamp + 1
      /\ staging' = IF host THEN [staging EXCEPT ![r.slot] = PutBlock(@, at, stamp + 1)]
                            ELSE staging
  BY DEF RecordNode, Nodewise
<1>2. FormedCall(r, "record") /\ DOMAIN call = Client /\ stamp \in Nat
  BY <1>1 DEF Calls, IInv, Shaped, Books
<1>3. DOMAIN r = DOMAIN Idle /\ Sequence(r.work) /\ r.blocks \in Nat
  BY <1>2 DEF FormedCall
<1>4. d.up = at /\ d.stamp = stamp + 1 /\ at = (IF host THEN r.blocks + 1 ELSE 0)
  BY DEF Dispatched, NextBlock
<1>5. staging' = IF host THEN [staging EXCEPT ![r.slot] = new] ELSE staging
  BY <1>1
<1>6. /\ r.slot \in Slots /\ DOMAIN staging = Slots
      /\ Staging(r, old, 0 .. stamp)
  BY <1>1, OneRecords DEF Staged
<1>7. \A h \in DOMAIN content' : content'[h] \in 0 .. stamp
  BY <1>2, RecordGrown, GrownWithin DEF Staged
<1>8. /\ call'[c].work = Append(r.work, d) /\ call'[c].blocks = n /\ call'[c].kind = r.kind
      /\ call'[c].slot = r.slot
      /\ \A e \in Client \ {c} : call'[e] = call[e] /\ pc'[e] = pc[e]
  BY <1>1, <1>2, <1>3, IdleIs
<1>9. host => \A k \in 1 .. n : new[k] = IF k = at THEN stamp + 1 ELSE old[k]
  BY <1>3, <1>4 DEF PutBlock
<1>. HIDE DEF d, o, s, up, src, want, old, new, host, at
<1>10. stamp' \in Nat /\ stamp <= stamp' /\ 0 .. stamp \subseteq V /\ stamp + 1 \in V
  BY <1>1, <1>2
<1>. HIDE DEF V, n, r
<1>11. staging'[r.slot] = IF host THEN new ELSE old
  BY <1>5, <1>6 DEF old
<1>. DEFINE b == staging'[r.slot]
<1>12. /\ n \in Nat /\ r.blocks <= n /\ at \in 0 .. n
       /\ \A k \in 1 .. r.blocks : b[k] = old[k]
       /\ \A k \in 1 .. n : k \in 1 .. r.blocks \/ b[k] = stamp + 1
       /\ at = 0 \/ b[at] = stamp + 1
  <2>1. CASE host
    <3>1. n = r.blocks + 1 /\ at = n /\ b = new
      BY <1>4, <1>11, <2>1 DEF n
    <3>. HIDE DEF b
    <3>2. \A k \in 1 .. n : b[k] = IF k = n THEN stamp + 1 ELSE old[k]
      BY <1>9, <2>1, <3>1
    <3>3. n \in Nat /\ r.blocks <= n /\ at \in 0 .. n /\ n \in 1 .. n
      BY <1>3, <3>1
    <3>4. \A k \in 1 .. r.blocks : k \in 1 .. n /\ k # n
      BY <1>3, <3>1
    <3>5. \A k \in 1 .. n : k \in 1 .. r.blocks \/ k = n
      BY <1>3, <3>1
    <3>. QED
      BY <3>1, <3>2, <3>3, <3>4, <3>5
  <2>2. CASE ~host
    <3>1. n = r.blocks /\ at = 0 /\ b = old
      BY <1>4, <1>11, <2>2 DEF n
    <3>. HIDE DEF b
    <3>. QED
      BY <1>3, <3>1
  <2>. QED
    BY <2>1, <2>2
<1>. HIDE DEF b
<1>13. /\ \A k \in 1 .. r.blocks : old[k] \in 0 .. stamp
       /\ \A i \in DOMAIN r.work : r.work[i].up \in 0 .. r.blocks
       /\ WorkFits(old, r.work, 0 .. stamp)
  BY <1>1, <1>6 DEF Staging
<1>14. \A k \in 1 .. n : b[k] \in V
  BY <1>10, <1>12, <1>13
<1>. DEFINE w == Append(r.work, d)
<1>15. \A i \in DOMAIN w : \/ i \in DOMAIN r.work /\ w[i] = r.work[i]
                           \/ w[i] = d
  BY <1>3, AppendIs
<1>. HIDE DEF w
<1>16. ASSUME NEW i \in DOMAIN w
       PROVE  w[i].up \in 0 .. n /\ w[i].stamp \in V /\ (w[i].up = 0 \/ b[w[i].up] \in V)
  <2>1. CASE i \in DOMAIN r.work /\ w[i] = r.work[i]
    <3>1. w[i].up \in 0 .. r.blocks /\ w[i].stamp \in 0 .. stamp
      BY <1>13, <2>1 DEF WorkFits
    <3>2. w[i].up \in 0 .. n
      BY <1>3, <1>12, <3>1
    <3>3. w[i].up = 0 \/ w[i].up \in 1 .. n
      BY <1>12, <3>2
    <3>. QED
      BY <1>10, <1>14, <3>1, <3>2, <3>3
  <2>2. CASE w[i] = d
    BY <1>4, <1>10, <1>12, <2>2
  <2>. QED
    BY <1>15, <2>1, <2>2
<1>17. Staging(call'[c], staging'[call'[c].slot], V)
  <2>1. call'[c].work = w /\ call'[c].blocks = n /\ staging'[call'[c].slot] = b
    BY <1>8 DEF w, b
  <2>. QED
    BY <1>14, <1>16, <2>1 DEF Staging, WorkFits
<1>18. staging' = [staging EXCEPT ![call[c].slot] = new] \/ staging' = staging
  BY <1>5 DEF r
<1>. QED
  BY <1>1, <1>2, <1>7, <1>8, <1>10, <1>17, <1>18, RecorderStaged DEF V

LEMMA RecordChainStaged ==
    ASSUME IInv, Calls, Books, Owners, Staged, NEW c \in Client, RecordChain(c)
    PROVE  Staged'
<1>. DEFINE r == call[c]
            n == Len(r.nodes)
            m1 == Allocate(Memory, r.size)
            m2 == Allocate(m1, r.size)
            s == Allocated(Memory, r.size)
            a == Allocated(m1, r.size)
            b == Allocated(m2, r.size)
            o == IF n % 2 = 1 THEN <<a, b>> ELSE <<b, a>>
            w == ChainLinks(s, a, b, stamp, n)
            old == staging[r.slot]
            new == PutBlock(old, 1, stamp + 1)
            V == 0 .. stamp'
<1>1. /\ pc[c] = "record" /\ r.kind = "chain" /\ r.work = <<>> /\ pc' = pc /\ queue' = queue
      /\ call' = [call EXCEPT ![c].work = w, ![c].scratch = <<s>>, ![c].outs = o]
      /\ staging' = [staging EXCEPT ![r.slot] = PutBlock(@, 1, stamp + 1)]
      /\ stamp' = stamp + n
  BY DEF RecordChain
<1>2. FormedCall(r, "record") /\ DOMAIN call = Client /\ stamp \in Nat
  BY <1>1 DEF Calls, IInv, Shaped, Books
<1>3. DOMAIN r = DOMAIN Idle /\ n \in Nat \ {0}
  BY <1>1, <1>2 DEF FormedCall
<1>4. r.slot \in Slots /\ DOMAIN staging = Slots
  BY <1>1, OneRecords DEF Staged
<1>5. \A h \in DOMAIN content' : content'[h] \in 0 .. stamp
  BY <1>2, RecordGrown, GrownWithin DEF Staged
<1>6. /\ DOMAIN w = 1 .. n
      /\ \A i \in 1 .. n : w[i].stamp = stamp + i /\ w[i].up = IF i = 1 THEN 1 ELSE 0
  BY <1>2, <1>3, LinksIs
<1>7. staging' = [staging EXCEPT ![r.slot] = new]
  BY <1>1
<1>8. new[1] = stamp + 1
  BY DEF PutBlock
<1>. HIDE DEF w, o, s, new, n
<1>9. /\ call'[c].work = w /\ call'[c].kind = "chain" /\ call'[c].slot = r.slot
      /\ \A e \in Client \ {c} : call'[e] = call[e] /\ pc'[e] = pc[e]
  BY <1>1, <1>2, <1>3, IdleIs
<1>10. /\ stamp' \in Nat /\ stamp <= stamp' /\ stamp + 1 \in V
       /\ \A i \in 1 .. n : stamp + i \in V
  BY <1>1, <1>2, <1>3
<1>. HIDE DEF V
<1>11. staging'[r.slot] = new
  BY <1>4, <1>7
<1>12. WorkFits(new, w, V)
  <2>. SUFFICES ASSUME NEW i \in DOMAIN w
                PROVE  w[i].stamp \in V /\ (w[i].up = 0 \/ new[w[i].up] \in V)
    BY DEF WorkFits
  <2>. QED
    BY <1>6, <1>8, <1>10
<1>13. Staging(call'[c], staging'[call'[c].slot], V)
  <2>1. call'[c].kind \notin Nodewise
    BY <1>9 DEF Nodewise
  <2>. QED
    BY <1>9, <1>11, <1>12, <2>1 DEF Staging
<1>. QED
  BY <1>1, <1>2, <1>5, <1>7, <1>9, <1>10, <1>13, RecorderStaged DEF V

LEMMA SubmitStaged ==
    ASSUME IInv, Calls, Staged, NEW c \in Client, Submit(c)
    PROVE  Staged'
<1>. DEFINE r == call[c]
            e == [slot |-> r.slot, fetch |-> r.kind = "fetch", work |-> r.work]
<1>1. /\ pc[c] = "record" /\ queue' = Append(queue, e)
      /\ UNCHANGED <<staging, stamp, memory>>
      /\ \/ Return(c)
         \/ /\ r.kind = "submit" \/ pc' = [pc EXCEPT ![c] = IF r.kind = "fetch" THEN "wait read" ELSE "sync"]
            /\ r.kind # "submit"
            /\ call' = call \/ call' = [call EXCEPT ![c].id = Len(meant) + 1]
  BY DEF Submit, Recorded
<1>2. DOMAIN call = Client /\ DOMAIN pc = Client /\ Sequence(queue)
  BY DEF IInv, Shaped
<1>3. /\ pc'[c] # "record" /\ \A d \in Client \ {c} : call'[d] = call[d] /\ pc'[d] = pc[d]
  BY <1>1, <1>2, ReturnIs
<1>4. FormedCall(r, "record") /\ Staging(r, staging[r.slot], 0 .. stamp)
  BY <1>1 DEF Calls, Staged
<1>5. Sequence(e.work) /\ WorkFits(staging[e.slot], e.work, 0 .. stamp)
  BY <1>4 DEF FormedCall, Staging
<1>. HIDE DEF e
<1>6. \A k \in DOMAIN queue' : queue'[k] = e \/ (k \in DOMAIN queue /\ queue'[k] = queue[k])
  <2>. DEFINE q == Append(queue, e)
  <2>1. /\ DOMAIN q = DOMAIN queue \cup {Len(queue) + 1}
        /\ \A k \in DOMAIN queue : q[k] = queue[k]
        /\ q[Len(queue) + 1] = e
    BY <1>2, AppendIs
  <2>2. queue' = q
    BY <1>1
  <2>. HIDE DEF q
  <2>3. \A k \in DOMAIN q : q[k] = e \/ (k \in DOMAIN queue /\ q[k] = queue[k])
    BY <2>1
  <2>. QED
    BY <2>2, <2>3
<1>7. \A k \in DOMAIN queue' : ~queue'[k].fetch =>
        Sequence(queue'[k].work) /\ WorkFits(staging[queue'[k].slot], queue'[k].work, 0 .. stamp)
  <2>. SUFFICES ASSUME NEW k \in DOMAIN queue', ~queue'[k].fetch
                PROVE  /\ Sequence(queue'[k].work)
                       /\ WorkFits(staging[queue'[k].slot], queue'[k].work, 0 .. stamp)
    OBVIOUS
  <2>1. CASE queue'[k] = e
    BY <1>5, <2>1
  <2>2. CASE k \in DOMAIN queue /\ queue'[k] = queue[k]
    BY <2>2 DEF Staged
  <2>. QED
    BY <1>6, <2>1, <2>2
<1>8. staging' = staging /\ stamp' = stamp /\ content' = content
  BY <1>1 DEF memory
<1>9. \A d \in Client : pc'[d] = "record" =>
        Staging(call'[d], staging[call'[d].slot], 0 .. stamp)
  BY <1>3 DEF Staged
<1>. HIDE DEF r
<1>. QED
  BY <1>7, <1>8, <1>9 DEF Staged

\* A call ends; its memory is given back.
LEMMA EndingStaged ==
    ASSUME IInv, Calls, Books, Owners, Staged, NEW c \in Client,
           \/ RecordNodeFails(c) \/ RecordChainFails(c) \/ RecordFetchFails(c) \/ SubmitFails(c)
           \/ Synced(c) \/ SyncFails(c)
    PROVE  Staged'
<1>1. Return(c) /\ UNCHANGED <<staging, queue, stamp>>
  BY DEF RecordNodeFails, RecordChainFails, RecordFetchFails, SubmitFails, Synced, SyncFails, Abandon
<1>2. /\ call'[c] = Idle /\ pc'[c] = "idle"
      /\ \A d \in Client \ {c} : call'[d] = call[d] /\ pc'[d] = pc[d]
  BY <1>1, ReturnIs
<1>3. Grown
  BY RecordFailsGrown, SettledGrown
<1>4. \A h \in DOMAIN content' : content'[h] \in 0 .. stamp
  BY <1>3, GrownWithin DEF Staged, Books
<1>. QED
  BY <1>1, <1>2, <1>4, StagedStep

LEMMA ReleaseStaged ==
    ASSUME IInv, Calls, Books, Owners, Staged, NEW c \in Client, Release(c)
    PROVE  Staged'
<1>1. UNCHANGED <<staging, queue, stamp, pc, call>>
  BY DEF Release, slots
<1>2. Grown
  BY SettledGrown
<1>3. \A h \in DOMAIN content' : content'[h] \in 0 .. stamp
  BY <1>2, GrownWithin DEF Staged, Books
<1>. QED
  BY <1>1, <1>3 DEF Staged

\* The device works on contents alone.
LEMMA DeviceContent ==
    ASSUME IInv, Books, Owners, Staged, DeviceRuns
    PROVE  /\ content' \in Seq(Nat) /\ Len(content') = Len(content)
           /\ \A h \in DOMAIN content' : content'[h] \in 0 .. stamp
<1>. DEFINE s == Head(queue)
            V == 0 .. stamp
            D == 1 .. Len(content)
<1>1. stamp \in Nat /\ content \in Seq(Nat) /\ Len(content) \in Nat /\ DOMAIN content = D
  <2>1. stamp \in Nat /\ content \in Seq(Nat)
    BY DEF Books, Owners, Sound, Memories, Memory
  <2>. QED
    BY <2>1
<1>2. V \subseteq Nat /\ Junk \in V
  BY <1>1 DEF Junk
<1>3. content \in [D -> V]
  <2>1. \A h \in D : content[h] \in V
    BY <1>1 DEF Staged
  <2>2. content \in [D -> Nat]
    BY <1>1
  <2>. HIDE DEF D, V
  <2>. QED
    BY <2>1, <2>2
<1>4. \A f \in [D -> V] : f \in Seq(Nat) /\ Len(f) = Len(content) /\ DOMAIN f = D
  <2>. SUFFICES ASSUME NEW f \in [D -> V] PROVE f \in Seq(Nat) /\ Len(f) = Len(content) /\ DOMAIN f = D
    OBVIOUS
  <2>1. f \in [D -> Nat]
    BY <1>2
  <2>2. \A n \in Nat : \A g \in [1 .. n -> Nat] : g \in Seq(Nat) /\ Len(g) = n /\ DOMAIN g = 1 .. n
    OBVIOUS
  <2>. QED
    BY <1>1, <2>1, <2>2
<1>5. queue # <<>> /\ (s.fetch => content' = content)
      /\ (~s.fetch => content' = Executed(staging[s.slot], content, s.work))
  BY DEF DeviceRuns
<1>6. 1 \in DOMAIN queue /\ s = queue[1]
  BY <1>5, TailIs DEF IInv, Shaped
<1>7. content' \in [D -> V]
  <2>1. CASE s.fetch
    BY <1>3, <1>5, <2>1
  <2>2. CASE ~s.fetch
    <3>1. Sequence(s.work) /\ WorkFits(staging[s.slot], s.work, V)
      BY <1>6, <2>2 DEF Staged
    <3>. DEFINE w == s.work
                bl == staging[s.slot]
    <3>2. content' = Executed(bl, content, w)
      BY <1>5, <2>2
    <3>. HIDE DEF D, V, s, w, bl
    <3>9. Sequence(w) /\ WorkFits(bl, w, V)
      BY <3>1 DEF w, bl
    <3>3. Executed(bl, content, w) \in [D -> V]
      BY <1>2, <1>3, <3>9, ExecutedType
    <3>. QED
      BY <3>2, <3>3
  <2>. QED
    BY <2>1, <2>2
<1>. HIDE DEF D, V
<1>8. DOMAIN content' = D /\ \A h \in D : content'[h] \in V
  BY <1>7
<1>. QED
  BY <1>4, <1>7, <1>8 DEF V

LEMMA DeviceOwners ==
    ASSUME IInv, Books, Owners, Staged, DeviceRuns
    PROVE  Owners'
<1>1. UNCHANGED <<cap, freed, recycled, alive, resident, call, pending, pc>>
  BY DEF DeviceRuns, ids
<1>. QED
  BY <1>1, DeviceContent, ContentOwners

LEMMA DeviceStaged ==
    ASSUME IInv, Books, Owners, Staged, DeviceRuns
    PROVE  Staged'
<1>. DEFINE s == Head(queue)
<1>1. /\ queue # <<>> /\ queue' = Tail(queue) /\ UNCHANGED <<call, pc, stamp>>
      /\ staging' = [staging EXCEPT ![s.slot] = <<content[s.work[1].src]>>] \/ staging' = staging
  BY DEF DeviceRuns
<1>2. /\ 1 \in DOMAIN queue /\ s = queue[1] /\ DOMAIN queue \subseteq Nat
      /\ \A k : k \in DOMAIN queue' <=> k # 0 /\ k \in Nat /\ k + 1 \in DOMAIN queue
      /\ \A k \in DOMAIN queue' : queue'[k] = queue[k + 1]
  BY <1>1, TailIs DEF IInv, Shaped
<1>. HIDE DEF s
<1>3. \A t \in Slots : t # s.slot => staging'[t] = staging[t]
  BY <1>1 DEF Staged
<1>4. DOMAIN staging' = Slots
  BY <1>1 DEF Staged
<1>5. ASSUME NEW k \in DOMAIN queue', ~queue'[k].fetch
      PROVE  /\ Sequence(queue'[k].work)
             /\ WorkFits(staging'[queue'[k].slot], queue'[k].work, 0 .. stamp)
  <2>. DEFINE j == k + 1
  <2>1. j \in DOMAIN queue /\ queue'[k] = queue[j] /\ j # 1
    BY <1>2
  <2>. HIDE DEF j
  <2>2. queue[j].slot # s.slot /\ queue[j].slot \in Slots
    BY <1>2, <2>1 DEF IInv, OneInFlight, Shaped
  <2>3. Sequence(queue[j].work) /\ WorkFits(staging[queue[j].slot], queue[j].work, 0 .. stamp)
    BY <1>5, <2>1 DEF Staged
  <2>4. staging'[queue[j].slot] = staging[queue[j].slot]
    BY <1>3, <2>2
  <2>. QED
    BY <2>1, <2>3, <2>4
<1>6. ASSUME NEW c \in Client, pc[c] = "record"
      PROVE  Staging(call[c], staging'[call[c].slot], 0 .. stamp)
  <2>1. ~InFlight(call[c].slot) /\ call[c].slot \in Slots
    BY <1>6, OneRecords
  <2>2. call[c].slot # s.slot
    BY <1>2, <2>1 DEF InFlight
  <2>3. staging'[call[c].slot] = staging[call[c].slot]
    BY <1>3, <2>1, <2>2
  <2>. QED
    BY <1>6, <2>3 DEF Staged
<1>7. \A h \in DOMAIN content' : content'[h] \in 0 .. stamp
  BY DeviceContent
<1>. QED
  BY <1>1, <1>4, <1>5, <1>6, <1>7 DEF Staged

-----------------------------------------------------------------------------
\* Every step keeps the whole of it.
MInv == IInv /\ Calls /\ Books /\ Owners /\ Staged

LEMMA ClientOwners ==
    ASSUME MInv, NEW c \in Client,
           \/ Begin(c) \/ BeginFetch(c) \/ BeginWait(c) \/ Release(c) \/ Relabel(c) \/ Continue(c)
    PROVE  Owners'
<1>. USE DEF MInv
<1>1. CASE Begin(c) \/ BeginFetch(c)
  BY <1>1, BeginOwners
<1>2. CASE BeginWait(c)
  BY <1>2, BeginWaitOwners
<1>3. CASE Release(c)
  BY <1>3, ReleaseOwners
<1>4. CASE Relabel(c)
  BY <1>4, RelabelOwners
<1>5. CASE Acquire(c) \/ SlotFree(c) \/ SlotWaitFails(c)
  BY <1>5, SlotOwners
<1>6. CASE RecordNode(c)
  BY <1>6, RecordNodeOwners
<1>7. CASE RecordNodeFails(c)
  BY <1>7, RecordNodeFailsOwners
<1>8. CASE RecordChain(c)
  BY <1>8, RecordChainOwners
<1>9. CASE RecordChainFails(c)
  BY <1>9, RecordChainFailsOwners
<1>10. CASE RecordFetch(c)
  BY <1>10, RecordFetchOwners
<1>11. CASE RecordFetchFails(c) \/ SubmitFails(c)
  <2>1. pc[c] = "record" /\ Abandon(c, Memory, <<>>)
    BY <1>11 DEF RecordFetchFails, SubmitFails, Recorded
  <2>. QED
    BY <2>1, AbandonPlainOwners
<1>12. CASE Submit(c)
  BY <1>12, SubmitOwners
<1>13. CASE TakeSync(c)
  BY <1>13, TakeSyncOwners
<1>14. CASE Synced(c)
  BY <1>14, SyncedOwners
<1>15. CASE SyncFails(c)
  BY <1>15, SyncFailsOwners
<1>16. CASE ReadBack(c) \/ ReadFails(c)
  BY <1>16, ReadOwners
<1>. QED
  BY <1>1, <1>2, <1>3, <1>4, <1>5, <1>6, <1>7, <1>8, <1>9, <1>10, <1>11, <1>12, <1>13,
     <1>14, <1>15, <1>16 DEF Continue

LEMMA ClientStaged ==
    ASSUME MInv, NEW c \in Client,
           \/ Begin(c) \/ BeginFetch(c) \/ BeginWait(c) \/ Release(c) \/ Relabel(c) \/ Continue(c)
    PROVE  Staged'
<1>. USE DEF MInv
<1>1. CASE Begin(c) \/ Acquire(c)
  BY <1>1, TakingStaged
<1>2. CASE \/ BeginFetch(c) \/ BeginWait(c) \/ SlotFree(c) \/ TakeSync(c) \/ RecordFetch(c)
           \/ SlotWaitFails(c) \/ ReadBack(c) \/ ReadFails(c) \/ Relabel(c)
  BY <1>2, QuietStaged
<1>3. CASE RecordNode(c)
  BY <1>3, RecordNodeStaged
<1>4. CASE RecordChain(c)
  BY <1>4, RecordChainStaged
<1>5. CASE Submit(c)
  BY <1>5, SubmitStaged
<1>6. CASE \/ RecordNodeFails(c) \/ RecordChainFails(c) \/ RecordFetchFails(c) \/ SubmitFails(c)
           \/ Synced(c) \/ SyncFails(c)
  BY <1>6, EndingStaged
<1>7. CASE Release(c)
  BY <1>7, ReleaseStaged
<1>. QED
  BY <1>1, <1>2, <1>3, <1>4, <1>5, <1>6, <1>7 DEF Continue

LEMMA MemoryStep ==
    ASSUME MInv, IInv', [Next]_vars
    PROVE  MInv'
<1>1. Calls' /\ Books'
  <2>1. stamp \in Nat
    BY DEF MInv, Books
  <2>. QED
    BY <2>1, CallsStep, BooksNext DEF MInv
<1>2. Owners' /\ Staged'
  <2>1. CASE UNCHANGED vars
    <3>1. UNCHANGED <<memory, resident, call, pending, pc, staging, queue, stamp, content>>
      BY <2>1 DEF vars, ids, slots, memory
    <3>2. Staged'
      BY <3>1 DEF MInv, Staged
    <3>. QED
      BY <3>1, <3>2, SameOwners DEF MInv
  <2>2. CASE DeviceRuns
    BY <2>2, DeviceOwners, DeviceStaged DEF MInv
  <2>3. CASE \E c \in Client : \/ Begin(c) \/ BeginFetch(c) \/ BeginWait(c)
                               \/ Release(c) \/ Relabel(c) \/ Continue(c)
    BY <2>3, ClientOwners, ClientStaged
  <2>. QED
    BY <2>1, <2>2, <2>3 DEF Next
<1>. QED
  BY <1>1, <1>2 DEF MInv

LEMMA MemoryStarts == Init => MInv
<1>. SUFFICES ASSUME Init PROVE MInv
  OBVIOUS
<1>1. IInv
  BY Starts
<1>2. Calls
  BY IdleFormed DEF Init, Calls
<1>3. Books
  <2>1. \A c \in Client : pending[c] = <<>> /\ pc[c] = "idle" /\ owned[c] = {}
    BY DEF Init
  <2>2. DOMAIN resident = {} /\ meant \in Seq(Nat) /\ stamp \in Nat
    BY EmptyIs DEF Init
  <2>3. pc \in [Client -> Points] /\ DOMAIN owned = Client
    BY DEF Init, Points
  <2>4. lock \in Client \cup {NoClient} /\ timedOut \in BOOLEAN /\ refused \in BOOLEAN
    BY DEF Init
  <2>. QED
    BY <2>1, <2>2, <2>3, <2>4, EmptyIs DEF Books
<1>4. Staged
  BY EmptyIs DEF Init, Staged
<1>5. Owners
  <2>1. Memory = [cap |-> <<>>, freed |-> {}, content |-> <<>>,
                  recycled |-> [n \in Size |-> <<>>], alive |-> 0]
    BY DEF Init, Memory
  <2>2. Memory \in Memories
    BY <2>1 DEF Memories
  <2>3. \A n \in Size : Memory.recycled[n] = <<>>
    BY <2>1
  <2>4. PoolNeat(Memory)
    <3>1. \A n \in Size : Len(Memory.recycled[n]) = 0 /\ DOMAIN Memory.recycled[n] = {}
      BY <2>3, EmptyIs
    <3>. QED
      BY <3>1, BoundsAssumption DEF PoolNeat
  <2>5. Units(<<>>, {}) = 0
    <3>1. <<>> \in Seq(Size)
      OBVIOUS
    <3>2. \A s \in Seq(Size) : \E at : Counted(at, s, {}) /\ Units(s, {}) = at[Len(s)]
      BY UnitsInTurn
    <3>3. PICK at : Counted(at, <<>>, {}) /\ Units(<<>>, {}) = at[Len(<<>>)]
      BY <3>1, <3>2
    <3>. QED
      BY <3>3, EmptyIs DEF Counted
  <2>6. Sound(Memory)
    BY <2>1, <2>2, <2>4, <2>5, EmptyIs DEF Sound
  <2>7. ASSUME NEW c \in Client
        PROVE  /\ HandTidy(OutsOf(c), call[c].scratch, pending[c], Memory)
               /\ Has(c) = {}
    <3>1. OutsOf(c) = <<>> /\ call[c].scratch = <<>> /\ pending[c] = <<>>
      BY IdleIs DEF Init, OutsOf
    <3>2. PendingTidy(<<>>, Memory) /\ HeldBy(<<>>) = {}
      BY EmptyIs DEF PendingTidy, HeldBy
    <3>. QED
      BY <3>1, <3>2, EmptyHand DEF Has
  <2>8. DOMAIN resident = {}
    BY EmptyIs DEF Init
  <2>9. TableTidy(resident, Memory)
    BY <2>8 DEF TableTidy
  <2>. QED
    BY <2>6, <2>7, <2>9 DEF Owners
<1>. QED
  BY <1>1, <1>2, <1>3, <1>4, <1>5 DEF MInv

LEMMA MemoryKeeps == MInv /\ [Next]_vars => MInv'
<1>. SUFFICES ASSUME MInv, [Next]_vars PROVE MInv'
  OBVIOUS
<1>1. IInv'
  BY Keeps DEF MInv
<1>. QED
  BY <1>1, MemoryStep

-----------------------------------------------------------------------------
\* Where the buffers of a client are, said by the records and by the handles.
LEMMA InHandIs ==
    ASSUME Owners, NEW c \in Client
    PROVE  /\ HandlesOf(InHand(c)) = Has(c)
           /\ \A b \in InHand(c) : Good(b, Memory)
<1>1. Drafts(c) = {OutsOf(c)[i] : i \in DOMAIN OutsOf(c)}
  BY EmptyIs DEF Drafts, OutsOf, ToSet
<1>2. ToSet(call[c].scratch) = {call[c].scratch[i] : i \in DOMAIN call[c].scratch}
  BY DEF ToSet
<1>3. ToSet(pending[c]) = {pending[c][k] : k \in DOMAIN pending[c]}
  BY DEF ToSet
<1>4. \A k \in DOMAIN pending[c] : ToSet(pending[c][k].scratch) =
        {pending[c][k].scratch[i] : i \in DOMAIN pending[c][k].scratch}
  BY DEF ToSet
<1>5. \A b : b \in InHand(c) <=>
        \/ \E i \in DOMAIN OutsOf(c) : b = OutsOf(c)[i]
        \/ \E i \in DOMAIN call[c].scratch : b = call[c].scratch[i]
        \/ \E k \in DOMAIN pending[c] : \E i \in DOMAIN pending[c][k].scratch :
             b = pending[c][k].scratch[i]
  <2>1. \A b : b \in UNION {ToSet(p.scratch) : p \in ToSet(pending[c])} <=>
          \E k \in DOMAIN pending[c] : b \in ToSet(pending[c][k].scratch)
    BY <1>3
  <2>2. \A b : b \in Drafts(c) <=> \E i \in DOMAIN OutsOf(c) : b = OutsOf(c)[i]
    BY <1>1
  <2>3. \A b : b \in ToSet(call[c].scratch) <=>
          \E i \in DOMAIN call[c].scratch : b = call[c].scratch[i]
    BY <1>2
  <2>4. ASSUME NEW k \in DOMAIN pending[c], NEW b
        PROVE  b \in ToSet(pending[c][k].scratch) <=>
                 \E i \in DOMAIN pending[c][k].scratch : b = pending[c][k].scratch[i]
    BY <1>4
  <2>5. InHand(c) = Drafts(c) \cup ToSet(call[c].scratch)
                      \cup UNION {ToSet(p.scratch) : p \in ToSet(pending[c])}
    BY DEF InHand
  <2>6. \A b : b \in UNION {ToSet(p.scratch) : p \in ToSet(pending[c])} <=>
          \E k \in DOMAIN pending[c] : \E i \in DOMAIN pending[c][k].scratch :
            b = pending[c][k].scratch[i]
    BY <2>1, <2>4
  <2>. QED
    BY <2>2, <2>3, <2>5, <2>6
<1>6. \A h : h \in Has(c) <=>
        \/ \E i \in DOMAIN OutsOf(c) : h = OutsOf(c)[i].h
        \/ \E i \in DOMAIN call[c].scratch : h = call[c].scratch[i].h
        \/ \E k \in DOMAIN pending[c] : \E i \in DOMAIN pending[c][k].scratch :
             h = pending[c][k].scratch[i].h
  BY DEF Has, HandOf, HeldBy, HandlesIn
<1>7. \A h : h \in HandlesOf(InHand(c)) <=> \E b \in InHand(c) : h = b.h
  BY DEF HandlesOf
<1>8. \A h : h \in HandlesOf(InHand(c)) <=> h \in Has(c)
  BY <1>5, <1>6, <1>7
<1>9. HandTidy(OutsOf(c), call[c].scratch, pending[c], Memory)
  BY DEF Owners
<1>10. \A b \in InHand(c) : Good(b, Memory)
  BY <1>5, <1>9 DEF HandTidy, PendingTidy, Neat
<1>. QED
  BY <1>8, <1>10

LEMMA PooledIs ==
    ASSUME Owners
    PROVE  /\ \A h : h \in HandlesOf(Pooled) <=> InPool(Memory, h)
           /\ \A b \in Pooled : b.h \in Live /\ b.size <= cap[b.h]
<1>1. \A n \in Size : ToSet(recycled[n]) = {recycled[n][i] : i \in DOMAIN recycled[n]}
  BY DEF ToSet
<1>2. \A b : b \in Pooled <=> \E n \in Size : \E i \in DOMAIN recycled[n] : b = recycled[n][i]
  BY <1>1 DEF Pooled
<1>3. \A h : h \in HandlesOf(Pooled) <=> \E b \in Pooled : h = b.h
  BY DEF HandlesOf
<1>4. Memory.recycled = recycled /\ Memory.cap = cap /\ Memory.freed = freed
  BY DEF Memory
<1>5. \A h : h \in HandlesOf(Pooled) <=> InPool(Memory, h)
  BY <1>2, <1>3, <1>4 DEF InPool
<1>6. DOMAIN cap = 1 .. Len(cap)
  BY <1>4 DEF Owners, Sound, Memories
<1>7. ASSUME NEW b \in Pooled PROVE b.h \in Live /\ b.size <= cap[b.h]
  <2>1. PICK n \in Size : \E i \in DOMAIN recycled[n] : b = recycled[n][i]
    BY <1>2
  <2>2. PICK i \in DOMAIN recycled[n] : b = recycled[n][i]
    BY <2>1
  <2>3. b.size = n /\ b.h \in 1 .. Len(cap) /\ b.h \notin freed /\ n <= cap[b.h]
    BY <1>4, <2>2 DEF Owners, Sound, PoolNeat
  <2>. QED
    BY <1>6, <2>3 DEF Live, Handles
<1>. QED
  BY <1>5, <1>7

LEMMA GoodIs ==
    ASSUME Owners, NEW b, Good(b, Memory)
    PROVE  /\ b \in BufferSet /\ b.h \in Live /\ b.size <= cap[b.h]
           /\ b.h \notin HandlesOf(Pooled)
<1>1. DOMAIN cap = 1 .. Len(cap)
  BY DEF Owners, Sound, Memories, Memory
<1>2. b \in Buffers /\ b.h \in 1 .. Len(cap) /\ b.h \notin freed /\ ~InPool(Memory, b.h)
      /\ b.size <= cap[b.h]
  BY DEF Good, Lent, Memory
<1>3. b \in BufferSet
  BY <1>1, <1>2 DEF Buffers, BufferSet, Handles
<1>. QED
  BY <1>1, <1>2, <1>3, PooledIs DEF Live, Handles

LEMMA BuffersApart == Owners => NoBufferTwice
<1>. SUFFICES ASSUME Owners PROVE NoBufferTwice
  OBVIOUS
<1>. DEFINE all == Pooled \cup Kept \cup UNION {InHand(c) : c \in Client}
<1>1. \A n \in Size : IsInjective(recycled[n])
  <2>1. Memory.recycled = recycled
    BY DEF Memory
  <2>. QED
    BY <2>1 DEF Owners, Sound, PoolNeat, IsInjective
<1>2. \A b \in Kept : Good(b, Memory)
  BY DEF Kept, Owners, TableTidy
<1>3. HandlesOf(Kept) = TableOf(resident)
  BY DEF HandlesOf, Kept, TableOf
<1>4. HandlesOf(Pooled) \cap HandlesOf(Kept) = {}
  BY <1>2, GoodIs DEF HandlesOf
<1>5. \A i, j \in DOMAIN resident : resident[i].h = resident[j].h => i = j
  BY DEF Owners, TableTidy
<1>6. ASSUME NEW c \in Client
      PROVE  /\ HandlesOf(InHand(c)) \cap HandlesOf(Pooled \cup Kept) = {}
             /\ \A d \in Client \ {c} : HandlesOf(InHand(c)) \cap HandlesOf(InHand(d)) = {}
  <2>1. HandlesOf(InHand(c)) \cap HandlesOf(Pooled) = {}
    BY InHandIs, GoodIs DEF HandlesOf
  <2>2. HandlesOf(InHand(c)) \cap HandlesOf(Kept) = {}
    BY <1>3, InHandIs DEF Owners
  <2>3. HandlesOf(Pooled \cup Kept) = HandlesOf(Pooled) \cup HandlesOf(Kept)
    BY DEF HandlesOf
  <2>4. \A d \in Client \ {c} : HandlesOf(InHand(c)) \cap HandlesOf(InHand(d)) = {}
    BY InHandIs DEF Owners
  <2>. QED
    BY <2>1, <2>2, <2>3, <2>4
<1>7. ASSUME NEW b \in all PROVE b.h \in Live /\ b.size <= cap[b.h]
  <2>1. CASE b \in Pooled
    BY <2>1, PooledIs
  <2>2. CASE b \in Kept
    BY <1>2, <2>2, GoodIs
  <2>3. CASE \E c \in Client : b \in InHand(c)
    BY <2>3, InHandIs, GoodIs
  <2>. QED
    BY <2>1, <2>2, <2>3
<1>. QED
  BY <1>1, <1>4, <1>5, <1>6, <1>7 DEF NoBufferTwice

LEMMA WellTyped == MInv => TypeOK
<1>. SUFFICES ASSUME MInv PROVE TypeOK
  OBVIOUS
<1>. USE DEF MInv
<1>1. /\ cap \in Seq(Size) /\ content \in Seq(Nat) /\ recycled \in [Size -> Seq(Buffers)]
      /\ alive \in Int
  BY DEF Owners, Sound, Memories, Memory
<1>2. Len(content) = Len(cap) /\ freed \subseteq 1 .. Len(cap) /\ alive >= Units(cap, freed)
  BY DEF Owners, Sound, Memory
<1>3. Len(cap) \in Nat /\ DOMAIN cap = 1 .. Len(cap) /\ DOMAIN content = DOMAIN cap
  BY <1>1, <1>2
<1>4. Units(cap, freed) \in Nat
  BY <1>1, UnitsCount
<1>5. alive \in Nat
  BY <1>1, <1>2, <1>4
<1>6. freed \subseteq Handles /\ \A h \in Handles : content[h] \in 0 .. stamp
  BY <1>2, <1>3 DEF Handles, Staged
<1>7. ASSUME NEW n \in Size
      PROVE  recycled[n] \in Seq(BufferSet) /\ Len(recycled[n]) <= PoolCap
  <2>1. recycled[n] \in Seq(Buffers) /\ Memory.recycled = recycled /\ Memory.cap = cap
    BY <1>1 DEF Memory
  <2>2. Len(recycled[n]) <= PoolCap
    BY <2>1 DEF Owners, Sound, PoolNeat
  <2>3. \A i \in DOMAIN recycled[n] : recycled[n][i] \in Buffers
    BY <2>1
  <2>4. \A i \in DOMAIN recycled[n] : recycled[n][i].h \in DOMAIN cap
    BY <1>3, <2>1 DEF Owners, Sound, PoolNeat
  <2>5. \A i \in DOMAIN recycled[n] : recycled[n][i] \in BufferSet
    BY <2>3, <2>4 DEF Buffers, BufferSet, Handles
  <2>6. \A T : \A s \in Seq(Buffers) : (\A i \in DOMAIN s : s[i] \in T) => s \in Seq(T)
    OBVIOUS
  <2>. QED
    BY <2>1, <2>2, <2>5, <2>6
<1>8. DOMAIN resident \subseteq Id /\ \A id \in DOMAIN resident : resident[id] \in BufferSet
  BY GoodIs DEF Books, Id, Owners, TableTidy
<1>9. /\ cursor \in Slots /\ claimed \in [Slots -> BOOLEAN] /\ fence \in [Slots -> BOOLEAN]
  BY DEF IInv, Shaped
<1>10. /\ lock \in Client \cup {NoClient} /\ pc \in [Client -> Points]
       /\ timedOut \in BOOLEAN /\ refused \in BOOLEAN
       /\ \A c \in Client : owned[c] \subseteq Id
  BY DEF Books, Id
<1>11. \A c \in Client :
         (lock = c) <=> (pc[c] \in {"wait slot", "record", "wait sync", "wait read"})
  BY DEF IInv, LockHolds, Holding
<1>. QED
  BY <1>1, <1>2, <1>5, <1>6, <1>7, <1>8, <1>9, <1>10, <1>11 DEF TypeOK

-----------------------------------------------------------------------------
\* dispatch.rs: every handle a table or a call names is one the driver made,
\* no pool outgrows RECYCLED_PER_SIZE, memory holds stamps that were written,
\* and the mutex is held by exactly the thread whose call is at a point where
\* the code holds it.
THEOREM TypeCorrect == Spec => []TypeOK
  BY MemoryStarts, MemoryKeeps, WellTyped, PTL DEF Spec

\* dispatch.rs, allocate and recycle: however many threads interleave their
\* calls, and whichever driver calls fail, a device buffer is in the pool once,
\* behind one id, or in one call's hands, at no more than the size it was
\* allocated with, and none of them has been given back to the driver.
THEOREM BuffersHeldOnce == Spec => []NoBufferTwice
<1>1. MInv => NoBufferTwice
  BY BuffersApart DEF MInv
<1>. QED
  BY MemoryStarts, MemoryKeeps, <1>1, PTL DEF Spec

\* accounting.rs and Recycle: the total reported to the device accounting is
\* never below the units the driver holds, whatever fails after it was counted.
THEOREM ReportCovers == Spec => []ReportNeverUnderstates
<1>1. MInv => ReportNeverUnderstates
  BY DEF MInv, Owners, Sound, Memory, ReportNeverUnderstates
<1>. QED
  BY MemoryStarts, MemoryKeeps, <1>1, PTL DEF Spec
=============================================================================
