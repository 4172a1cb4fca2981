---------------------------- MODULE GpuDataProofs ----------------------------
(***************************************************************************)
(* What the callers of GpuContext see, for any number of threads, slots,   *)
(* sizes, calls and driver errors: an id that was waited for names memory  *)
(* that holds what its dispatch wrote, a fetch reads exactly that, and     *)
(* nothing a submission in flight uses is given back to the driver.  The   *)
(* argument stands on MInv of GpuContextProofs: slots, owners, staging.    *)
(***************************************************************************)
EXTENDS GpuContextProofs

-----------------------------------------------------------------------------
(***************************************************************************)
(* Who has been told of an id: whoever owns it, or has still to wait for   *)
(* the submission that writes it.                                          *)
(***************************************************************************)
ToldOf(own, p, r, at) ==
  own \cup {p[k].ids[1] : k \in DOMAIN p}
      \cup {id \in {r.id} : at \in {"sync", "wait sync"} /\ r.kind \in {"run", "wait"}}
Told(c) == ToldOf(owned[c], pending[c], call[c], pc[c])

\* A node reads host data, an id of K, or the output of the batch's first node.
Reads(node, i, K) ==
  \/ node = Host
  \/ node.from = "id" /\ node.at \in K
  \/ i = 2 /\ node = Out(1)

Asks(r, at, own, told, res) ==
  /\ at \in {"wait slot", "record"} /\ r.kind \in Nodewise =>
       /\ Sequence(r.nodes)
       /\ r.kind # "batch" => Len(r.nodes) = 1
       /\ \A i \in DOMAIN r.nodes : Reads(r.nodes[i], i, told \cap DOMAIN res)
  /\ at # "idle" /\ r.kind = "fetch" =>
       r.id \in own /\ r.id \in DOMAIN res /\ r.src = res[r.id].h

Informed(c) ==
  /\ Told(c) \subseteq DOMAIN meant
  /\ \A k \in DOMAIN pending[c] :
       DOMAIN pending[c][k].ids = {1} /\ pending[c][k].ids[1] \in DOMAIN resident
  /\ Asks(call[c], pc[c], owned[c], Told(c), resident)

Informing ==
  /\ \A c \in Client : Informed(c)
  /\ \A c, d \in Client : c # d => Told(c) \cap Told(d) = {}

-----------------------------------------------------------------------------
(***************************************************************************)
(* What a step of c does to the ids: those of gone are released, the other *)
(* residents stay in their memory, and what appears is new.                *)
(***************************************************************************)
TableGrows(gone) ==
  /\ DOMAIN meant \subseteq DOMAIN meant' /\ \A id \in DOMAIN meant : meant'[id] = meant[id]
  /\ \A id \in DOMAIN resident' : \/ id \in DOMAIN resident /\ resident'[id].h = resident[id].h
                                  \/ id \notin DOMAIN meant
  /\ \A id \in DOMAIN resident \ gone : id \in DOMAIN resident' /\ resident'[id].h = resident[id].h

\* Nobody but c is told anything.
OthersTold(c) == OthersKept(c) /\ \A d \in Client \ {c} : owned'[d] = owned[d]

LEMMA OthersToldSame ==
    ASSUME NEW c, OthersTold(c), NEW d \in Client \ {c}
    PROVE  Told(d)' = Told(d)
<1>1. owned'[d] = owned[d] /\ pending'[d] = pending[d] /\ call'[d] = call[d] /\ pc'[d] = pc[d]
  BY DEF OthersTold, OthersKept
<1>2. Told(d)' = ToldOf(owned'[d], pending'[d], call'[d], pc'[d])
  BY DEF Told
<1>. QED
  BY <1>1, <1>2 DEF Told

\* A step of c: what it tells the others, and what it may release.
Change(c) ==
  /\ OthersTold(c) /\ Told(c)' \cap DOMAIN meant \subseteq Told(c)
  /\ \E gone : /\ gone \subseteq owned[c] /\ (gone # {} => pc[c] = "idle" /\ pending[c] = <<>>)
               /\ TableGrows(gone)

LEMMA InformedStep ==
    ASSUME Informing, Books, NEW c \in Client, Change(c), Informed(c)'
    PROVE  Informing'
<1>. PICK gone : gone \subseteq owned[c] /\ TableGrows(gone)
  BY DEF Change
<1>. USE DEF Change
<1>0. owned[c] \subseteq Told(c)
  BY DEF Told, ToldOf
<1>1. \A d \in Client \ {c} : Told(d)' = Told(d) /\ Told(d) \subseteq DOMAIN meant
  BY OthersToldSame DEF Informing, Informed
<1>2. ASSUME NEW d \in Client \ {c} PROVE Informed(d)'
  <2>1. \A id \in Told(d) : id \notin gone
    BY <1>0 DEF Informing
  <2>2. Informed(d) /\ call'[d] = call[d] /\ pc'[d] = pc[d] /\ pending'[d] = pending[d]
        /\ owned'[d] = owned[d]
    BY DEF Informing, OthersTold, OthersKept
  <2>3. \A id \in Told(d) : id \in DOMAIN resident =>
          id \in DOMAIN resident' /\ resident'[id].h = resident[id].h
    BY <2>1 DEF TableGrows
  <2>4. \A k \in DOMAIN pending[d] : pending[d][k].ids[1] \in Told(d)
    BY DEF Told, ToldOf
  <2>5. owned[d] \subseteq Told(d)
    BY DEF Told, ToldOf
  <2>6. Told(d)' \subseteq DOMAIN meant'
    BY <1>1 DEF TableGrows
  <2>7. \A k \in DOMAIN pending'[d] :
          DOMAIN pending'[d][k].ids = {1} /\ pending'[d][k].ids[1] \in DOMAIN resident'
    BY <2>2, <2>3, <2>4 DEF Informed
  <2>8. \A node, i : Reads(node, i, Told(d) \cap DOMAIN resident)
                       => Reads(node, i, Told(d) \cap DOMAIN resident')
    BY <2>3 DEF Reads
  <2>9. Asks(call[d], pc[d], owned[d], Told(d), resident')
    <3>1. Asks(call[d], pc[d], owned[d], Told(d), resident)
      BY <2>2 DEF Informed
    <3>2. \A id \in owned[d] : id \in DOMAIN resident =>
            id \in DOMAIN resident' /\ resident'[id].h = resident[id].h
      BY <2>3, <2>5
    <3>. QED
      BY <3>1, <3>2, <2>8 DEF Asks
  <2>. QED
    BY <1>1, <2>2, <2>6, <2>7, <2>9 DEF Informed
<1>3. ASSUME NEW d \in Client \ {c} PROVE Told(c)' \cap Told(d)' = {}
  <2>1. Told(c) \cap Told(d) = {} /\ Told(d)' = Told(d) /\ Told(d) \subseteq DOMAIN meant
    BY <1>1 DEF Informing
  <2>. QED
    BY <2>1
<1>4. ASSUME NEW d \in Client \ {c}, NEW e \in Client \ {c}, d # e PROVE Told(d)' \cap Told(e)' = {}
  BY <1>1, <1>4 DEF Informing
<1>5. \A d, e \in Client : d # e => Told(d)' \cap Told(e)' = {}
  BY <1>3, <1>4
<1>6. \A d \in Client : Informed(d)'
  BY <1>2
<1>. QED
  BY <1>5, <1>6 DEF Informing

LEMMA InformedKept ==
    ASSUME Informing, Books, NEW c \in Client, OthersKept(c), UNCHANGED <<ids, owned>>,
           Told(c)' \subseteq Told(c),
           \A k \in DOMAIN pending'[c] :
             \E j \in DOMAIN pending[c] : pending'[c][k].ids = pending[c][j].ids,
           Asks(call'[c], pc'[c], owned[c], Told(c)', resident)
    PROVE  Informing' /\ Change(c)
<1>1. OthersTold(c) /\ TableGrows({})
  BY DEF OthersTold, TableGrows, ids
<1>0. Change(c)
  BY <1>1 DEF Change
<1>2. Told(c) \subseteq DOMAIN meant
  BY DEF Informing, Informed
<1>3. \A k \in DOMAIN pending'[c] :
        DOMAIN pending'[c][k].ids = {1} /\ pending'[c][k].ids[1] \in DOMAIN resident
  BY DEF Informing, Informed
<1>4. Informed(c)'
  BY <1>2, <1>3 DEF Informed, ids
<1>. QED
  BY <1>0, <1>4, InformedStep

\* A call that ends hands its caller nothing, or what it has in hand already.
LEMMA LeaveInformed ==
    ASSUME IInv, Informing, Books, NEW c \in Client, Return(c), UNCHANGED <<ids, pending, owned>>
    PROVE  Informing' /\ Change(c)
<1>1. call'[c] = Idle /\ pc'[c] = "idle" /\ OthersKept(c)
  BY ReturnIs DEF OthersKept
<1>2. Told(c)' \subseteq Told(c)
  BY <1>1 DEF Told, ToldOf
<1>3. Asks(call'[c], pc'[c], owned[c], Told(c)', resident)
  BY <1>1, IdleIs DEF Asks, Nodewise
<1>. QED
  BY <1>1, <1>2, <1>3, InformedKept

LEMMA LeavingInformed ==
    ASSUME IInv, Informing, Books, NEW c \in Client,
           \/ SlotWaitFails(c) \/ SyncFails(c) \/ ReadBack(c) \/ ReadFails(c)
           \/ RecordNodeFails(c) \/ RecordChainFails(c) \/ RecordFetchFails(c) \/ SubmitFails(c)
    PROVE  Informing' /\ Change(c)
<1>1. ASSUME NEW m, NEW outs, Abandon(c, m, outs) PROVE Informing' /\ Change(c)
  BY <1>1, LeaveInformed DEF Abandon, ids
<1>2. CASE RecordNodeFails(c) \/ RecordChainFails(c) \/ RecordFetchFails(c) \/ SubmitFails(c)
  BY <1>1, <1>2 DEF RecordNodeFails, RecordChainFails, RecordFetchFails, SubmitFails
<1>3. CASE SlotWaitFails(c) \/ SyncFails(c) \/ ReadBack(c) \/ ReadFails(c)
  BY <1>3, LeaveInformed DEF SlotWaitFails, SyncFails, ReadBack, ReadFails, ids
<1>. QED
  BY <1>2, <1>3

\* Inside a call: it goes on asking for what it asked for.
LEMMA AskingStill ==
    ASSUME IInv, Informing, Books, NEW c \in Client, OthersKept(c), UNCHANGED <<ids, owned>>,
           pending'[c] = pending[c],
           call'[c].kind = call[c].kind, call'[c].nodes = call[c].nodes,
           call'[c].id = call[c].id, call'[c].src = call[c].src,
           \/ pc'[c] = pc[c]
           \/ pc[c] = "wait slot" /\ pc'[c] = "record"
           \/ pc[c] = "sync" /\ pc'[c] = "wait sync"
    PROVE  Informing' /\ Change(c)
<1>1. Told(c)' = Told(c)
  <2>1. \A id : id \in Told(c)' <=> id \in Told(c)
    BY DEF Told, ToldOf
  <2>. QED
    BY <2>1
<1>2. Asks(call'[c], pc'[c], owned[c], Told(c)', resident)
  <2>1. Asks(call[c], pc[c], owned[c], Told(c), resident)
    BY DEF Informing, Informed
  <2>. QED
    BY <2>1, <1>1 DEF Asks
<1>. QED
  BY <1>1, <1>2, InformedKept

LEMMA InsideInformed ==
    ASSUME IInv, Calls, Informing, Books, NEW c \in Client,
           SlotFree(c) \/ RecordNode(c) \/ RecordChain(c) \/ RecordFetch(c) \/ TakeSync(c)
    PROVE  Informing' /\ Change(c)
<1>. USE DEF IInv, Shaped
<1>1. DOMAIN call[c] = DOMAIN Idle
  BY DEF Calls, FormedCall
<1>2. CASE SlotFree(c)
  <2>1. OthersKept(c) /\ pc[c] = "wait slot" /\ pc'[c] = "record" /\ call'[c] = call[c]
        /\ pending' = pending /\ UNCHANGED <<ids, owned>>
    BY <1>2 DEF SlotFree, OthersKept, ids
  <2>. QED
    BY <2>1, AskingStill
<1>3. CASE TakeSync(c)
  <2>1. OthersKept(c) /\ pc[c] = "sync" /\ pc'[c] = "wait sync" /\ call'[c] = call[c]
        /\ pending' = pending /\ UNCHANGED <<ids, owned>>
    BY <1>3 DEF TakeSync, OthersKept, ids
  <2>. QED
    BY <2>1, AskingStill
<1>4. CASE RecordNode(c) \/ RecordChain(c) \/ RecordFetch(c)
  <2>1. pc' = pc /\ pending' = pending /\ UNCHANGED <<ids, owned>>
    BY <1>4 DEF RecordNode, RecordChain, RecordFetch, ids
  <2>2. /\ \A d \in Client \ {c} : call'[d] = call[d]
        /\ call'[c].kind = call[c].kind /\ call'[c].nodes = call[c].nodes
        /\ call'[c].id = call[c].id /\ call'[c].src = call[c].src
    <3>1. CASE RecordNode(c)
      BY <3>1, <1>1, IdleIs DEF RecordNode
    <3>2. CASE RecordChain(c)
      BY <3>2, <1>1, IdleIs DEF RecordChain
    <3>3. CASE RecordFetch(c)
      BY <3>3, <1>1, IdleIs DEF RecordFetch
    <3>. QED
      BY <1>4, <3>1, <3>2, <3>3
  <2>3. OthersKept(c)
    BY <2>1, <2>2 DEF OthersKept
  <2>. QED
    BY <2>1, <2>2, <2>3, AskingStill
<1>. QED
  BY <1>2, <1>3, <1>4

-----------------------------------------------------------------------------
\* What a thread may ask for: ids it has been told of.
LEMMA InputsAre ==
    ASSUME Informing, NEW c \in Client, NEW i \in Inputs(c), NEW k
    PROVE  Reads(i, k, Told(c) \cap DOMAIN resident)
<1>1. CASE i = Host
  BY <1>1 DEF Reads
<1>2. CASE \E id \in owned[c] \cap DOMAIN resident : i = Held(id)
  <2>1. PICK id \in owned[c] \cap DOMAIN resident : i = Held(id)
    BY <1>2
  <2>2. id \in Told(c) \cap DOMAIN resident
    BY <2>1 DEF Told, ToldOf
  <2>. QED
    BY <2>1, <2>2 DEF Reads, Held
<1>3. CASE \E id \in UNION {ToSet(p.ids) : p \in ToSet(pending[c])} : i = Held(id)
  <2>1. PICK j \in DOMAIN pending[c] : \E id \in ToSet(pending[c][j].ids) : i = Held(id)
    BY <1>3 DEF ToSet
  <2>. DEFINE s == pending[c][j].ids
  <2>2. DOMAIN s = {1} /\ s[1] \in DOMAIN resident /\ s[1] \in Told(c)
    BY DEF Informing, Informed, Told, ToldOf
  <2>. HIDE DEF s
  <2>3. \A id \in ToSet(s) : id = s[1]
    BY <2>2 DEF ToSet
  <2>4. i = Held(s[1])
    BY <2>1, <2>3 DEF s
  <2>. QED
    BY <2>2, <2>4 DEF Reads, Held
<1>. DEFINE P == UNION {ToSet(p.ids) : p \in ToSet(pending[c])}
            O == owned[c] \cap DOMAIN resident
<1>4. Inputs(c) = {Host} \cup {Held(id) : id \in O} \cup {Held(id) : id \in P}
  BY DEF Inputs
<1>. HIDE DEF O, P
<1>5. i = Host \/ (\E id \in O : i = Held(id)) \/ (\E id \in P : i = Held(id))
  BY <1>4
<1>. QED
  BY <1>1, <1>2, <1>3, <1>5 DEF O, P

LEMMA RequestsAsk ==
    ASSUME Informing, NEW c \in Client, NEW r \in Requests(c), r.kind \in Nodewise
    PROVE  /\ Sequence(r.nodes) /\ (r.kind # "batch" => Len(r.nodes) = 1)
           /\ \A i \in DOMAIN r.nodes : Reads(r.nodes[i], i, Told(c) \cap DOMAIN resident)
<1>1. \/ \E k \in {"run", "submit"} : \E i \in Inputs(c) : r = [kind |-> k, nodes |-> <<i>>]
      \/ \E i \in Inputs(c), j \in {Host, Out(1)} : r = [kind |-> "batch", nodes |-> <<i, j>>]
  BY DEF Requests, Nodewise
<1>2. CASE \E k \in {"run", "submit"} : \E i \in Inputs(c) : r = [kind |-> k, nodes |-> <<i>>]
  <2>1. PICK i \in Inputs(c) : r.nodes = <<i>>
    BY <1>2
  <2>. QED
    BY <2>1, SingletonIs, InputsAre
<1>3. CASE \E i \in Inputs(c), j \in {Host, Out(1)} : r = [kind |-> "batch", nodes |-> <<i, j>>]
  <2>1. PICK i \in Inputs(c), j \in {Host, Out(1)} : r = [kind |-> "batch", nodes |-> <<i, j>>]
    BY <1>3
  <2>. DEFINE s == <<i, j>>
  <2>2. DOMAIN s = {1, 2} /\ s[1] = i /\ s[2] = j /\ Sequence(s)
    BY PairIs
  <2>3. r.nodes = s /\ r.kind = "batch"
    BY <2>1
  <2>. HIDE DEF s
  <2>4. Reads(j, 2, Told(c) \cap DOMAIN resident)
    BY <2>1 DEF Reads
  <2>. QED
    BY <2>2, <2>3, <2>4, InputsAre
<1>. QED
  BY <1>1, <1>2, <1>3

\* A slot is taken for what r asks.
LEMMA TakeInformed ==
    ASSUME IInv, Informing, Books, NEW c \in Client, NEW r, Take(c, r), DOMAIN r = DOMAIN Idle,
           pc[c] \in {"idle", "acquire"},
           UNCHANGED <<ids, pending, owned>>,
           Asks(r, "wait slot", owned[c], Told(c), resident)
    PROVE  Informing' /\ Change(c)
<1>. DEFINE q == [r EXCEPT !.slot = cursor]
<1>1. call' = [call EXCEPT ![c] = q]
  BY DEF Take
<1>2. q.kind = r.kind /\ q.nodes = r.nodes /\ q.id = r.id /\ q.src = r.src
  BY IdleIs
<1>. HIDE DEF q
<1>3. pc' = [pc EXCEPT ![c] = "wait slot"] \/ pc' = [pc EXCEPT ![c] = "record"]
  BY DEF Take
<1>4. call'[c] = q /\ OthersKept(c)
  BY <1>1, <1>3 DEF IInv, Shaped, OthersKept
<1>5. pc'[c] \in {"wait slot", "record"}
  BY <1>3 DEF IInv, Shaped
<1>6. Told(c)' = Told(c)
  <2>1. \A id : id \in Told(c)' <=> id \in Told(c)
    BY <1>5 DEF Told, ToldOf
  <2>. QED
    BY <2>1
<1>7. Asks(call'[c], pc'[c], owned[c], Told(c)', resident)
  BY <1>2, <1>4, <1>5, <1>6 DEF Asks
<1>. QED
  BY <1>4, <1>6, <1>7, InformedKept

LEMMA BeginInformed ==
    ASSUME IInv, Informing, Books, NEW c \in Client, Begin(c)
    PROVE  Informing' /\ Change(c)
<1>1. PICK r \in Requests(c), size \in CallSize :
        Take(c, [Idle EXCEPT !.kind = r.kind, !.nodes = r.nodes, !.size = size])
  BY DEF Begin
<1>. DEFINE q == [Idle EXCEPT !.kind = r.kind, !.nodes = r.nodes, !.size = size]
<1>2. DOMAIN q = DOMAIN Idle /\ q.kind = r.kind /\ q.nodes = r.nodes
  BY IdleIs
<1>3. Take(c, q)
  BY <1>1
<1>. HIDE DEF q
<1>4. r.kind # "fetch"
  BY DEF Requests
<1>5. Asks(q, "wait slot", owned[c], Told(c), resident)
  BY <1>2, <1>4, RequestsAsk DEF Asks
<1>. QED
  BY <1>2, <1>3, <1>5, TakeInformed DEF Begin, ids

LEMMA AcquireInformed ==
    ASSUME IInv, Calls, Informing, Books, NEW c \in Client, Acquire(c)
    PROVE  Informing' /\ Change(c)
<1>1. pc[c] = "acquire" /\ Take(c, call[c]) /\ UNCHANGED <<ids, pending, owned>>
  BY DEF Acquire, ids
<1>2. DOMAIN call[c] = DOMAIN Idle /\ call[c].kind = "fetch"
  BY <1>1 DEF Calls, FormedCall
<1>3. Asks(call[c], "wait slot", owned[c], Told(c), resident)
  BY <1>1, <1>2 DEF Informing, Informed, Asks, Nodewise
<1>. QED
  BY <1>1, <1>2, <1>3, TakeInformed

LEMMA BeginFetchInformed ==
    ASSUME IInv, Informing, Books, NEW c \in Client, BeginFetch(c)
    PROVE  Informing' /\ Change(c)
<1>1. PICK id \in owned[c] \cap DOMAIN resident :
        call' = [call EXCEPT ![c] = [Idle EXCEPT !.kind = "fetch", !.id = id,
                                                 !.src = resident[id].h]]
  BY DEF BeginFetch
<1>2. /\ pc' = [pc EXCEPT ![c] = "acquire"] /\ UNCHANGED <<ids, pending, owned>> /\ pc[c] = "idle"
  BY DEF BeginFetch, ids
<1>3. /\ call'[c].kind = "fetch" /\ call'[c].id = id /\ call'[c].src = resident[id].h
      /\ pc'[c] = "acquire" /\ OthersKept(c)
  BY <1>1, <1>2, IdleIs DEF OthersKept, IInv, Shaped
<1>4. Told(c)' \subseteq Told(c)
  BY <1>2, <1>3 DEF Told, ToldOf
<1>5. Asks(call'[c], pc'[c], owned[c], Told(c)', resident)
  BY <1>1, <1>3 DEF Asks
<1>. QED
  BY <1>2, <1>3, <1>4, <1>5, InformedKept

LEMMA BeginWaitInformed ==
    ASSUME IInv, Informing, Books, NEW c \in Client, BeginWait(c)
    PROVE  Informing' /\ Change(c)
<1>1. PICK k \in DOMAIN pending[c] :
        /\ pending' = [pending EXCEPT ![c] = RemoveAt(@, k)]
        /\ call' = [call EXCEPT ![c] = [Idle EXCEPT !.kind = "wait", !.slot = pending[c][k].slot,
                        !.scratch = pending[c][k].scratch, !.id = pending[c][k].ids[1]]]
  BY DEF BeginWait
<1>2. /\ DOMAIN call = Client /\ DOMAIN pc = Client /\ DOMAIN pending = Client
      /\ pc' = [pc EXCEPT ![c] = "sync"] /\ UNCHANGED <<ids, owned>> /\ Sequence(pending[c])
  BY DEF BeginWait, ids, IInv, Shaped
<1>3. /\ call'[c].id = pending[c][k].ids[1] /\ call'[c].kind = "wait"
      /\ pending'[c] = RemoveAt(pending[c], k) /\ pc'[c] = "sync" /\ OthersKept(c)
  BY <1>1, <1>2, IdleIs DEF OthersKept
<1>4. \A i \in DOMAIN pending'[c] : \E j \in DOMAIN pending[c] : pending'[c][i] = pending[c][j]
  BY <1>2, <1>3, RemoveIs
<1>5. Told(c)' \subseteq Told(c)
  <2>1. \A j \in DOMAIN pending[c] : pending[c][j].ids[1] \in Told(c)
    BY DEF Told, ToldOf
  <2>2. owned[c] \subseteq Told(c)
    BY DEF Told, ToldOf
  <2>3. \A id \in Told(c)' :
          \/ id \in owned'[c] \/ id = call'[c].id
          \/ \E i \in DOMAIN pending'[c] : id = pending'[c][i].ids[1]
    BY DEF Told, ToldOf
  <2>. QED
    BY <1>2, <1>3, <1>4, <2>1, <2>2, <2>3
<1>6. Asks(call'[c], pc'[c], owned[c], Told(c)', resident)
  BY <1>3 DEF Asks, Nodewise
<1>. QED
  BY <1>2, <1>3, <1>4, <1>5, <1>6, InformedKept

-----------------------------------------------------------------------------
\* The ids that are issued are new, and name the buffers they are issued for.
LEMMA IssuedTable ==
    ASSUME Books, NEW bufs, NEW stamps, Sequence(bufs), stamps \in Seq(Nat), Issue(bufs, stamps),
           Len(bufs) \in 0 .. Len(stamps)
    PROVE  /\ TableGrows({})
           /\ \A k \in 1 .. Len(bufs) :
                /\ Len(meant) + k \notin DOMAIN meant /\ Len(meant) + k \in DOMAIN meant'
                /\ Len(meant) + k \in DOMAIN resident'
                /\ resident'[Len(meant) + k] = bufs[k] /\ meant'[Len(meant) + k] = stamps[k]
<1>. DEFINE n == Len(meant)
            b == Len(bufs)
<1>1. meant \in Seq(Nat) /\ DOMAIN resident \subseteq DOMAIN meant
  BY DEF Books
<1>2. n \in Nat /\ DOMAIN meant = 1 .. n /\ Len(stamps) \in Nat /\ b \in Nat /\ b <= Len(stamps)
  BY <1>1
<1>3. meant' = meant \o stamps
  BY DEF Issue
<1>4. /\ DOMAIN meant \subseteq DOMAIN meant'
      /\ DOMAIN resident' = DOMAIN resident \cup {n + k : k \in 1 .. b}
      /\ \A id \in DOMAIN resident : resident'[id] = resident[id]
      /\ \A k \in 1 .. b : n + k \in DOMAIN meant' /\ resident'[n + k] = bufs[k]
  BY IssueIs
<1>. HIDE DEF n, b
<1>5. \A id \in DOMAIN meant : meant'[id] = meant[id]
  BY <1>1, <1>3
<1>6. ASSUME NEW k \in 1 .. b PROVE n + k \notin DOMAIN meant /\ meant'[n + k] = stamps[k]
  <2>1. k \in 1 .. Len(stamps) /\ n + k \notin 1 .. n
    BY <1>2
  <2>2. (meant \o stamps)[Len(meant) + k] = stamps[k]
    <3>1. \A i \in 1 .. Len(stamps) : (meant \o stamps)[Len(meant) + i] = stamps[i]
      BY <1>1
    <3>. QED
      BY <2>1, <3>1
  <2>. QED
    BY <1>2, <1>3, <2>1, <2>2 DEF n
<1>7. \A id \in DOMAIN resident' : id \in DOMAIN resident \/ id \notin DOMAIN meant
  BY <1>4, <1>6
<1>8. \A k \in 1 .. b : n + k \in DOMAIN resident'
  BY <1>4
<1>9. TableGrows({})
  BY <1>1, <1>4, <1>5, <1>7 DEF TableGrows
<1>. QED
  BY <1>4, <1>6, <1>8, <1>9 DEF n, b

\* What submit changes: what the queue takes, and who has the new id.
SubmittedAs(c, n) ==
  LET r == call[c] IN
  /\ pc[c] = "record" /\ r.work # <<>> /\ OthersTold(c) /\ owned'[c] = owned[c]
  /\ queue' = Append(queue, [slot |-> r.slot, fetch |-> r.kind = "fetch", work |-> r.work])
  /\ UNCHANGED <<staging, memory, stamp, timedOut>>
  /\ TableGrows({})
  /\ r.kind \in {"run", "submit"} =>
       /\ Len(r.outs) = 1 /\ Len(r.work) = 1
       /\ n \notin DOMAIN meant /\ n \in DOMAIN meant' /\ n \in DOMAIN resident'
       /\ resident'[n] = r.outs[1] /\ meant'[n] = r.work[1].stamp
  /\ r.kind \notin {"run", "submit"} => UNCHANGED ids
  /\ r.kind = "submit" =>
       /\ call'[c] = Idle /\ pc'[c] = "idle"
       /\ \E e : /\ e.slot = r.slot /\ e.scratch = r.scratch /\ DOMAIN e.ids = {1} /\ e.ids[1] = n
                 /\ pending'[c] = Append(pending[c], e)
  /\ r.kind # "submit" =>
       /\ pending'[c] = pending[c]
       /\ pc'[c] = IF r.kind = "fetch" THEN "wait read" ELSE "sync"
       /\ r.kind # "run" => call'[c] = r
       /\ r.kind = "run" =>
            /\ call'[c].kind = "run" /\ call'[c].id = n /\ call'[c].slot = r.slot
            /\ call'[c].scratch = r.scratch /\ call'[c].outs = r.outs /\ call'[c].work = r.work

LEMMA SubmitIs ==
    ASSUME IInv, Calls, Books, Informing, NEW c \in Client, Submit(c)
    PROVE  SubmittedAs(c, Len(meant) + 1)
<1>. DEFINE r == call[c]
            n == Len(meant)
            w == Stamps(r.work)
            e == [slot |-> r.slot, scratch |-> r.scratch, ids |-> Issued(Len(r.outs))]
<1>1. /\ Recorded(c)
      /\ UNCHANGED <<staging, memory, stamp, owned, timedOut>>
      /\ queue' = Append(queue, [slot |-> r.slot, fetch |-> r.kind = "fetch", work |-> r.work])
      /\ r.kind \in {"run", "submit"} => Issue(r.outs, w)
      /\ r.kind \notin {"run", "submit"} => UNCHANGED ids
      /\ r.kind = "submit" => pending' = [pending EXCEPT ![c] = Append(@, e)] /\ Return(c)
      /\ r.kind # "submit" =>
           /\ pending' = pending
           /\ pc' = [pc EXCEPT ![c] = IF r.kind = "fetch" THEN "wait read" ELSE "sync"]
           /\ call' = IF r.kind \in {"run", "submit"}
                        THEN [call EXCEPT ![c].id = n + 1] ELSE call
  BY DEF Submit, bounds
<1>2. /\ DOMAIN call = Client /\ DOMAIN pc = Client /\ DOMAIN pending = Client
      /\ pc[c] = "record" /\ r.work # <<>> /\ FormedCall(r, "record")
      /\ r.kind \in {"run", "submit"} => Len(r.work) = Len(r.nodes)
      /\ n \in Nat
  <2>1. pc[c] = "record" /\ r.work # <<>> /\ (r.kind \in {"run", "submit"} => Len(r.work) = Len(r.nodes))
    BY <1>1 DEF Recorded
  <2>2. FormedCall(r, "record")
    BY <2>1 DEF Calls
  <2>3. meant \in Seq(Nat)
    BY DEF Books
  <2>4. n \in Nat
    BY <2>3
  <2>. QED
    BY <2>1, <2>2, <2>4 DEF IInv, Shaped
<1>3. DOMAIN r = DOMAIN Idle /\ r.kind \in {"fetch", "chain"} \cup Nodewise
  BY <1>2 DEF FormedCall
<1>4. r.kind \in {"run", "submit"} =>
        /\ TableGrows({}) /\ Len(r.outs) = 1 /\ Len(r.work) = 1
        /\ n + 1 \notin DOMAIN meant /\ n + 1 \in DOMAIN meant' /\ n + 1 \in DOMAIN resident'
        /\ resident'[n + 1] = r.outs[1] /\ meant'[n + 1] = r.work[1].stamp
  <2>. SUFFICES ASSUME r.kind \in {"run", "submit"}
                PROVE  /\ TableGrows({}) /\ Len(r.outs) = 1 /\ Len(r.work) = 1
                       /\ n + 1 \notin DOMAIN meant /\ n + 1 \in DOMAIN meant'
                       /\ n + 1 \in DOMAIN resident'
                       /\ resident'[n + 1] = r.outs[1] /\ meant'[n + 1] = r.work[1].stamp
    OBVIOUS
  <2>1. Len(r.work) = 1 /\ Len(r.outs) = 1
    <3>1. Len(r.nodes) = 1
      BY <1>2 DEF Informing, Informed, Asks, Nodewise
    <3>. QED
      BY <1>2, <3>1 DEF FormedCall, Nodewise
  <2>2. Sequence(r.work) /\ Sequence(r.outs) /\ \A i \in DOMAIN r.work : r.work[i].stamp \in Nat
    BY <1>2 DEF FormedCall
  <2>3. w \in Seq(Nat) /\ Len(w) = 1
    BY <2>1, <2>2, StampsAre
  <2>4. Issue(r.outs, w) /\ Len(r.outs) \in 0 .. Len(w) /\ 1 \in 1 .. Len(r.outs)
    <3>1. Issue(r.outs, w)
      BY <1>1
    <3>. HIDE DEF w, r
    <3>. QED
      BY <2>1, <2>3, <3>1
  <2>5. w[1] = r.work[1].stamp
    <3>1. DOMAIN w = {1} /\ DOMAIN w = DOMAIN r.work
      BY <2>3 DEF Stamps
    <3>. QED
      BY <3>1 DEF Stamps
  <2>. HIDE DEF w, n
  <2>6. /\ TableGrows({})
        /\ n + 1 \notin DOMAIN meant /\ n + 1 \in DOMAIN meant' /\ n + 1 \in DOMAIN resident'
        /\ resident'[n + 1] = r.outs[1] /\ meant'[n + 1] = w[1]
    BY <2>2, <2>3, <2>4, IssuedTable DEF n
  <2>. QED
    BY <2>1, <2>5, <2>6
<1>5. r.kind \notin {"run", "submit"} => TableGrows({})
  BY <1>1 DEF TableGrows, ids
<1>6. OthersTold(c) /\ owned'[c] = owned[c]
  <2>1. CASE r.kind = "submit"
    BY <1>1, <1>2, <2>1, ReturnIs DEF OthersTold, OthersKept
  <2>2. CASE r.kind # "submit"
    BY <1>1, <1>2, <2>2 DEF OthersTold, OthersKept
  <2>. QED
    BY <2>1, <2>2
<1>7. r.kind = "submit" =>
        /\ call'[c] = Idle /\ pc'[c] = "idle" /\ DOMAIN e.ids = {1} /\ e.ids[1] = n + 1
        /\ e.slot = r.slot /\ e.scratch = r.scratch /\ pending'[c] = Append(pending[c], e)
  <2>. SUFFICES ASSUME r.kind = "submit"
                PROVE  /\ call'[c] = Idle /\ pc'[c] = "idle"
                       /\ DOMAIN e.ids = {1} /\ e.ids[1] = n + 1
                       /\ e.slot = r.slot /\ e.scratch = r.scratch
                       /\ pending'[c] = Append(pending[c], e)
    OBVIOUS
  <2>1. call'[c] = Idle /\ pc'[c] = "idle"
    BY <1>1, ReturnIs
  <2>2. DOMAIN Issued(1) = {1} /\ Issued(1)[1] = n + 1
    BY <1>2 DEF Issued
  <2>3. e.ids = Issued(1)
    BY <1>4
  <2>. QED
    BY <1>1, <1>2, <2>1, <2>2, <2>3
<1>. HIDE DEF e, n
<1>8. r.kind # "submit" =>
        /\ pending'[c] = pending[c]
        /\ pc'[c] = IF r.kind = "fetch" THEN "wait read" ELSE "sync"
        /\ r.kind # "run" => call'[c] = r
        /\ r.kind = "run" =>
             /\ call'[c].kind = "run" /\ call'[c].id = n + 1 /\ call'[c].slot = r.slot
             /\ call'[c].scratch = r.scratch /\ call'[c].outs = r.outs /\ call'[c].work = r.work
  <2>. SUFFICES ASSUME r.kind # "submit"
                PROVE  /\ pending'[c] = pending[c]
                       /\ pc'[c] = IF r.kind = "fetch" THEN "wait read" ELSE "sync"
                       /\ r.kind # "run" => call'[c] = r
                       /\ r.kind = "run" =>
                            /\ call'[c].kind = "run" /\ call'[c].id = n + 1
                            /\ call'[c].slot = r.slot /\ call'[c].scratch = r.scratch
                            /\ call'[c].outs = r.outs /\ call'[c].work = r.work
    OBVIOUS
  <2>1. pending'[c] = pending[c] /\ pc'[c] = IF r.kind = "fetch" THEN "wait read" ELSE "sync"
    BY <1>1, <1>2
  <2>2. r.kind # "run" => call'[c] = r
    BY <1>1
  <2>3. ASSUME r.kind = "run"
        PROVE  /\ call'[c].kind = "run" /\ call'[c].id = n + 1
               /\ call'[c].slot = r.slot /\ call'[c].scratch = r.scratch
               /\ call'[c].outs = r.outs /\ call'[c].work = r.work
    <3>1. call' = [call EXCEPT ![c].id = n + 1]
      BY <1>1, <2>3
    <3>2. call'[c] = [r EXCEPT !.id = n + 1]
      BY <1>2, <3>1
    <3>. HIDE DEF r
    <3>. QED
      BY <1>3, <2>3, <3>2, IdleIs
  <2>. QED
    BY <2>1, <2>2, <2>3
<1>. HIDE DEF w
<1>9. SubmittedAs(c, n + 1)
  BY <1>1, <1>2, <1>4, <1>5, <1>6, <1>7, <1>8 DEF SubmittedAs
<1>. QED
  BY <1>9 DEF n

\* What a wait that ended changes: the ids the caller owns.
SyncedAs(c) ==
  LET r == call[c] IN
  /\ pc[c] = "wait sync" /\ fence[r.slot] /\ call'[c] = Idle /\ pc'[c] = "idle"
  /\ OthersTold(c) /\ pending'[c] = pending[c]
  /\ UNCHANGED <<queue, staging, stamp, timedOut>>
  /\ TableGrows({})
  /\ \A id \in owned'[c] :
       \/ id \in owned[c]
       \/ r.kind \in {"run", "wait"} /\ id = r.id
       \/ /\ id \notin DOMAIN meant /\ id \in DOMAIN meant' /\ id \in DOMAIN resident'
          /\ \/ /\ r.kind = "batch"
                /\ \E k \in DOMAIN r.outs : resident'[id] = r.outs[k] /\ meant'[id] = r.work[k].stamp
             \/ /\ r.kind = "chain"
                /\ resident'[id] = r.outs[1] /\ meant'[id] = Last(r.work).stamp

\* The caller owns one new id for each of the buffers.
HandedNew(c, bufs, stamps) ==
  /\ OthersTold(c) /\ TableGrows({})
  /\ \A id \in owned'[c] :
       \/ id \in owned[c]
       \/ /\ id \notin DOMAIN meant /\ id \in DOMAIN meant' /\ id \in DOMAIN resident'
          /\ \E k \in 1 .. Len(bufs) : resident'[id] = bufs[k] /\ meant'[id] = stamps[k]

LEMMA SyncedIs ==
    ASSUME IInv, Calls, Books, NEW c \in Client, Synced(c)
    PROVE  SyncedAs(c)
<1>. DEFINE r == call[c]
            n == Len(meant)
<1>1. /\ pc[c] = "wait sync" /\ fence[r.slot] /\ Return(c) /\ pending' = pending
      /\ UNCHANGED <<queue, staging, stamp, timedOut>>
  BY DEF Synced, bounds
<1>2. call'[c] = Idle /\ pc'[c] = "idle" /\ OthersKept(c)
  BY <1>1, ReturnIs DEF OthersKept
<1>3. FormedCall(r, "wait sync") /\ DOMAIN owned = Client
  BY <1>1 DEF Calls, Books
<1>4. r.kind \in {"run", "wait", "batch", "chain"}
  BY <1>3 DEF FormedCall
<1>5. CASE r.kind \in {"run", "wait"}
  <2>1. owned' = [owned EXCEPT ![c] = @ \cup {r.id}] /\ UNCHANGED ids
    BY <1>5 DEF Synced
  <2>2. OthersTold(c) /\ owned'[c] = owned[c] \cup {r.id}
    BY <1>2, <1>3, <2>1 DEF OthersTold
  <2>3. TableGrows({})
    BY <2>1 DEF TableGrows, ids
  <2>. QED
    BY <1>1, <1>2, <1>5, <2>2, <2>3 DEF SyncedAs
<1>6. ASSUME NEW bufs, NEW stamps, Sequence(bufs), stamps \in Seq(Nat), Issue(bufs, stamps),
             Len(bufs) \in 0 .. Len(stamps), Len(bufs) \in Nat,
             owned' = [owned EXCEPT ![c] = @ \cup ToSet(Issued(Len(bufs)))]
      PROVE  HandedNew(c, bufs, stamps)
  <2>1. /\ TableGrows({})
        /\ \A k \in 1 .. Len(bufs) :
             /\ n + k \notin DOMAIN meant /\ n + k \in DOMAIN meant' /\ n + k \in DOMAIN resident'
             /\ resident'[n + k] = bufs[k] /\ meant'[n + k] = stamps[k]
    BY <1>6, IssuedTable
  <2>2. meant \in Seq(Nat)
    BY DEF Books
  <2>3. n \in Nat
    BY <2>2
  <2>. HIDE DEF n
  <2>4. ToSet(Issued(Len(bufs))) = {n + k : k \in 1 .. Len(bufs)}
    BY <1>6, <2>3, IssuedAre DEF n
  <2>5. \A id \in owned'[c] : id \in owned[c] \/ \E k \in 1 .. Len(bufs) : id = n + k
    BY <1>3, <1>6, <2>4
  <2>6. OthersTold(c)
    <3>. DEFINE S == ToSet(Issued(Len(bufs)))
    <3>1. owned' = [owned EXCEPT ![c] = @ \cup S]
      BY <1>6
    <3>. HIDE DEF S
    <3>. QED
      BY <1>2, <1>3, <3>1 DEF OthersTold
  <2>. QED
    BY <2>1, <2>5, <2>6 DEF HandedNew
<1>7. r.kind \in {"batch", "chain"} =>
        /\ r.work # <<>> /\ Sequence(r.work) /\ Sequence(r.outs) /\ Len(r.work) \in Nat
        /\ \A i \in DOMAIN r.work : r.work[i].stamp \in Nat
  <2>1. r.kind \in {"batch", "chain"} => r.work # <<>>
    BY <1>3 DEF FormedCall
  <2>2. /\ Sequence(r.work) /\ Sequence(r.outs)
        /\ \A i \in DOMAIN r.work : r.work[i].stamp \in Nat
    BY <1>3 DEF FormedCall
  <2>3. Len(r.work) \in Nat
    BY <2>2 DEF Sequence
  <2>. QED
    BY <2>1, <2>2, <2>3
<1>8. CASE r.kind = "batch"
  <2>. DEFINE w == Stamps(r.work)
  <2>1. owned' = [owned EXCEPT ![c] = @ \cup ToSet(Issued(Len(r.outs)))] /\ Issue(r.outs, w)
    BY <1>8 DEF Synced
  <2>2. w \in Seq(Nat) /\ Len(w) = Len(r.work)
    BY <1>7, <1>8, StampsAre
  <2>3. Len(r.outs) = Len(r.work)
    BY <1>3, <1>8 DEF FormedCall, Nodewise
  <2>4. Len(r.outs) \in 0 .. Len(w) /\ Len(r.outs) \in Nat
    BY <1>7, <1>8, <2>2, <2>3
  <2>5. DOMAIN r.outs = 1 .. Len(r.outs) /\ DOMAIN r.work = 1 .. Len(r.work)
    BY <1>7, <1>8 DEF Sequence
  <2>6. \A k \in 1 .. Len(r.outs) : k \in DOMAIN r.outs /\ w[k] = r.work[k].stamp
    BY <2>3, <2>5 DEF Stamps
  <2>. HIDE DEF w
  <2>7. HandedNew(c, r.outs, w)
    <3>. DEFINE o == r.outs
    <3>1. Sequence(o) /\ Issue(o, w) /\ Len(o) \in 0 .. Len(w) /\ Len(o) \in Nat
          /\ owned' = [owned EXCEPT ![c] = @ \cup ToSet(Issued(Len(o)))]
      BY <1>7, <1>8, <2>1, <2>4
    <3>. HIDE DEF o
    <3>2. HandedNew(c, o, w)
      BY <1>6, <2>2, <3>1
    <3>. QED
      BY <3>2 DEF o
  <2>8. \A id \in owned'[c] :
          \/ id \in owned[c]
          \/ /\ id \notin DOMAIN meant /\ id \in DOMAIN meant' /\ id \in DOMAIN resident'
             /\ \E k \in DOMAIN r.outs : resident'[id] = r.outs[k] /\ meant'[id] = r.work[k].stamp
    BY <2>6, <2>7 DEF HandedNew
  <2>. QED
    BY <1>1, <1>2, <1>8, <2>7, <2>8 DEF SyncedAs, HandedNew
<1>9. CASE r.kind = "chain"
  <2>. DEFINE a == r.outs[1]
              w == <<Last(r.work).stamp>>
  <2>1. owned' = [owned EXCEPT ![c] = @ \cup ToSet(Issued(1))] /\ Issue(<<a>>, w)
    BY <1>9 DEF Synced
  <2>2. Last(r.work).stamp \in Nat
    <3>1. PICK T : r.work \in Seq(T)
      BY <1>7, <1>9 DEF Sequence
    <3>2. Len(r.work) \in DOMAIN r.work /\ Last(r.work) = r.work[Len(r.work)]
      BY <1>7, <1>9, <3>1 DEF Last
    <3>. QED
      BY <1>7, <1>9, <3>2
  <2>3. w \in Seq(Nat) /\ Len(w) = 1 /\ w[1] = Last(r.work).stamp
    <3>. HIDE DEF r
    <3>. QED
      BY <2>2
  <2>. HIDE DEF w
  <2>4. Sequence(<<a>>) /\ Len(<<a>>) = 1 /\ <<a>>[1] = a
    BY SingletonIs
  <2>5. Len(<<a>>) \in 0 .. Len(w) /\ Len(<<a>>) \in Nat
    <3>. HIDE DEF a
    <3>. QED
      BY <2>3, <2>4
  <2>6. owned' = [owned EXCEPT ![c] = @ \cup ToSet(Issued(Len(<<a>>)))]
    BY <2>1, <2>4
  <2>7. HandedNew(c, <<a>>, w)
    <3>. DEFINE o == <<a>>
    <3>1. Sequence(o) /\ Issue(o, w) /\ Len(o) \in 0 .. Len(w) /\ Len(o) \in Nat
          /\ owned' = [owned EXCEPT ![c] = @ \cup ToSet(Issued(Len(o)))]
      BY <2>1, <2>4, <2>5, <2>6
    <3>. HIDE DEF o
    <3>2. HandedNew(c, o, w)
      BY <1>6, <2>3, <3>1
    <3>. QED
      BY <3>2 DEF o
  <2>8. \A k \in 1 .. Len(<<a>>) : k = 1
    BY <2>4
  <2>9. \A id \in owned'[c] :
             \/ id \in owned[c]
             \/ /\ id \notin DOMAIN meant /\ id \in DOMAIN meant' /\ id \in DOMAIN resident'
                /\ resident'[id] = a /\ meant'[id] = Last(r.work).stamp
    <3>. HIDE DEF a
    <3>. QED
      BY <2>3, <2>4, <2>7, <2>8 DEF HandedNew
  <2>. QED
    BY <1>1, <1>2, <1>9, <2>7, <2>9 DEF SyncedAs, HandedNew
<1>. QED
  BY <1>4, <1>5, <1>8, <1>9

-----------------------------------------------------------------------------
LEMMA SubmitInformed ==
    ASSUME IInv, Calls, Books, Informing, NEW c \in Client, Submit(c)
    PROVE  Informing' /\ Change(c)
<1>. DEFINE r == call[c]
            n == Len(meant) + 1
<1>1. SubmittedAs(c, n)
  BY SubmitIs
<1>. HIDE DEF n
<1>2. /\ pc[c] = "record" /\ OthersTold(c) /\ owned'[c] = owned[c] /\ TableGrows({})
      /\ FormedCall(r, "record") /\ Sequence(pending[c]) /\ Informed(c)
  BY <1>1 DEF SubmittedAs, Calls, IInv, Shaped, Informing
<1>3. r.kind \in {"fetch", "chain", "run", "submit", "batch"}
  BY <1>2 DEF FormedCall, Nodewise
<1>4. owned[c] \subseteq Told(c) /\ \A k \in DOMAIN pending[c] : pending[c][k].ids[1] \in Told(c)
  BY DEF Told, ToldOf
<1>5. /\ Told(c) \subseteq DOMAIN meant'
      /\ \A k \in DOMAIN pending[c] :
           DOMAIN pending[c][k].ids = {1} /\ pending[c][k].ids[1] \in DOMAIN resident'
  BY <1>2 DEF Informed, TableGrows
<1>6. ASSUME \A id \in Told(c)' : id \in Told(c) \/ (id = n /\ r.kind \in {"run", "submit"}),
             \A k \in DOMAIN pending'[c] :
               DOMAIN pending'[c][k].ids = {1} /\ pending'[c][k].ids[1] \in DOMAIN resident',
             Asks(call'[c], pc'[c], owned'[c], Told(c)', resident')
      PROVE  Informing' /\ Change(c)
  <2>1. Told(c)' \subseteq DOMAIN meant' /\ Told(c)' \cap DOMAIN meant \subseteq Told(c)
    BY <1>1, <1>5, <1>6 DEF SubmittedAs
  <2>2. Informed(c)'
    BY <1>6, <2>1 DEF Informed
  <2>3. Change(c)
    BY <1>2, <2>1 DEF Change
  <2>. QED
    BY <2>2, <2>3, InformedStep
<1>7. CASE r.kind = "submit"
  <2>1. PICK e : DOMAIN e.ids = {1} /\ e.ids[1] = n /\ pending'[c] = Append(pending[c], e)
    BY <1>1, <1>7 DEF SubmittedAs
  <2>2. call'[c] = Idle /\ pc'[c] = "idle" /\ n \in DOMAIN resident'
    BY <1>1, <1>7 DEF SubmittedAs
  <2>3. \A k \in DOMAIN pending'[c] :
          pending'[c][k] = e \/ (k \in DOMAIN pending[c] /\ pending'[c][k] = pending[c][k])
    BY <1>2, <2>1, AppendIs
  <2>4. \A id \in Told(c)' : id \in Told(c) \/ (id = n /\ r.kind \in {"run", "submit"})
    <3>1. \A id \in Told(c)' :
            id \in owned'[c] \/ \E i \in DOMAIN pending'[c] : id = pending'[c][i].ids[1]
      BY <2>2 DEF Told, ToldOf
    <3>. QED
      BY <1>2, <1>4, <1>7, <2>1, <2>3, <3>1
  <2>5. Asks(call'[c], pc'[c], owned'[c], Told(c)', resident')
    BY <2>2, IdleIs DEF Asks, Nodewise
  <2>6. \A k \in DOMAIN pending'[c] :
          DOMAIN pending'[c][k].ids = {1} /\ pending'[c][k].ids[1] \in DOMAIN resident'
    BY <1>5, <2>1, <2>2, <2>3
  <2>. QED
    BY <1>6, <2>4, <2>5, <2>6
<1>8. CASE r.kind # "submit"
  <2>1. /\ pending'[c] = pending[c] /\ pc'[c] = IF r.kind = "fetch" THEN "wait read" ELSE "sync"
        /\ call'[c].kind = r.kind /\ (r.kind = "run" => call'[c].id = n)
        /\ (r.kind # "run" => call'[c] = r)
    BY <1>1, <1>3, <1>8 DEF SubmittedAs
  <2>2. \A id \in Told(c)' : id \in Told(c) \/ (id = n /\ r.kind \in {"run", "submit"})
    <3>1. \A id \in Told(c)' :
            \/ id \in owned'[c]
            \/ \E i \in DOMAIN pending'[c] : id = pending'[c][i].ids[1]
            \/ id = call'[c].id /\ call'[c].kind \in {"run", "wait"}
      BY DEF Told, ToldOf
    <3>. QED
      BY <1>2, <1>3, <1>4, <2>1, <3>1
  <2>3. Asks(call'[c], pc'[c], owned'[c], Told(c)', resident')
    <3>1. CASE r.kind = "fetch"
      <4>1. r.id \in owned[c] /\ r.id \in DOMAIN resident /\ r.src = resident[r.id].h
        BY <1>2, <3>1 DEF Informed, Asks
      <4>2. call'[c] = r /\ UNCHANGED ids
        BY <1>1, <3>1, <2>1 DEF SubmittedAs
      <4>. QED
        BY <1>2, <3>1, <4>1, <4>2 DEF Asks, Nodewise, ids
    <3>2. CASE r.kind # "fetch"
      BY <2>1, <3>2 DEF Asks
    <3>. QED
      BY <3>1, <3>2
  <2>. QED
    BY <1>5, <1>6, <2>1, <2>2, <2>3
<1>. QED
  BY <1>7, <1>8

LEMMA SyncedInformed ==
    ASSUME IInv, Calls, Books, Informing, NEW c \in Client, Synced(c)
    PROVE  Informing' /\ Change(c)
<1>1. SyncedAs(c)
  BY SyncedIs
<1>2. /\ pc[c] = "wait sync" /\ call'[c] = Idle /\ pc'[c] = "idle"
      /\ OthersTold(c) /\ pending'[c] = pending[c] /\ TableGrows({}) /\ Informed(c)
  BY <1>1 DEF SyncedAs, Informing
<1>3. owned[c] \subseteq Told(c) /\ \A k \in DOMAIN pending[c] : pending[c][k].ids[1] \in Told(c)
  BY DEF Told, ToldOf
<1>4. call[c].kind \in {"run", "wait"} => call[c].id \in Told(c)
  BY <1>2 DEF Told, ToldOf
<1>5. \A id \in Told(c)' : id \in Told(c) \/ (id \notin DOMAIN meant /\ id \in DOMAIN meant')
  <2>1. \A id \in Told(c)' :
          id \in owned'[c] \/ \E i \in DOMAIN pending'[c] : id = pending'[c][i].ids[1]
    BY <1>2 DEF Told, ToldOf
  <2>2. \A id \in owned'[c] : id \in Told(c) \/ (id \notin DOMAIN meant /\ id \in DOMAIN meant')
    BY <1>1, <1>3, <1>4 DEF SyncedAs
  <2>3. \A i \in DOMAIN pending'[c] : pending'[c][i].ids[1] \in Told(c)
    BY <1>2, <1>3
  <2>. HIDE <1>1, <1>2, <1>3, <1>4
  <2>. QED
    BY <2>1, <2>2, <2>3
<1>6. Told(c) \subseteq DOMAIN meant /\ DOMAIN meant \subseteq DOMAIN meant'
  BY <1>2 DEF Informed, TableGrows
<1>7. Asks(call'[c], pc'[c], owned'[c], Told(c)', resident')
  BY <1>2, IdleIs DEF Asks, Nodewise
<1>8. \A k \in DOMAIN pending'[c] :
        DOMAIN pending'[c][k].ids = {1} /\ pending'[c][k].ids[1] \in DOMAIN resident'
  BY <1>2 DEF Informed, TableGrows
<1>9. Told(c)' \subseteq DOMAIN meant' /\ Told(c)' \cap DOMAIN meant \subseteq Told(c)
  BY <1>5, <1>6
<1>10. Informed(c)'
  BY <1>7, <1>8, <1>9 DEF Informed
<1>11. Change(c)
  BY <1>2, <1>9 DEF Change
<1>. QED
  BY <1>10, <1>11, InformedStep

\* What a release changes, or a new record for a buffer: at most one id goes.
ReleasedAs(c, gone) ==
  /\ pc[c] = "idle" /\ gone \subseteq owned[c] /\ (gone # {} => pending[c] = <<>>)
  /\ UNCHANGED <<staging, queue, pc, call, pending, owned, meant, stamp, timedOut>>
  /\ TableGrows(gone)

LEMMA ReleaseIs ==
    ASSUME NEW c \in Client, Release(c) \/ Relabel(c)
    PROVE  \E gone : ReleasedAs(c, gone)
<1>1. CASE Release(c)
  <2>1. PICK id \in owned[c] \cap DOMAIN resident :
          resident' = [i \in DOMAIN resident \ {id} |-> resident[i]]
    BY <1>1 DEF Release
  <2>2. /\ pc[c] = "idle" /\ pending[c] = <<>>
        /\ UNCHANGED <<staging, queue, pc, call, pending, owned, meant, stamp, timedOut>>
    BY <1>1 DEF Release, slots, bounds
  <2>3. TableGrows({id})
    BY <2>1, <2>2 DEF TableGrows
  <2>4. ReleasedAs(c, {id})
    BY <2>1, <2>2, <2>3 DEF ReleasedAs
  <2>. QED
    BY <2>4
<1>2. CASE Relabel(c)
  <2>1. PICK id \in owned[c] \cap DOMAIN resident, size \in Size :
          resident' = [resident EXCEPT ![id].size = size]
    BY <1>2 DEF Relabel
  <2>2. /\ pc[c] = "idle"
        /\ UNCHANGED <<staging, queue, pc, call, pending, owned, meant, stamp, timedOut>>
    BY <1>2 DEF Relabel, slots, bounds
  <2>3. /\ DOMAIN resident' = DOMAIN resident
        /\ \A i \in DOMAIN resident : resident'[i].h = resident[i].h
    BY <2>1
  <2>4. TableGrows({})
    BY <2>2, <2>3 DEF TableGrows
  <2>5. ReleasedAs(c, {})
    BY <2>2, <2>4 DEF ReleasedAs
  <2>. QED
    BY <2>5
<1>. QED
  BY <1>1, <1>2

LEMMA ReleaseInformed ==
    ASSUME Books, Informing, NEW c \in Client, Release(c) \/ Relabel(c)
    PROVE  Informing' /\ Change(c)
<1>1. PICK gone : ReleasedAs(c, gone)
  BY ReleaseIs
<1>2. /\ pc[c] = "idle" /\ gone \subseteq owned[c] /\ (gone # {} => pending[c] = <<>>)
      /\ UNCHANGED <<pc, call, pending, owned, meant>> /\ TableGrows(gone) /\ Informed(c)
  BY <1>1 DEF ReleasedAs, Informing
<1>3. Told(c)' = Told(c) /\ OthersTold(c)
  BY <1>2 DEF Told, OthersTold, OthersKept
<1>4. Change(c)
  BY <1>2, <1>3 DEF Change
<1>5. \A k \in DOMAIN pending'[c] :
        DOMAIN pending'[c][k].ids = {1} /\ pending'[c][k].ids[1] \in DOMAIN resident'
  <2>1. CASE gone = {}
    BY <1>2, <2>1 DEF Informed, TableGrows
  <2>2. CASE pending[c] = <<>>
    BY <1>2, <2>2, EmptyIs
  <2>. QED
    BY <1>2, <2>1, <2>2
<1>6. Told(c)' \subseteq DOMAIN meant'
  BY <1>2, <1>3 DEF Informed
<1>7. Asks(call'[c], pc'[c], owned'[c], Told(c)', resident')
  BY <1>2 DEF Asks
<1>8. Informed(c)'
  BY <1>5, <1>6, <1>7 DEF Informed
<1>. QED
  BY <1>4, <1>8, InformedStep

LEMMA ClientInformed ==
    ASSUME MInv, Informing, NEW c \in Client,
           \/ Begin(c) \/ BeginFetch(c) \/ BeginWait(c) \/ Release(c) \/ Relabel(c) \/ Continue(c)
    PROVE  Informing' /\ Change(c)
<1>. USE DEF MInv
<1>1. CASE Begin(c)
  BY <1>1, BeginInformed
<1>2. CASE BeginFetch(c)
  BY <1>2, BeginFetchInformed
<1>3. CASE BeginWait(c)
  BY <1>3, BeginWaitInformed
<1>4. CASE Release(c) \/ Relabel(c)
  BY <1>4, ReleaseInformed
<1>5. CASE Acquire(c)
  BY <1>5, AcquireInformed
<1>6. CASE SlotFree(c) \/ RecordNode(c) \/ RecordChain(c) \/ RecordFetch(c) \/ TakeSync(c)
  BY <1>6, InsideInformed
<1>7. CASE \/ SlotWaitFails(c) \/ SyncFails(c) \/ ReadBack(c) \/ ReadFails(c)
           \/ RecordNodeFails(c) \/ RecordChainFails(c) \/ RecordFetchFails(c) \/ SubmitFails(c)
  BY <1>7, LeavingInformed
<1>8. CASE Submit(c)
  BY <1>8, SubmitInformed
<1>9. CASE Synced(c)
  BY <1>9, SyncedInformed
<1>. QED
  BY <1>1, <1>2, <1>3, <1>4, <1>5, <1>6, <1>7, <1>8, <1>9 DEF Continue

LEMMA InformingSame ==
    ASSUME Informing, UNCHANGED <<ids, pc, call, pending, owned>>
    PROVE  Informing' /\ \A c \in Client : Told(c)' = Told(c)
<1>1. \A c \in Client : Told(c)' = Told(c)
  BY DEF Told
<1>2. \A c \in Client : Informed(c)'
  BY <1>1 DEF Informing, Informed, ids
<1>. QED
  BY <1>1, <1>2 DEF Informing

LEMMA InformingNext ==
    ASSUME MInv, Informing, [Next]_vars
    PROVE  Informing'
<1>1. CASE UNCHANGED vars
  BY <1>1, InformingSame DEF vars
<1>2. CASE DeviceRuns
  BY <1>2, InformingSame DEF DeviceRuns
<1>3. CASE \E c \in Client : \/ Begin(c) \/ BeginFetch(c) \/ BeginWait(c)
                             \/ Release(c) \/ Relabel(c) \/ Continue(c)
  BY <1>3, ClientInformed
<1>. QED
  BY <1>1, <1>2, <1>3 DEF Next

LEMMA InformingStarts == Init => Informing
<1>. SUFFICES ASSUME Init PROVE Informing
  OBVIOUS
<1>1. ASSUME NEW c \in Client PROVE Told(c) = {} /\ Informed(c)
  <2>1. pending[c] = <<>> /\ owned[c] = {} /\ call[c] = Idle /\ pc[c] = "idle"
    BY <1>1 DEF Init
  <2>2. Told(c) = {}
    BY <2>1, EmptyIs DEF Told, ToldOf
  <2>3. Asks(call[c], pc[c], owned[c], Told(c), resident)
    BY <2>1, IdleIs DEF Asks
  <2>. QED
    BY <2>1, <2>2, <2>3, EmptyIs DEF Informed
<1>. QED
  BY <1>1 DEF Informing

-----------------------------------------------------------------------------
\* No step of a client takes memory away or writes any.
LEMMA ClientGrown ==
    ASSUME MInv, NEW c \in Client,
           \/ Begin(c) \/ BeginFetch(c) \/ BeginWait(c) \/ Release(c) \/ Relabel(c) \/ Continue(c)
    PROVE  Grown
<1>. USE DEF MInv
<1>1. CASE memory' = memory
  <2>1. Memory' = Memory /\ cap' = cap /\ content' = content
    BY <1>1 DEF Memory, memory
  <2>2. Extends(Memory, Memory) /\ Len(content) = Len(cap)
    BY GrowsSame DEF Grows, Owners, Sound, Memory
  <2>. QED
    BY <2>1, <2>2 DEF Grown
<1>2. CASE RecordNode(c) \/ RecordChain(c)
  BY <1>2, RecordGrown
<1>3. CASE RecordNodeFails(c) \/ RecordChainFails(c) \/ RecordFetchFails(c) \/ SubmitFails(c)
  BY <1>3, RecordFailsGrown
<1>4. CASE Synced(c) \/ SyncFails(c) \/ Release(c)
  BY <1>4, SettledGrown
<1>5. CASE \/ Begin(c) \/ BeginFetch(c) \/ BeginWait(c) \/ Relabel(c) \/ Acquire(c) \/ SlotFree(c)
           \/ SlotWaitFails(c) \/ RecordFetch(c) \/ Submit(c) \/ TakeSync(c)
           \/ ReadBack(c) \/ ReadFails(c)
  <2>1. memory' = memory
    BY <1>5 DEF Begin, BeginFetch, BeginWait, Relabel, Acquire, SlotFree, SlotWaitFails,
         RecordFetch, Submit, TakeSync, ReadBack, ReadFails, memory
  <2>. QED
    BY <1>1, <2>1
<1>. QED
  BY <1>2, <1>3, <1>4, <1>5 DEF Continue

LEMMA GrownIs ==
    ASSUME Owners, Grown
    PROVE  /\ DOMAIN content = DOMAIN cap /\ DOMAIN content' = DOMAIN cap'
           /\ DOMAIN cap \subseteq DOMAIN cap' /\ DOMAIN cap' \subseteq Nat
           /\ \A h \in DOMAIN cap : content'[h] = content[h]
           /\ \A h \in DOMAIN cap' : h \notin DOMAIN cap => content'[h] = Junk
<1>1. /\ Memory.cap = cap /\ Memory.content = content
      /\ Memory'.cap = cap' /\ Memory'.content = content'
  BY DEF Memory
<1>2. Sound(Memory) /\ Extends(Memory, Memory') /\ Len(content') = Len(cap')
  BY DEF Owners, Grown
<1>3. cap \in Seq(Size) /\ content \in Seq(Nat) /\ Len(content) = Len(cap)
  BY <1>1, <1>2 DEF Sound, Memories
<1>. QED
  BY <1>1, <1>2, <1>3 DEF Extends

-----------------------------------------------------------------------------
(***************************************************************************)
(* What keeps memory from being given back while a submission uses it: a   *)
(* call or a pending submission that still has it in hand, or an id that   *)
(* only its client has been told of.                                       *)
(***************************************************************************)
Private(c, h) ==
  \E id \in DOMAIN resident : /\ resident[id].h = h
                              /\ \A d \in Client \ {c} : id \notin Told(d)

\* A client that is in a call, or has submissions to wait for, releases nothing.
Busy(c) == pc[c] # "idle" \/ pending[c] # <<>>

LEMMA PrivateKept ==
    ASSUME Books, Informing, NEW d \in Client, Change(d), NEW c \in Client, c # d \/ Busy(d),
           NEW h, Private(c, h)
    PROVE  Private(c, h)'
<1>1. PICK id \in DOMAIN resident : /\ resident[id].h = h
                                    /\ \A e \in Client \ {c} : id \notin Told(e)
  BY DEF Private
<1>2. PICK gone : /\ gone \subseteq owned[d] /\ (gone # {} => ~Busy(d))
                  /\ TableGrows(gone)
  BY DEF Change, Busy
<1>3. owned[d] \subseteq Told(d) /\ id \in DOMAIN meant
  BY DEF Told, ToldOf, Books
<1>4. id \in DOMAIN resident' /\ resident'[id].h = h
  BY <1>1, <1>2, <1>3 DEF TableGrows
<1>5. ASSUME NEW e \in Client \ {c} PROVE id \notin Told(e)'
  <2>1. CASE e = d
    BY <1>1, <1>3, <2>1 DEF Change
  <2>2. CASE e # d
    <3>1. Told(e)' = Told(e)
      BY <2>2, OthersToldSame DEF Change
    <3>. QED
      BY <1>1, <3>1
  <2>. QED
    BY <2>1, <2>2
<1>. QED
  BY <1>4, <1>5 DEF Private

LEMMA PrivateTold ==
    ASSUME Informing, NEW c \in Client, NEW id \in Told(c), id \in DOMAIN resident
    PROVE  Private(c, resident[id].h)
  BY DEF Informing, Private

LEMMA PrivateSame ==
    ASSUME UNCHANGED <<ids, pc, call, pending, owned>>, NEW c \in Client, NEW h, Private(c, h)
    PROVE  Private(c, h)'
<1>1. \A d \in Client : Told(d)' = Told(d)
  BY DEF Told
<1>. QED
  BY <1>1 DEF Private, ids

\* What a submission reads and writes.
Uses(work) == {work[i].src : i \in DOMAIN work} \cup {work[i].dst : i \in DOMAIN work}

\* All of it is in H, or behind an id that only c has been told of.
Safe(c, H, work) == \A h \in Uses(work) : h = Junk \/ h \in H \/ Private(c, h)

\* c has still to wait for the submission of slot s, and holds H until then.
Token(c, s, H) ==
  \/ \E k \in DOMAIN pending[c] : /\ pending[c][k].slot = s
                                  /\ H = HandlesIn(pending[c][k].scratch)
  \/ /\ pc[c] \in {"sync", "wait sync", "wait read"} /\ call[c].slot = s
     /\ H = HandlesIn(OutsOf(c)) \cup HandlesIn(call[c].scratch)

CoveredBy(c, e) == \E H : Token(c, e.slot, H) /\ Safe(c, H, e.work)

\* The buffers a call has taken to record with.
Taken(r) == IF r.kind = "fetch" THEN {} ELSE HandlesIn(r.outs) \cup HandlesIn(r.scratch)

Ready(c) == Safe(c, Taken(call[c]), call[c].work)

Covered ==
  /\ \A c \in Client : pc[c] = "record" => Ready(c)
  /\ ~timedOut => \A k \in DOMAIN queue : \E c \in Client : CoveredBy(c, queue[k])

LEMMA TokenLent ==
    ASSUME Owners, NEW c \in Client, NEW s, NEW H, Token(c, s, H)
    PROVE  H \subseteq Has(c) /\ H \cap freed = {} /\ Busy(c)
<1>1. H \subseteq Has(c)
  BY DEF Token, Has, HandOf, HeldBy
<1>2. Has(c) \cap freed = {}
  BY HandLent DEF Owners, Has, Lent, Memory
<1>3. Busy(c)
  BY EmptyIs DEF Token, Busy
<1>. QED
  BY <1>1, <1>2, <1>3

LEMMA CoveredLive ==
    ASSUME Owners, Covered
    PROVE  NothingFreedInFlight
<1>. SUFFICES ASSUME ~timedOut, NEW k \in DOMAIN queue, NEW i \in DOMAIN queue[k].work
              PROVE  {queue[k].work[i].src, queue[k].work[i].dst} \cap freed = {}
  BY DEF NothingFreedInFlight
<1>1. PICK c \in Client : CoveredBy(c, queue[k])
  BY DEF Covered
<1>2. PICK H : Token(c, queue[k].slot, H) /\ Safe(c, H, queue[k].work)
  BY <1>1 DEF CoveredBy
<1>3. H \cap freed = {}
  BY <1>2, TokenLent
<1>4. \A h : Private(c, h) => h \notin freed
  <2>1. TableOf(resident) \subseteq Lent(Memory)
    BY TableLent DEF Owners
  <2>. QED
    BY <2>1 DEF Private, TableOf, Lent, Memory
<1>5. Junk \notin freed
  <2>1. freed \subseteq 1 .. Len(cap) /\ Len(cap) \in Nat
    BY DEF Owners, Sound, Memory, Memories
  <2>. QED
    BY <2>1 DEF Junk
<1>. QED
  BY <1>2, <1>3, <1>4, <1>5 DEF Safe, Uses

\* A submission in flight keeps its token, until a wait has given up.
LEMMA PendingToken ==
    ASSUME NEW c \in Client, NEW s, NEW H, Token(c, s, H),
           pc[c] \notin {"sync", "wait sync", "wait read"}, pending'[c] = pending[c]
    PROVE  Token(c, s, H)'
<1>1. PICK k \in DOMAIN pending[c] : pending[c][k].slot = s /\ H = HandlesIn(pending[c][k].scratch)
  BY DEF Token
<1>2. k \in DOMAIN pending'[c] /\ pending'[c][k] = pending[c][k]
  BY <1>1
<1>. QED
  BY <1>1, <1>2 DEF Token

LEMMA OthersToken ==
    ASSUME NEW c, OthersKept(c), NEW d \in Client \ {c}, NEW s, NEW H, Token(d, s, H)
    PROVE  Token(d, s, H)'
<1>1. call'[d] = call[d] /\ pc'[d] = pc[d] /\ pending'[d] = pending[d]
  BY DEF OthersKept
<1>2. OutsOf(d)' = OutsOf(d)
  BY <1>1 DEF OutsOf
<1>. QED
  BY <1>1, <1>2 DEF Token

\* The wait that ends is for a submission that is no longer in flight.
LEMMA WaitedToken ==
    ASSUME IInv, NEW c \in Client, NEW s, NEW H, Token(c, s, H), InFlight(s), ~timedOut',
           pending'[c] = pending[c],
           \/ fence[call[c].slot]
           \/ WaitFails(call[c].slot)
    PROVE  Token(c, s, H)'
<1>1. ~InFlight(call[c].slot)
  <2>1. CASE fence[call[c].slot]
    BY <2>1 DEF IInv, Shaped, OneInFlight
  <2>2. CASE WaitFails(call[c].slot)
    BY <2>2 DEF WaitFails
  <2>. QED
    BY <2>1, <2>2
<1>2. PICK k \in DOMAIN pending[c] : pending[c][k].slot = s /\ H = HandlesIn(pending[c][k].scratch)
  BY <1>1 DEF Token
<1>3. k \in DOMAIN pending'[c] /\ pending'[c][k] = pending[c][k]
  BY <1>2
<1>. QED
  BY <1>2, <1>3 DEF Token

LEMMA TakenToken ==
    ASSUME IInv, NEW c \in Client, NEW s, NEW H, Token(c, s, H), BeginWait(c)
    PROVE  Token(c, s, H)'
<1>1. PICK k \in DOMAIN pending[c] :
        /\ pending' = [pending EXCEPT ![c] = RemoveAt(@, k)]
        /\ call' = [call EXCEPT ![c] = [Idle EXCEPT !.kind = "wait", !.slot = pending[c][k].slot,
                        !.scratch = pending[c][k].scratch, !.id = pending[c][k].ids[1]]]
  BY DEF BeginWait
<1>2. /\ DOMAIN call = Client /\ DOMAIN pc = Client /\ DOMAIN pending = Client
      /\ pc' = [pc EXCEPT ![c] = "sync"] /\ Sequence(pending[c]) /\ pc[c] = "idle"
  BY DEF BeginWait, IInv, Shaped
<1>3. /\ call'[c].slot = pending[c][k].slot /\ call'[c].kind = "wait" /\ pc'[c] = "sync"
      /\ call'[c].scratch = pending[c][k].scratch /\ pending'[c] = RemoveAt(pending[c], k)
  <2>. DEFINE q == [Idle EXCEPT !.kind = "wait", !.slot = pending[c][k].slot,
                        !.scratch = pending[c][k].scratch, !.id = pending[c][k].ids[1]]
  <2>1. /\ q.slot = pending[c][k].slot /\ q.kind = "wait" /\ q.scratch = pending[c][k].scratch
    BY DEF Idle
  <2>. HIDE DEF q
  <2>2. call'[c] = q
    BY <1>1, <1>2 DEF q
  <2>. QED
    BY <1>1, <1>2, <2>1, <2>2
<1>4. PICK i \in DOMAIN pending[c] : pending[c][i].slot = s /\ H = HandlesIn(pending[c][i].scratch)
  BY <1>2 DEF Token
<1>5. CASE i = k
  <2>1. OutsOf(c)' = <<>>
    BY <1>3 DEF OutsOf
  <2>2. HandlesIn(<<>>) = {}
    BY EmptyIs DEF HandlesIn
  <2>. QED
    BY <1>3, <1>4, <1>5, <2>1, <2>2 DEF Token
<1>6. CASE i # k
  <2>1. \E j \in DOMAIN RemoveAt(pending[c], k) : RemoveAt(pending[c], k)[j] = pending[c][i]
    BY <1>2, <1>6, RemoveAtIs
  <2>2. PICK j \in DOMAIN pending'[c] : pending'[c][j] = pending[c][i]
    BY <1>3, <2>1
  <2>. QED
    BY <1>4, <2>2 DEF Token
<1>. QED
  BY <1>5, <1>6

LEMMA TokenKept ==
    ASSUME MInv, Informing, NEW c \in Client, Change(c),
           \/ Begin(c) \/ BeginFetch(c) \/ BeginWait(c) \/ Release(c) \/ Relabel(c) \/ Continue(c),
           NEW d \in Client, NEW s, NEW H, Token(d, s, H), InFlight(s), ~timedOut'
    PROVE  Token(d, s, H)'
<1>. USE DEF MInv
<1>1. CASE d # c
  BY <1>1, OthersToken DEF Change, OthersTold
<1>2. CASE d = c
  <2>1. CASE BeginWait(c)
    BY <1>2, <2>1, TakenToken
  <2>2. CASE Submit(c)
    <3>1. SubmittedAs(c, Len(meant) + 1)
      BY <2>2, SubmitIs
    <3>2. pc[c] = "record" /\ Sequence(pending[c])
      BY <3>1 DEF SubmittedAs, IInv, Shaped
    <3>3. pending'[c] = pending[c] \/ \E e : pending'[c] = Append(pending[c], e)
      BY <3>1 DEF SubmittedAs
    <3>4. CASE pending'[c] = pending[c]
      BY <1>2, <3>2, <3>4, PendingToken
    <3>5. CASE \E e : pending'[c] = Append(pending[c], e)
      <4>1. \A k \in DOMAIN pending[c] : k \in DOMAIN pending'[c] /\ pending'[c][k] = pending[c][k]
        BY <3>2, <3>5, AppendIs
      <4>. QED
        BY <1>2, <3>2, <4>1 DEF Token
    <3>. QED
      BY <3>3, <3>4, <3>5
  <2>3. CASE TakeSync(c)
    <3>1. /\ pc[c] = "sync" /\ pc' = [pc EXCEPT ![c] = "wait sync"] /\ call' = call
          /\ pending' = pending /\ DOMAIN pc = Client
      BY <2>3 DEF TakeSync, IInv, Shaped
    <3>2. pc'[c] = "wait sync" /\ OutsOf(c)' = OutsOf(c)
      BY <3>1 DEF OutsOf
    <3>. QED
      BY <1>2, <3>1, <3>2 DEF Token
  <2>4. CASE Synced(c) \/ ReadBack(c) \/ SyncFails(c) \/ ReadFails(c)
    <3>1. pending' = pending /\ (fence[call[c].slot] \/ WaitFails(call[c].slot))
      BY <2>4 DEF Synced, ReadBack, SyncFails, ReadFails
    <3>. QED
      BY <1>2, <3>1, WaitedToken
  <2>5. CASE \/ Begin(c) \/ BeginFetch(c) \/ Release(c) \/ Relabel(c)
             \/ Acquire(c) \/ SlotFree(c) \/ SlotWaitFails(c)
             \/ RecordNode(c) \/ RecordChain(c) \/ RecordFetch(c)
             \/ RecordNodeFails(c) \/ RecordChainFails(c) \/ RecordFetchFails(c) \/ SubmitFails(c)
    <3>1. pending' = pending /\ pc[c] \in {"idle", "acquire", "wait slot", "record"}
      BY <2>5 DEF Begin, BeginFetch, Release, Relabel, Acquire, SlotFree, SlotWaitFails,
           RecordNode, RecordChain, RecordFetch, RecordNodeFails, RecordChainFails,
           RecordFetchFails, SubmitFails, Recorded, Abandon
    <3>. QED
      BY <1>2, <3>1, PendingToken
  <2>. QED
    BY <2>1, <2>2, <2>3, <2>4, <2>5 DEF Continue
<1>. QED
  BY <1>1, <1>2

LEMMA SafeKept ==
    ASSUME Books, Informing, NEW d \in Client, Change(d), NEW c \in Client, c # d \/ Busy(d),
           NEW H, NEW work, Safe(c, H, work)
    PROVE  Safe(c, H, work)'
<1>1. \A h : Private(c, h) => Private(c, h)'
  BY PrivateKept
<1>. QED
  BY <1>1 DEF Safe

\* What was covered in the queue still is.
LEMMA CoveredByKept ==
    ASSUME MInv, Informing, NEW c \in Client, Change(c),
           \/ Begin(c) \/ BeginFetch(c) \/ BeginWait(c) \/ Release(c) \/ Relabel(c) \/ Continue(c),
           NEW d \in Client, NEW e, CoveredBy(d, e), InFlight(e.slot), ~timedOut'
    PROVE  CoveredBy(d, e)'
<1>1. PICK H : Token(d, e.slot, H) /\ Safe(d, H, e.work)
  BY DEF CoveredBy
<1>2. Token(d, e.slot, H)'
  BY <1>1, TokenKept
<1>3. d # c \/ Busy(c)
  BY <1>1, TokenLent DEF MInv
<1>4. Safe(d, H, e.work)'
  BY <1>1, <1>3, SafeKept DEF MInv
<1>. QED
  BY <1>2, <1>4 DEF CoveredBy

-----------------------------------------------------------------------------
(***************************************************************************)
(* What recording changes.  A node's dispatch writes memory nobody held,   *)
(* and reads either such memory, after an upload, or an id that was told   *)
(* to the caller, or the output of the batch's first node.                 *)
(***************************************************************************)
NodeAs(c, d, o) ==
  LET r == call[c]
      q == call'[c]
  IN
  /\ pc[c] = "record" /\ pc'[c] = "record" /\ r.kind \in Nodewise
  /\ q.kind = r.kind /\ q.slot = r.slot
  /\ q.work = Append(r.work, d) /\ q.outs = Append(r.outs, o)
  /\ HandlesIn(q.outs) = HandlesIn(r.outs) \cup {o.h}
  /\ HandlesIn(q.scratch) = HandlesIn(r.scratch) \cup {h \in {d.src} : d.up # 0}
  /\ d.dst = o.h /\ d.stamp = stamp + 1 /\ d.dst \notin Lent(Memory)
  /\ \/ /\ d.up = r.blocks + 1 /\ d.want = stamp + 1
        /\ d.src \notin Lent(Memory) /\ d.src # d.dst
        /\ staging'[r.slot][d.up] = stamp + 1
     \/ /\ d.up = 0
        /\ \/ \E id \in Told(c) \cap DOMAIN resident : d.src = resident[id].h /\ d.want = meant[id]
           \/ /\ 1 \in DOMAIN r.outs /\ 1 \in DOMAIN r.work
              /\ d.src = r.outs[1].h /\ d.want = r.work[1].stamp
  /\ \A k \in 1 .. r.blocks : staging'[r.slot][k] = staging[r.slot][k]
  /\ \A t \in Slots : t # r.slot => staging'[t] = staging[t]

LEMMA HandlesAppended ==
    ASSUME NEW s, Sequence(s), NEW b
    PROVE  HandlesIn(Append(s, b)) = HandlesIn(s) \cup {b.h}
<1>. DEFINE t == Append(s, b)
<1>1. /\ DOMAIN t = DOMAIN s \cup {Len(s) + 1} /\ t[Len(s) + 1] = b
      /\ Len(s) + 1 \notin DOMAIN s /\ \A k \in DOMAIN s : t[k] = s[k]
  BY AppendIs
<1>. HIDE DEF t
<1>2. HandlesIn(t) = HandlesIn(s) \cup {b.h}
  BY <1>1 DEF HandlesIn
<1>. QED
  BY <1>2 DEF t

LEMMA HandlesJoined ==
    ASSUME NEW s \in Seq(Buffers), NEW t \in Seq(Buffers)
    PROVE  HandlesIn(s \o t) = HandlesIn(s) \cup HandlesIn(t)
<1>. DEFINE u == s \o t
<1>1. /\ Len(s) \in Nat /\ Len(t) \in Nat /\ DOMAIN s = 1 .. Len(s) /\ DOMAIN t = 1 .. Len(t)
      /\ DOMAIN u = 1 .. Len(s) + Len(t)
      /\ \A i \in 1 .. Len(s) : u[i] = s[i]
      /\ \A i \in 1 .. Len(t) : u[Len(s) + i] = t[i]
  OBVIOUS
<1>. HIDE DEF u
<1>2. \A i \in DOMAIN u : \/ i \in DOMAIN s /\ u[i] = s[i]
                          \/ i - Len(s) \in DOMAIN t /\ u[i] = t[i - Len(s)]
  <2>. SUFFICES ASSUME NEW i \in 1 .. Len(s) + Len(t)
                PROVE  \/ i \in DOMAIN s /\ u[i] = s[i]
                       \/ i - Len(s) \in DOMAIN t /\ u[i] = t[i - Len(s)]
    BY <1>1
  <2>1. CASE i <= Len(s)
    BY <1>1, <2>1
  <2>2. CASE ~(i <= Len(s))
    <3>1. i - Len(s) \in 1 .. Len(t) /\ i = Len(s) + (i - Len(s))
      BY <1>1, <2>2
    <3>. QED
      BY <1>1, <3>1
  <2>. QED
    BY <2>1, <2>2
<1>3. HandlesIn(u) \subseteq HandlesIn(s) \cup HandlesIn(t)
  BY <1>2 DEF HandlesIn
<1>4. ASSUME NEW i \in DOMAIN s PROVE s[i].h \in HandlesIn(u)
  <2>1. i \in DOMAIN u /\ u[i] = s[i]
    BY <1>1
  <2>. QED
    BY <2>1 DEF HandlesIn
<1>5. ASSUME NEW i \in DOMAIN t PROVE t[i].h \in HandlesIn(u)
  <2>1. Len(s) + i \in DOMAIN u /\ u[Len(s) + i] = t[i]
    BY <1>1
  <2>. QED
    BY <2>1 DEF HandlesIn
<1>6. HandlesIn(s) \subseteq HandlesIn(u) /\ HandlesIn(t) \subseteq HandlesIn(u)
  BY <1>4, <1>5 DEF HandlesIn
<1>. QED
  BY <1>3, <1>6 DEF u

LEMMA NodeIs ==
    ASSUME MInv, Informing, NEW c \in Client, RecordNode(c)
    PROVE  \E d, o : NodeAs(c, d, o)
<1>. USE DEF MInv
<1>. DEFINE r == call[c]
            host == NodeOf(c) = Host
            b == Allocated(Memory, r.size)
            up == IF host THEN Allocate(Memory, r.size) ELSE Memory
            src == CASE host -> Allocated(Memory, r.size).h
                     [] NodeOf(c).from = "id" -> resident[NodeOf(c).at].h
                     [] NodeOf(c).from = "out" -> r.outs[NodeOf(c).at].h
            want == CASE host -> stamp + 1
                      [] NodeOf(c).from = "id" -> meant[NodeOf(c).at]
                      [] NodeOf(c).from = "out" -> r.work[NodeOf(c).at].stamp
            at == IF host THEN NextBlock(r) ELSE 0
            o == Allocated(up, r.size)
            s == IF host THEN <<Buffer(src, r.size)>> ELSE <<>>
            d == Dispatched(at, src, want, o.h, stamp + 1)
            n == IF host THEN r.blocks + 1 ELSE r.blocks
<1>1. /\ call' = [call EXCEPT ![c].work = Append(@, d), ![c].scratch = @ \o s,
                              ![c].outs = Append(@, o), ![c].blocks = n]
      /\ pc[c] = "record" /\ r.kind \in Nodewise /\ pc' = pc
      /\ Len(r.work) < Len(r.nodes)
      /\ staging' = IF host THEN [staging EXCEPT ![r.slot] = PutBlock(@, at, stamp + 1)]
                            ELSE staging
  BY DEF RecordNode, Nodewise
<1>2. /\ FormedCall(r, "record") /\ DOMAIN call = Client /\ DOMAIN staging = Slots
      /\ r.slot \in Slots
  BY <1>1 DEF Calls, IInv, Shaped, Staged
<1>3. /\ r.size \in CallSize /\ DOMAIN r = DOMAIN Idle /\ r.blocks \in Nat
      /\ Sequence(r.work) /\ Sequence(r.outs) /\ Len(r.outs) = Len(r.work)
  BY <1>1, <1>2 DEF FormedCall, Nodewise
<1>4. /\ Sound(Memory) /\ r.outs \in Seq(Buffers) /\ r.scratch \in Seq(Buffers)
  BY <1>1, RecordingIs
<1>5. /\ d.up = at /\ d.src = src /\ d.want = want /\ d.dst = o.h /\ d.stamp = stamp + 1
  BY DEF Dispatched
<1>6. host => src = b.h /\ want = stamp + 1 /\ at = r.blocks + 1 /\ s = <<Buffer(b.h, r.size)>>
  <2>. SUFFICES ASSUME host
                PROVE  src = b.h /\ want = stamp + 1 /\ at = r.blocks + 1 /\ s = <<Buffer(b.h, r.size)>>
    OBVIOUS
  <2>1. NodeOf(c).from # "id" /\ NodeOf(c).from # "out"
    BY DEF Host
  <2>2. at = r.blocks + 1
    BY DEF NextBlock
  <2>3. s = <<Buffer(src, r.size)>>
    BY Zenon
  <2>. HIDE DEF s, at
  <2>4. src = b.h /\ want = stamp + 1
    <3>. HIDE DEF r
    <3>. QED
      BY <2>1
  <2>. HIDE DEF src, want, b, host
  <2>. QED
    BY <2>2, <2>3, <2>4
<1>7. ~host => at = 0 /\ s = <<>> /\ up = Memory
  OBVIOUS
<1>8. host => up = Allocate(Memory, r.size)
  OBVIOUS
<1>9. ~host /\ NodeOf(c).from = "id" => src = resident[NodeOf(c).at].h /\ want = meant[NodeOf(c).at]
  <2>. HIDE DEF r
  <2>. QED
    OBVIOUS
<1>10. ~host /\ NodeOf(c) = Out(1) => src = r.outs[1].h /\ want = r.work[1].stamp
  <2>. SUFFICES ASSUME ~host, NodeOf(c) = Out(1)
                PROVE  src = r.outs[1].h /\ want = r.work[1].stamp
    OBVIOUS
  <2>1. NodeOf(c).from = "out" /\ NodeOf(c).from # "id" /\ NodeOf(c).at = 1
    BY DEF Out
  <2>. HIDE DEF r
  <2>. QED
    BY <2>1
<1>. HIDE DEF d, s, up, b, host, src, want, at
<1>11. /\ call'[c].work = Append(r.work, d) /\ call'[c].outs = Append(r.outs, o)
       /\ call'[c].scratch = r.scratch \o s /\ call'[c].kind = r.kind /\ call'[c].slot = r.slot
  BY <1>1, <1>2, <1>3, IdleIs
<1>12. /\ host => b \in Buffers /\ b.h \notin Lent(Memory) /\ b.size = r.size
       /\ o.h \notin Lent(Memory) /\ (host => o.h # b.h)
  <2>1. host => /\ Good(b, up) /\ b.h \notin Lent(Memory) /\ Sound(up) /\ b.size = r.size
                /\ Lent(up) = Lent(Memory) \cup {b.h}
    BY <1>3, <1>4, <1>8, AllocateIs DEF b
  <2>2. Sound(up) /\ Lent(Memory) \subseteq Lent(up)
    BY <1>4, <1>7, <2>1
  <2>3. o.h \notin Lent(up)
    BY <1>3, <2>2, AllocateIs
  <2>. QED
    BY <2>1, <2>2, <2>3 DEF Good
<1>. HIDE DEF o
<1>13. HandlesIn(call'[c].outs) = HandlesIn(r.outs) \cup {o.h}
  BY <1>3, <1>11, HandlesAppended
<1>14. HandlesIn(call'[c].scratch) = HandlesIn(r.scratch) \cup {h \in {d.src} : d.up # 0}
  <2>. HIDE DEF r
  <2>1. CASE host
    <3>1. Buffer(b.h, r.size) \in Buffers /\ Buffer(b.h, r.size).h = b.h
      BY <1>12, <2>1 DEF Buffers, Buffer
    <3>. DEFINE e == Buffer(b.h, r.size)
    <3>2. s = <<e>> /\ e \in Buffers /\ e.h = b.h
      BY <1>6, <2>1, <3>1
    <3>. HIDE DEF e
    <3>3. s \in Seq(Buffers) /\ HandlesIn(s) = {b.h}
      <4>1. DOMAIN <<e>> = {1} /\ <<e>>[1] = e /\ <<e>> \in Seq(Buffers)
        BY <3>2
      <4>. QED
        BY <3>2, <4>1 DEF HandlesIn
    <3>4. d.src = b.h /\ d.up # 0
      BY <1>3, <1>5, <1>6, <2>1
    <3>. QED
      BY <1>4, <1>11, <3>3, <3>4, HandlesJoined
  <2>2. CASE ~host
    <3>1. s = <<>> /\ <<>> \in Seq(Buffers) /\ HandlesIn(<<>>) = {} /\ d.up = 0
      BY <1>5, <1>7, <2>2, NothingHeld
    <3>2. HandlesIn(r.scratch \o s) = HandlesIn(r.scratch)
      BY <1>4, <3>1, HandlesJoined
    <3>. QED
      BY <1>11, <3>1, <3>2
  <2>. QED
    BY <2>1, <2>2
<1>15. /\ \A t \in Slots : t # r.slot => staging'[t] = staging[t]
       /\ \A k \in 1 .. r.blocks : staging'[r.slot][k] = staging[r.slot][k]
       /\ host => staging'[r.slot][at] = stamp + 1
  <2>. HIDE DEF r
  <2>1. CASE host
    <3>. DEFINE new == PutBlock(staging[r.slot], at, stamp + 1)
    <3>1. staging' = [staging EXCEPT ![r.slot] = new]
      BY <1>1, <2>1
    <3>2. at = r.blocks + 1
      BY <1>6, <2>1
    <3>3. \A k \in 1 .. r.blocks : new[k] = staging[r.slot][k]
      BY <1>3, <3>2 DEF PutBlock
    <3>4. new[at] = stamp + 1
      BY <1>3, <3>2 DEF PutBlock
    <3>. HIDE DEF new
    <3>. QED
      BY <1>2, <3>1, <3>3, <3>4
  <2>2. CASE ~host
    BY <1>1, <2>2
  <2>. QED
    BY <2>1, <2>2
<1>16. \/ host
       \/ /\ ~host
          /\ \/ \E id \in Told(c) \cap DOMAIN resident : src = resident[id].h /\ want = meant[id]
             \/ /\ 1 \in DOMAIN r.outs /\ 1 \in DOMAIN r.work
                /\ src = r.outs[1].h /\ want = r.work[1].stamp
  <2>. SUFFICES ASSUME ~host
                PROVE  \/ \E id \in Told(c) \cap DOMAIN resident :
                            src = resident[id].h /\ want = meant[id]
                       \/ /\ 1 \in DOMAIN r.outs /\ 1 \in DOMAIN r.work
                          /\ src = r.outs[1].h /\ want = r.work[1].stamp
    OBVIOUS
  <2>. DEFINE i == Len(r.work) + 1
  <2>1. /\ Sequence(r.nodes)
        /\ \A k \in DOMAIN r.nodes : Reads(r.nodes[k], k, Told(c) \cap DOMAIN resident)
    BY <1>1 DEF Informing, Informed, Asks
  <2>2. Len(r.work) \in Nat /\ DOMAIN r.work = 1 .. Len(r.work) /\ DOMAIN r.outs = 1 .. Len(r.outs)
    BY <1>3 DEF Sequence
  <2>3. DOMAIN r.nodes = 1 .. Len(r.nodes) /\ Len(r.nodes) \in Nat
    BY <2>1 DEF Sequence
  <2>4. i \in DOMAIN r.nodes /\ NodeOf(c) = r.nodes[i]
    BY <1>1, <2>2, <2>3 DEF NodeOf
  <2>. HIDE DEF i
  <2>5. Reads(NodeOf(c), i, Told(c) \cap DOMAIN resident)
    BY <2>1, <2>4
  <2>6. CASE i = 2 /\ NodeOf(c) = Out(1)
    <3>1. 1 \in DOMAIN r.outs /\ 1 \in DOMAIN r.work
      BY <1>3, <2>2, <2>6 DEF i
    <3>. QED
      BY <1>10, <2>6, <3>1
  <2>7. CASE NodeOf(c).from = "id" /\ NodeOf(c).at \in Told(c) \cap DOMAIN resident
    BY <1>9, <2>7
  <2>. QED
    BY <2>5, <2>6, <2>7 DEF Reads, host
<1>17. pc'[c] = "record"
  BY <1>1
<1>18. \/ /\ d.up = r.blocks + 1 /\ d.want = stamp + 1
          /\ d.src \notin Lent(Memory) /\ d.src # d.dst
          /\ staging'[r.slot][d.up] = stamp + 1
       \/ /\ d.up = 0
          /\ \/ \E id \in Told(c) \cap DOMAIN resident : d.src = resident[id].h /\ d.want = meant[id]
             \/ /\ 1 \in DOMAIN r.outs /\ 1 \in DOMAIN r.work
                /\ d.src = r.outs[1].h /\ d.want = r.work[1].stamp
  <2>. HIDE DEF r
  <2>1. CASE host
    BY <1>5, <1>6, <1>12, <1>15, <2>1
  <2>2. CASE ~host
    BY <1>5, <1>7, <1>16, <2>2
  <2>. QED
    BY <2>1, <2>2
<1>19. NodeAs(c, d, o)
  BY <1>1, <1>5, <1>11, <1>12, <1>13, <1>14, <1>15, <1>17, <1>18 DEF NodeAs
<1>. QED
  BY <1>19

\* A chain's links take turns on two buffers nobody held, after an upload into
\* a third.
Turn(k, a, b) == IF k % 2 = 1 THEN a ELSE b
ChainAs(c, s, a, b) ==
  LET r == call[c]
      q == call'[c]
      n == Len(r.nodes)
  IN
  /\ pc[c] = "record" /\ pc'[c] = "record" /\ r.kind = "chain" /\ r.work = <<>>
  /\ q.kind = "chain" /\ q.slot = r.slot /\ n \in Nat \ {0}
  /\ q.work = ChainLinks(s, a, b, stamp, n)
  /\ q.outs[1] = Turn(n, a, b)
  /\ HandlesIn(q.outs) = {a.h, b.h} /\ HandlesIn(q.scratch) = {s.h}
  /\ {s.h, a.h, b.h} \cap Lent(Memory) = {} /\ s.h # a.h /\ s.h # b.h /\ a.h # b.h
  /\ staging'[r.slot][1] = stamp + 1
  /\ \A t \in Slots : t # r.slot => staging'[t] = staging[t]

LEMMA LinksUse ==
    ASSUME NEW s, NEW a, NEW b, NEW d \in Nat, NEW n \in Nat \ {0}
    PROVE  /\ DOMAIN ChainLinks(s, a, b, d, n) = 1 .. n
           /\ \A i \in 1 .. n :
                LET l == ChainLinks(s, a, b, d, n)[i] IN
                /\ l.dst = Turn(i, a, b).h /\ l.stamp = d + i
                /\ l.up = IF i = 1 THEN 1 ELSE 0
                /\ l.src = IF i = 1 THEN s.h ELSE Turn(i - 1, a, b).h
                /\ l.want = IF i = 1 THEN d + 1 ELSE d + i - 1
<1>. DEFINE to(k) == Turn(k, a, b)
            f == [k \in 1..n |-> Dispatched(IF k = 1 THEN 1 ELSE 0,
                                            IF k = 1 THEN s.h ELSE to(k - 1).h,
                                            IF k = 1 THEN d + 1 ELSE d + k - 1,
                                            to(k).h, d + k)]
<1>1. ChainLinks(s, a, b, d, n) = f
  BY DEF ChainLinks, Turn
<1>2. DOMAIN f = 1 .. n
  OBVIOUS
<1>3. \A i \in 1 .. n :
        /\ f[i].dst = to(i).h /\ f[i].stamp = d + i /\ f[i].up = (IF i = 1 THEN 1 ELSE 0)
        /\ f[i].src = (IF i = 1 THEN s.h ELSE to(i - 1).h)
        /\ f[i].want = (IF i = 1 THEN d + 1 ELSE d + i - 1)
  <2>. HIDE DEF to
  <2>. QED
    BY DEF Dispatched
<1>. HIDE DEF f, to
<1>. QED
  BY <1>1, <1>2, <1>3 DEF to

LEMMA LinksEnd ==
    ASSUME NEW s, NEW a, NEW b, NEW d \in Nat, NEW n \in Nat \ {0}
    PROVE  Last(ChainLinks(s, a, b, d, n)).stamp = d + n
<1>. PICK w : w = ChainLinks(s, a, b, d, n)
  OBVIOUS
<1>1. Len(w) = n
  BY LinksIs
<1>2. Last(w) = w[n] /\ n \in 1 .. n
  BY <1>1 DEF Last
<1>3. \A i \in 1 .. n : w[i].stamp = d + i
  BY DEF ChainLinks, Dispatched
<1>. QED
  BY <1>2, <1>3

LEMMA ChainIs ==
    ASSUME MInv, NEW c \in Client, RecordChain(c)
    PROVE  \E s, a, b : ChainAs(c, s, a, b)
<1>. USE DEF MInv
<1>. DEFINE r == call[c]
            n == Len(r.nodes)
            m1 == Allocate(Memory, r.size)
            m2 == Allocate(m1, r.size)
            s == Allocated(Memory, r.size)
            a == Allocated(m1, r.size)
            b == Allocated(m2, r.size)
            o == IF n % 2 = 1 THEN <<a, b>> ELSE <<b, a>>
            w == ChainLinks(s, a, b, stamp, n)
            L == Lent(Memory)
            new == PutBlock(staging[r.slot], 1, stamp + 1)
<1>1. /\ pc[c] = "record" /\ r.kind = "chain" /\ r.work = <<>> /\ pc' = pc
      /\ call' = [call EXCEPT ![c].work = w, ![c].scratch = <<s>>, ![c].outs = o]
      /\ staging' = [staging EXCEPT ![r.slot] = new]
  BY DEF RecordChain
<1>2. /\ r.size \in CallSize /\ DOMAIN r = DOMAIN Idle /\ DOMAIN call = Client /\ Sound(Memory)
  BY <1>1, ChainBegins
<1>3. r.slot \in Slots /\ DOMAIN staging = Slots /\ n \in Nat \ {0}
  BY <1>1 DEF IInv, Shaped, Staged, Calls, FormedCall
<1>4. /\ Sound(m1) /\ L \subseteq Lent(m1) /\ s.h \notin L /\ s.h \in Lent(m1)
  BY <1>2, AllocateIs
<1>. HIDE DEF m1, s
<1>5. /\ Sound(m2) /\ a.h \notin Lent(m1) /\ Lent(m1) \subseteq Lent(m2) /\ a.h \in Lent(m2)
  BY <1>2, <1>4, AllocateIs
<1>. HIDE DEF m2, a
<1>6. b.h \notin Lent(m2)
  BY <1>2, <1>5, AllocateIs
<1>7. {s.h, a.h, b.h} \cap L = {} /\ s.h # a.h /\ s.h # b.h /\ a.h # b.h
  BY <1>4, <1>5, <1>6
<1>. HIDE DEF b
<1>8. o[1] = Turn(n, a, b) /\ HandlesIn(o) = {a.h, b.h}
  <2>1. \A x, y : HandlesIn(<<x, y>>) = {x.h, y.h}
    <3>1. ASSUME NEW x, NEW y PROVE HandlesIn(<<x, y>>) = {x.h, y.h}
      <4>1. DOMAIN <<x, y>> = {1, 2} /\ <<x, y>>[1] = x /\ <<x, y>>[2] = y
        OBVIOUS
      <4>. QED
        BY <4>1 DEF HandlesIn
    <3>. QED
      BY <3>1
  <2>2. HandlesIn(<<a, b>>) = {a.h, b.h} /\ HandlesIn(<<b, a>>) = {b.h, a.h}
    BY <2>1
  <2>. HIDE DEF n
  <2>3. o[1] = Turn(n, a, b)
    BY DEF Turn
  <2>. QED
    BY <2>2, <2>3
<1>9. HandlesIn(<<s>>) = {s.h}
  <2>1. DOMAIN <<s>> = {1} /\ <<s>>[1] = s
    OBVIOUS
  <2>. QED
    BY <2>1 DEF HandlesIn
<1>10. new[1] = stamp + 1
  BY DEF PutBlock
<1>. HIDE DEF w, o, new
<1>11. /\ call'[c].work = w /\ call'[c].outs = o /\ call'[c].scratch = <<s>>
       /\ call'[c].kind = "chain" /\ call'[c].slot = r.slot
  BY <1>1, <1>2, IdleIs
<1>12. staging'[r.slot][1] = stamp + 1 /\ \A t \in Slots : t # r.slot => staging'[t] = staging[t]
  BY <1>1, <1>3, <1>10
<1>13. pc'[c] = "record"
  BY <1>1
<1>14. ChainAs(c, s, a, b)
  BY <1>1, <1>3, <1>7, <1>8, <1>9, <1>11, <1>12, <1>13 DEF ChainAs, w
<1>. QED
  BY <1>14

\* A fetch reads the resident its call has looked up.
FetchAs(c) ==
  LET r == call[c]
      q == call'[c]
  IN
  /\ pc[c] = "record" /\ pc'[c] = "record" /\ r.kind = "fetch"
  /\ q.kind = "fetch" /\ q.slot = r.slot /\ q.id = r.id /\ q.src = r.src
  /\ DOMAIN q.work = {1} /\ q.work[1] = Dispatched(0, r.src, Junk, Junk, Junk)
  /\ r.id \in Told(c) /\ r.id \in DOMAIN resident /\ r.src = resident[r.id].h
  /\ staging' = staging

LEMMA FetchIs ==
    ASSUME MInv, Informing, NEW c \in Client, RecordFetch(c)
    PROVE  FetchAs(c)
<1>. USE DEF MInv
<1>. DEFINE r == call[c]
            w == <<Dispatched(0, r.src, Junk, Junk, Junk)>>
<1>1. /\ call' = [call EXCEPT ![c].work = w] /\ staging' = staging
      /\ pc[c] = "record" /\ r.kind = "fetch" /\ pc' = pc
  BY DEF RecordFetch, slots
<1>2. FormedCall(r, "record") /\ DOMAIN call = Client
  BY <1>1 DEF Calls, IInv, Shaped
<1>3. DOMAIN r = DOMAIN Idle
  BY <1>2 DEF FormedCall
<1>4. DOMAIN w = {1} /\ w[1] = Dispatched(0, r.src, Junk, Junk, Junk)
  OBVIOUS
<1>5. r.id \in owned[c] /\ r.id \in DOMAIN resident /\ r.src = resident[r.id].h
  BY <1>1 DEF Informing, Informed, Asks
<1>6. r.id \in Told(c)
  BY <1>5 DEF Told, ToldOf
<1>. HIDE DEF w
<1>7. /\ call'[c].work = w /\ call'[c].kind = "fetch" /\ call'[c].slot = r.slot
      /\ call'[c].id = r.id /\ call'[c].src = r.src
  BY <1>1, <1>2, <1>3, IdleIs
<1>8. pc'[c] = "record"
  BY <1>1
<1>. QED
  BY <1>1, <1>4, <1>5, <1>6, <1>7, <1>8 DEF FetchAs

-----------------------------------------------------------------------------
\* What a call has recorded is in its hands, or only it has been told of it.
LEMMA NodeSafe ==
    ASSUME MInv, Informing, NEW c \in Client, Change(c), RecordNode(c),
           Ready(c)
    PROVE  Ready(c)'
<1>. USE DEF MInv
<1>. DEFINE r == call[c]
            q == call'[c]
<1>1. PICK d, o : NodeAs(c, d, o)
  BY NodeIs
<1>2. /\ pc[c] = "record" /\ r.kind \in Nodewise /\ q.kind = r.kind
      /\ q.work = Append(r.work, d)
      /\ HandlesIn(q.outs) = HandlesIn(r.outs) \cup {o.h}
      /\ HandlesIn(q.scratch) = HandlesIn(r.scratch) \cup {h \in {d.src} : d.up # 0}
      /\ d.dst = o.h
  BY <1>1 DEF NodeAs
<1>3. Sequence(r.work) /\ r.kind # "fetch"
  BY <1>2 DEF Calls, FormedCall, Nodewise
<1>4. /\ Taken(r) = HandlesIn(r.outs) \cup HandlesIn(r.scratch)
      /\ Taken(q) = HandlesIn(q.outs) \cup HandlesIn(q.scratch)
      /\ Taken(r) \subseteq Taken(q)
  BY <1>2, <1>3 DEF Taken
<1>5. \A h : Private(c, h) => Private(c, h)'
  BY <1>2, PrivateKept DEF Busy
<1>6. d.src \in Taken(q) \/ Private(c, d.src)
  <2>1. CASE d.up # 0
    BY <1>2, <1>4, <2>1
  <2>2. CASE \E id \in Told(c) \cap DOMAIN resident : d.src = resident[id].h
    BY <2>2, PrivateTold
  <2>3. CASE 1 \in DOMAIN r.outs /\ d.src = r.outs[1].h
    BY <1>4, <2>3 DEF HandlesIn
  <2>4. d.up # 0 \/ d.up = 0
    OBVIOUS
  <2>5. \/ d.up = r.blocks + 1 /\ r.blocks \in Nat
        \/ \E id \in Told(c) \cap DOMAIN resident : d.src = resident[id].h
        \/ 1 \in DOMAIN r.outs /\ d.src = r.outs[1].h
    BY <1>1 DEF NodeAs, Calls, FormedCall
  <2>. QED
    BY <2>1, <2>2, <2>3, <2>5
<1>7. d.dst \in Taken(q)
  BY <1>2, <1>4
<1>8. \A h \in Uses(q.work) : h \in Uses(r.work) \/ h = d.src \/ h = d.dst
  <2>. DEFINE w == Append(r.work, d)
  <2>1. \A i \in DOMAIN w : w[i] = d \/ (i \in DOMAIN r.work /\ w[i] = r.work[i])
    BY <1>3, AppendIs
  <2>2. q.work = w
    BY <1>2
  <2>. HIDE DEF w, q, r
  <2>. QED
    BY <2>1, <2>2 DEF Uses
<1>. HIDE DEF q, r
<1>9. \A h \in Uses(q.work) : h = Junk \/ h \in Taken(q) \/ Private(c, h) \/ h = d.src
  BY <1>4, <1>7, <1>8 DEF Ready, Safe, r
<1>10. \A h \in Uses(q.work) : h = Junk \/ h \in Taken(q) \/ Private(c, h)'
  BY <1>5, <1>6, <1>9
<1>. QED
  BY <1>10 DEF Ready, Safe, q

LEMMA ChainSafe ==
    ASSUME MInv, NEW c \in Client, RecordChain(c)
    PROVE  Ready(c)'
<1>. USE DEF MInv
<1>. DEFINE q == call'[c]
            n == Len(call[c].nodes)
<1>1. PICK s, a, b : ChainAs(c, s, a, b)
  BY ChainIs
<1>2. Taken(q) = {s.h, a.h, b.h}
  BY <1>1 DEF ChainAs, Taken
<1>3. q.work = ChainLinks(s, a, b, stamp, n) /\ n \in Nat \ {0} /\ stamp \in Nat
  BY <1>1 DEF ChainAs, Books
<1>. DEFINE w == ChainLinks(s, a, b, stamp, n)
<1>. HIDE DEF n, q
<1>4. /\ DOMAIN w = 1 .. n
      /\ \A i \in 1 .. n : /\ w[i].dst = Turn(i, a, b).h
                           /\ w[i].src = IF i = 1 THEN s.h ELSE Turn(i - 1, a, b).h
  <2>. PICK e : e = stamp
    OBVIOUS
  <2>1. e \in Nat /\ n \in Nat \ {0} /\ w = ChainLinks(s, a, b, e, n)
    BY <1>3
  <2>. HIDE DEF w
  <2>2. DOMAIN w = 1 .. n
    BY <2>1, LinksUse
  <2>3. ASSUME NEW i \in 1 .. n
        PROVE  w[i].dst = Turn(i, a, b).h /\ w[i].src = IF i = 1 THEN s.h ELSE Turn(i - 1, a, b).h
    BY <2>1, LinksUse
  <2>. QED
    BY <2>2, <2>3
<1>5. \A k : Turn(k, a, b).h \in {a.h, b.h}
  BY DEF Turn
<1>. HIDE DEF w, q
<1>6. \A i \in DOMAIN w : w[i].src \in {s.h, a.h, b.h} /\ w[i].dst \in {s.h, a.h, b.h}
  BY <1>4, <1>5
<1>7. \A h \in Uses(q.work) : h \in Taken(q)
  BY <1>2, <1>3, <1>6 DEF Uses, w
<1>. QED
  BY <1>7 DEF Ready, Safe, q

LEMMA FetchSafe ==
    ASSUME MInv, Informing, NEW c \in Client, Change(c), RecordFetch(c)
    PROVE  Ready(c)'
<1>. USE DEF MInv
<1>. DEFINE r == call[c]
            q == call'[c]
<1>1. FetchAs(c)
  BY FetchIs
<1>2. /\ pc[c] = "record" /\ DOMAIN q.work = {1} /\ q.work[1] = Dispatched(0, r.src, Junk, Junk, Junk)
      /\ r.id \in Told(c) /\ r.id \in DOMAIN resident /\ r.src = resident[r.id].h
  BY <1>1 DEF FetchAs
<1>. PICK g : g = r.src
  OBVIOUS
<1>3. Private(c, g)
  BY <1>2, PrivateTold
<1>4. Private(c, g)'
  BY <1>2, <1>3, PrivateKept DEF Busy
<1>5. \A h \in Uses(q.work) : h = g \/ h = Junk
  <2>1. q.work[1].src = g /\ q.work[1].dst = Junk
    BY <1>2 DEF Dispatched
  <2>2. DOMAIN q.work = {1}
    BY <1>2
  <2>. HIDE DEF q, r
  <2>. QED
    BY <2>1, <2>2 DEF Uses
<1>. HIDE DEF q, r
<1>6. \A h \in Uses(q.work) : h = Junk \/ h \in Taken(q) \/ Private(c, h)'
  BY <1>4, <1>5
<1>. QED
  BY <1>6 DEF Ready, Safe, q

\* Who records recorded before, and a step of the recording added to it.
LEMMA RecordingFrom ==
    ASSUME MInv, Informing, NEW c \in Client,
           \/ Begin(c) \/ BeginFetch(c) \/ BeginWait(c) \/ Release(c) \/ Relabel(c) \/ Continue(c),
           pc'[c] = "record"
    PROVE  \/ RecordNode(c) \/ RecordChain(c) \/ RecordFetch(c)
           \/ call'[c].work = <<>>
<1>. USE DEF MInv
<1>1. CASE SlotFree(c)
  <2>1. pc[c] = "wait slot" /\ call' = call
    BY <1>1 DEF SlotFree
  <2>. QED
    BY <2>1 DEF Calls, FormedCall
<1>2. CASE Begin(c) \/ Acquire(c)
  <2>1. \A r : DOMAIN r = DOMAIN Idle /\ r.work = <<>> /\ Take(c, r) => call'[c].work = <<>>
    <3>. SUFFICES ASSUME NEW r, DOMAIN r = DOMAIN Idle, r.work = <<>>, Take(c, r)
                  PROVE  call'[c].work = <<>>
      OBVIOUS
    <3>. DEFINE q == [r EXCEPT !.slot = cursor]
    <3>1. q.work = <<>>
      BY IdleIs
    <3>. HIDE DEF q
    <3>2. call'[c] = q
      BY DEF Take, IInv, Shaped, q
    <3>. QED
      BY <3>1, <3>2
  <2>2. CASE Begin(c)
    <3>1. PICK r \in Requests(c), size \in CallSize :
            Take(c, [Idle EXCEPT !.kind = r.kind, !.nodes = r.nodes, !.size = size])
      BY <2>2 DEF Begin
    <3>. DEFINE q == [Idle EXCEPT !.kind = r.kind, !.nodes = r.nodes, !.size = size]
    <3>2. DOMAIN q = DOMAIN Idle /\ q.work = <<>> /\ Take(c, q)
      BY <3>1, IdleIs
    <3>. HIDE DEF q
    <3>. QED
      BY <2>1, <3>2
  <2>3. CASE Acquire(c)
    <3>1. Take(c, call[c]) /\ DOMAIN call[c] = DOMAIN Idle /\ call[c].work = <<>>
      BY <2>3 DEF Acquire, Calls, FormedCall
    <3>. QED
      BY <2>1, <3>1
  <2>. QED
    BY <1>2, <2>2, <2>3
<1>3. CASE \/ SlotWaitFails(c) \/ SyncFails(c) \/ ReadBack(c) \/ ReadFails(c)
           \/ RecordNodeFails(c) \/ RecordChainFails(c) \/ RecordFetchFails(c) \/ SubmitFails(c)
           \/ Synced(c)
  <2>1. Return(c)
    BY <1>3 DEF SlotWaitFails, SyncFails, ReadBack, ReadFails, RecordNodeFails, RecordChainFails,
         RecordFetchFails, SubmitFails, Synced, Abandon
  <2>. QED
    BY <2>1, ReturnIs
<1>4. CASE Submit(c)
  BY <1>4, SubmitIs DEF SubmittedAs
<1>5. CASE BeginFetch(c) \/ BeginWait(c) \/ Release(c) \/ Relabel(c) \/ TakeSync(c)
  BY <1>5 DEF BeginFetch, BeginWait, Release, Relabel, TakeSync, IInv, Shaped
<1>. QED
  BY <1>1, <1>2, <1>3, <1>4, <1>5 DEF Continue

\* A call that begins to record, or records on, has it in hand.
LEMMA RecordingSafe ==
    ASSUME MInv, Informing, NEW c \in Client, Change(c),
           \/ Begin(c) \/ BeginFetch(c) \/ BeginWait(c) \/ Release(c) \/ Relabel(c) \/ Continue(c),
           pc[c] = "record" => Ready(c),
           pc'[c] = "record"
    PROVE  Ready(c)'
<1>. USE DEF MInv
<1>1. CASE RecordNode(c)
  BY <1>1, NodeSafe DEF RecordNode
<1>2. CASE RecordChain(c)
  BY <1>2, ChainSafe
<1>3. CASE RecordFetch(c)
  BY <1>3, FetchSafe
<1>4. CASE call'[c].work = <<>>
  <2>1. Uses(call'[c].work) = {}
    BY <1>4, EmptyIs DEF Uses
  <2>. QED
    BY <2>1 DEF Ready, Safe
<1>. QED
  BY <1>1, <1>2, <1>3, <1>4, RecordingFrom

-----------------------------------------------------------------------------
\* Only a submit puts anything in the queue, and a wait that gave up stays so.
LEMMA ClientQueue ==
    ASSUME NEW c \in Client,
           \/ Begin(c) \/ BeginFetch(c) \/ BeginWait(c) \/ Release(c) \/ Relabel(c) \/ Continue(c)
    PROVE  (Submit(c) \/ queue' = queue) /\ (timedOut => timedOut')
<1>1. \A m, outs : Abandon(c, m, outs) => queue' = queue
  BY DEF Abandon
<1>2. Fault => timedOut' = timedOut
  BY DEF Fault
<1>3. \A s : WaitFails(s) => (timedOut => timedOut')
  BY DEF WaitFails
<1>4. CASE Begin(c) \/ BeginFetch(c) \/ BeginWait(c) \/ Release(c) \/ Relabel(c)
  <2>1. queue' = queue /\ UNCHANGED timedOut
    <3>1. Begin(c) => queue' = queue /\ UNCHANGED timedOut
      BY DEF Begin, bounds
    <3>2. BeginFetch(c) => queue' = queue /\ UNCHANGED timedOut
      BY DEF BeginFetch, bounds
    <3>3. BeginWait(c) => queue' = queue /\ UNCHANGED timedOut
      BY DEF BeginWait, bounds
    <3>4. Release(c) => queue' = queue /\ UNCHANGED timedOut
      BY DEF Release, bounds
    <3>5. Relabel(c) => queue' = queue /\ UNCHANGED timedOut
      BY DEF Relabel, bounds
    <3>. QED
      BY <1>4, <3>1, <3>2, <3>3, <3>4, <3>5
  <2>. QED
    BY <2>1
<1>5. CASE \/ Acquire(c) \/ SlotFree(c) \/ RecordNode(c) \/ RecordChain(c) \/ RecordFetch(c)
           \/ TakeSync(c) \/ Synced(c) \/ ReadBack(c)
  <2>1. queue' = queue /\ UNCHANGED timedOut
    <3>1. Acquire(c) => queue' = queue /\ UNCHANGED timedOut
      BY DEF Acquire, bounds
    <3>2. SlotFree(c) => queue' = queue /\ UNCHANGED timedOut
      BY DEF SlotFree, bounds
    <3>3. RecordNode(c) => queue' = queue /\ UNCHANGED timedOut
      BY DEF RecordNode, bounds
    <3>4. RecordChain(c) => queue' = queue /\ UNCHANGED timedOut
      BY DEF RecordChain, bounds
    <3>5. RecordFetch(c) => queue' = queue /\ UNCHANGED timedOut
      BY DEF RecordFetch, bounds
    <3>6. TakeSync(c) => queue' = queue /\ UNCHANGED timedOut
      BY DEF TakeSync, bounds
    <3>7. Synced(c) => queue' = queue /\ UNCHANGED timedOut
      BY DEF Synced, bounds
    <3>8. ReadBack(c) => queue' = queue /\ UNCHANGED timedOut
      BY DEF ReadBack, bounds
    <3>. QED
      BY <1>5, <3>1, <3>2, <3>3, <3>4, <3>5, <3>6, <3>7, <3>8
  <2>. QED
    BY <2>1
<1>6. CASE SlotWaitFails(c) \/ SyncFails(c) \/ ReadFails(c)
  BY <1>3, <1>6 DEF SlotWaitFails, SyncFails, ReadFails
<1>7. CASE RecordNodeFails(c) \/ RecordChainFails(c) \/ RecordFetchFails(c) \/ SubmitFails(c)
  BY <1>1, <1>2, <1>7 DEF RecordNodeFails, RecordChainFails, RecordFetchFails, SubmitFails
<1>8. CASE Submit(c)
  BY <1>8 DEF Submit, bounds
<1>9. \/ Begin(c) \/ BeginFetch(c) \/ BeginWait(c) \/ Release(c) \/ Relabel(c)
      \/ Acquire(c) \/ SlotFree(c) \/ RecordNode(c) \/ RecordChain(c) \/ RecordFetch(c)
      \/ TakeSync(c) \/ Synced(c) \/ ReadBack(c)
      \/ SlotWaitFails(c) \/ SyncFails(c) \/ ReadFails(c)
      \/ RecordNodeFails(c) \/ RecordChainFails(c) \/ RecordFetchFails(c) \/ SubmitFails(c)
      \/ Submit(c)
  BY DEF Continue
<1>. QED
  BY <1>4, <1>5, <1>6, <1>7, <1>8, <1>9

\* What is submitted is covered: by the ids it is issued for, or by the call.
LEMMA SubmitCovers ==
    ASSUME MInv, Informing, NEW c \in Client, Change(c), Submit(c), Ready(c),
           NEW e, e.slot = call[c].slot, e.work = call[c].work
    PROVE  CoveredBy(c, e)'
<1>. USE DEF MInv
<1>. PICK r : r = call[c]
  OBVIOUS
<1>. PICK n : n = Len(meant) + 1
  OBVIOUS
<1>1. SubmittedAs(c, n)
  BY SubmitIs
<1>2. pc[c] = "record" /\ FormedCall(r, "record") /\ Sequence(r.outs) /\ Sequence(pending[c])
  BY <1>1 DEF SubmittedAs, Calls, FormedCall, IInv, Shaped
<1>3. Safe(c, Taken(r), e.work)
  BY DEF Ready
<1>4. Safe(c, Taken(r), e.work)'
  <2>. PICK H : H = Taken(r)
    OBVIOUS
  <2>1. Safe(c, H, e.work)'
    BY <1>2, <1>3, SafeKept DEF Busy
  <2>. QED
    BY <2>1
<1>5. SUFFICES \E K : Token(c, r.slot, K)' /\ (\A h \in Taken(r) : h \in K \/ Private(c, h)')
  BY <1>4 DEF CoveredBy, Safe
<1>6. CASE r.kind = "fetch"
  <2>1. pc'[c] = "wait read" /\ call'[c] = r
    BY <1>1, <1>6 DEF SubmittedAs
  <2>2. \E K : Token(c, r.slot, K)'
    BY <2>1 DEF Token
  <2>. QED
    BY <1>6, <2>2 DEF Taken
<1>7. CASE r.kind \in {"batch", "chain"}
  <2>1. pc'[c] = "sync" /\ call'[c] = r
    BY <1>1, <1>7 DEF SubmittedAs
  <2>2. OutsOf(c)' = r.outs
    BY <1>7, <2>1 DEF OutsOf
  <2>3. Token(c, r.slot, HandlesIn(r.outs) \cup HandlesIn(r.scratch))'
    BY <2>1, <2>2 DEF Token
  <2>. QED
    BY <2>3 DEF Taken
<1>8. CASE r.kind \in {"run", "submit"}
  <2>1. /\ Len(r.outs) = 1 /\ n \notin DOMAIN meant /\ n \in DOMAIN resident'
        /\ resident'[n] = r.outs[1]
    BY <1>1, <1>8 DEF SubmittedAs
  <2>2. \A d \in Client \ {c} : n \notin Told(d)'
    <3>1. \A d \in Client \ {c} : Told(d)' = Told(d) /\ Told(d) \subseteq DOMAIN meant
      BY OthersToldSame DEF Change, Informing, Informed
    <3>. QED
      BY <2>1, <3>1
  <2>3. \A h \in HandlesIn(r.outs) : Private(c, h)'
    <3>1. \A i \in DOMAIN r.outs : i = 1
      BY <1>2, <2>1 DEF Sequence
    <3>2. \A h \in HandlesIn(r.outs) : h = resident'[n].h
      BY <2>1, <3>1 DEF HandlesIn
    <3>. QED
      BY <2>1, <2>2, <3>2 DEF Private
  <2>4. Token(c, r.slot, HandlesIn(r.scratch))'
    <3>1. CASE r.kind = "run"
      <4>1. /\ pc'[c] = "sync" /\ call'[c].kind = "run" /\ call'[c].slot = r.slot
            /\ call'[c].scratch = r.scratch
        BY <1>1, <3>1 DEF SubmittedAs
      <4>2. OutsOf(c)' = <<>>
        BY <4>1 DEF OutsOf
      <4>3. HandlesIn(<<>>) = {}
        BY EmptyIs DEF HandlesIn
      <4>. QED
        BY <4>1, <4>2, <4>3 DEF Token
    <3>2. CASE r.kind = "submit"
      <4>1. PICK p : p.slot = r.slot /\ p.scratch = r.scratch /\ pending'[c] = Append(pending[c], p)
        BY <1>1, <3>2 DEF SubmittedAs
      <4>2. \E k \in DOMAIN pending'[c] : pending'[c][k] = p
        BY <1>2, <4>1, AppendIs
      <4>. QED
        BY <4>1, <4>2 DEF Token
    <3>. QED
      BY <1>8, <3>1, <3>2
  <2>. QED
    BY <1>8, <2>3, <2>4 DEF Taken
<1>. QED
  BY <1>2, <1>6, <1>7, <1>8 DEF FormedCall, Nodewise

LEMMA CoveredStep ==
    ASSUME MInv, Informing, Covered, NEW c \in Client, Change(c),
           \/ Begin(c) \/ BeginFetch(c) \/ BeginWait(c) \/ Release(c) \/ Relabel(c) \/ Continue(c)
    PROVE  Covered'
<1>. USE DEF MInv
<1>1. ASSUME NEW d \in Client, pc'[d] = "record" PROVE Ready(d)'
  <2>1. CASE d = c
    BY <1>1, <2>1, RecordingSafe DEF Covered
  <2>2. CASE d # c
    <3>. PICK r : r = call[d]
      OBVIOUS
    <3>. PICK H : H = Taken(r)
      OBVIOUS
    <3>1. call'[d] = r /\ pc[d] = "record"
      BY <1>1, <2>2 DEF Change, OthersTold, OthersKept
    <3>2. Safe(d, H, r.work)
      BY <3>1 DEF Covered, Ready
    <3>3. Safe(d, H, r.work)'
      BY <2>2, <3>2, SafeKept
    <3>. QED
      BY <3>1, <3>3 DEF Ready
  <2>. QED
    BY <2>1, <2>2
<1>2. ASSUME ~timedOut', NEW e, \E k \in DOMAIN queue' : e = queue'[k]
      PROVE  \E d \in Client : CoveredBy(d, e)'
  <2>1. ~timedOut
    BY <1>2, ClientQueue
  <2>2. CASE \E k \in DOMAIN queue : e = queue[k]
    <3>1. PICK d \in Client : CoveredBy(d, e)
      BY <2>1, <2>2 DEF Covered
    <3>2. InFlight(e.slot)
      BY <2>2 DEF InFlight
    <3>3. CoveredBy(d, e)'
      BY <1>2, <3>1, <3>2, CoveredByKept
    <3>. QED
      BY <3>3
  <2>3. CASE Submit(c)
    <3>. PICK f : f = [slot |-> call[c].slot, fetch |-> call[c].kind = "fetch", work |-> call[c].work]
      OBVIOUS
    <3>1. SubmittedAs(c, Len(meant) + 1)
      BY <2>3, SubmitIs
    <3>2. queue' = Append(queue, f) /\ pc[c] = "record" /\ Sequence(queue)
      BY <3>1 DEF SubmittedAs, IInv, Shaped
    <3>3. f.slot = call[c].slot /\ f.work = call[c].work
      OBVIOUS
    <3>4. CoveredBy(c, f)'
      BY <2>3, <3>2, <3>3, SubmitCovers DEF Covered
    <3>5. \A k \in DOMAIN queue' : queue'[k] = f \/ (k \in DOMAIN queue /\ queue'[k] = queue[k])
      BY <3>2, AppendIs
    <3>. QED
      BY <1>2, <2>2, <3>4, <3>5
  <2>. QED
    BY <1>2, <2>2, <2>3, ClientQueue
<1>3. (~timedOut => \A k \in DOMAIN queue : \E d \in Client : CoveredBy(d, queue[k]))'
  BY <1>2
<1>. QED
  BY <1>1, <1>3 DEF Covered

LEMMA CoveredSame ==
    ASSUME Covered, UNCHANGED <<ids, pc, call, pending, owned, timedOut>>,
           \A k \in DOMAIN queue' : \E j \in DOMAIN queue : queue'[k] = queue[j]
    PROVE  Covered'
<1>1. \A c \in Client : \A H, work : Safe(c, H, work) => Safe(c, H, work)'
  BY PrivateSame DEF Safe
<1>2. \A c \in Client : \A s, H : Token(c, s, H)' <=> Token(c, s, H)
  BY DEF Token, OutsOf
<1>3. \A c \in Client : \A e : CoveredBy(c, e) => CoveredBy(c, e)'
  BY <1>1, <1>2 DEF CoveredBy
<1>4. \A c \in Client : pc'[c] = "record" => Ready(c)'
  <2>. TAKE c \in Client
  <2>. HAVE pc'[c] = "record"
  <2>. PICK r : r = call[c]
    OBVIOUS
  <2>. PICK H : H = Taken(r)
    OBVIOUS
  <2>1. Safe(c, H, r.work)
    BY DEF Covered, Ready
  <2>2. Safe(c, H, r.work)'
    BY <1>1, <2>1
  <2>. QED
    BY <2>2 DEF Ready
<1>. QED
  BY <1>3, <1>4 DEF Covered

LEMMA CoveredNext ==
    ASSUME MInv, Informing, Covered, [Next]_vars
    PROVE  Covered'
<1>1. CASE DeviceRuns
  <2>1. UNCHANGED <<ids, pc, call, pending, owned, timedOut>> /\ queue # <<>> /\ queue' = Tail(queue)
    BY <1>1 DEF DeviceRuns, bounds
  <2>2. Sequence(queue)
    BY DEF MInv, IInv, Shaped
  <2>3. \A k \in DOMAIN queue' : \E j \in DOMAIN queue : queue'[k] = queue[j]
    BY <2>1, <2>2, TailIs
  <2>. QED
    BY <2>1, <2>3, CoveredSame
<1>2. CASE UNCHANGED vars
  BY <1>2, CoveredSame DEF vars, bounds
<1>3. ASSUME NEW c \in Client,
             \/ Begin(c) \/ BeginFetch(c) \/ BeginWait(c) \/ Release(c) \/ Relabel(c) \/ Continue(c)
      PROVE  Covered'
  <2>1. Change(c)
    BY <1>3, ClientInformed
  <2>. QED
    BY <1>3, <2>1, CoveredStep
<1>. QED
  BY <1>1, <1>2, <1>3 DEF Next

LEMMA CoveredStarts == Init => Covered
<1>. SUFFICES ASSUME Init PROVE Covered
  OBVIOUS
<1>1. queue = <<>> /\ \A c \in Client : pc[c] = "idle"
  BY DEF Init
<1>. QED
  BY <1>1, EmptyIs DEF Covered

(***************************************************************************)
(* recycle destroys a buffer the pool has no room for.  Until a wait has   *)
(* given up, none of those is read or written by a submission in flight:   *)
(* its scratch and its outputs are with whoever waits for it, and what it  *)
(* reads besides is behind an id nobody may release before.                *)
(***************************************************************************)
THEOREM FreedWhenDone == Spec => []NothingFreedInFlight
<1>. DEFINE I == MInv /\ Informing /\ Covered
<1>1. Init => I
  BY MemoryStarts, InformingStarts, CoveredStarts
<1>2. I /\ [Next]_vars => I'
  BY MemoryKeeps, InformingNext, CoveredNext
<1>3. I => NothingFreedInFlight
  BY CoveredLive DEF MInv
<1>. QED
  BY <1>1, <1>2, <1>3, PTL DEF Spec

-----------------------------------------------------------------------------
(***************************************************************************)
(* What memory will hold.  Seen as a function of every handle, it changes  *)
(* with each dispatch in one way, as long as the dispatch reads what it    *)
(* was meant to read.                                                      *)
(***************************************************************************)
Wide(con) == [h \in Nat |-> IF h \in DOMAIN con THEN con[h] ELSE Junk]

Right(blocks, f, d) == (IF d.up = 0 THEN f[d.src] ELSE blocks[d.up]) = d.want
After(blocks, f, d) ==
  [h \in Nat |-> IF h = d.dst THEN d.stamp
                 ELSE IF d.up # 0 /\ h = d.src THEN blocks[d.up] ELSE f[h]]

\* t[k] is what the first k dispatches make of f, and each reads what it should.
Traces(t, blocks, f, work) ==
  /\ t[0] = f
  /\ \A k \in 1 .. Len(work) : /\ Right(blocks, t[k - 1], work[k])
                               /\ t[k] = After(blocks, t[k - 1], work[k])
Plays(blocks, f, work, g) == \E t : Traces(t, blocks, f, work) /\ g = t[Len(work)]

LEMMA SequenceIs ==
    ASSUME NEW s, Sequence(s)
    PROVE  Len(s) \in Nat /\ DOMAIN s = 1 .. Len(s)
<1>1. PICK T : s \in Seq(T)
  BY DEF Sequence
<1>. QED
  BY <1>1

LEMMA PlaysNone ==
    ASSUME NEW blocks, NEW f, NEW work, work = <<>>
    PROVE  Plays(blocks, f, work, f)
<1>. DEFINE t == [k \in {0} |-> f]
<1>1. t[0] = f
  OBVIOUS
<1>. HIDE DEF t
<1>2. Len(work) = 0
  BY EmptyIs
<1>3. Traces(t, blocks, f, work)
  BY <1>1, <1>2 DEF Traces
<1>. QED
  BY <1>1, <1>2, <1>3 DEF Plays

LEMMA PlaysMore ==
    ASSUME NEW blocks, NEW f, NEW work, Sequence(work), NEW g, Plays(blocks, f, work, g),
           NEW d, Right(blocks, g, d)
    PROVE  Plays(blocks, f, Append(work, d), After(blocks, g, d))
<1>. DEFINE n == Len(work)
            w == Append(work, d)
            a == After(blocks, g, d)
<1>1. PICK t : Traces(t, blocks, f, work) /\ g = t[n]
  BY DEF Plays
<1>2. n \in Nat /\ DOMAIN work = 1 .. n
  BY SequenceIs
<1>3. Len(w) = n + 1 /\ (\A k \in 1 .. n : w[k] = work[k]) /\ w[n + 1] = d
  <2>1. PICK T : work \in Seq(T)
    BY DEF Sequence
  <2>2. Len(w) = n + 1
    <3>1. Sequence(w) /\ DOMAIN w = DOMAIN work \cup {n + 1}
      BY AppendIs
    <3>2. Len(w) \in Nat /\ DOMAIN w = 1 .. Len(w)
      BY <3>1, SequenceIs
    <3>. HIDE DEF w, n
    <3>. QED
      BY <1>2, <3>1, <3>2
  <2>. QED
    BY <1>2, <2>2, AppendIs
<1>. DEFINE u == [k \in 0 .. n + 1 |-> IF k \in 0 .. n THEN t[k] ELSE a]
<1>. HIDE DEF w, n, a
<1>4. u[n + 1] = a /\ (\A k \in 0 .. n : u[k] = t[k])
  BY <1>2
<1>. HIDE DEF u
<1>5. u[0] = f
  BY <1>1, <1>2, <1>4 DEF Traces
<1>6. ASSUME NEW k \in 1 .. n + 1
      PROVE  Right(blocks, u[k - 1], w[k]) /\ u[k] = After(blocks, u[k - 1], w[k])
  <2>1. CASE k \in 1 .. n
    <3>1. u[k - 1] = t[k - 1] /\ u[k] = t[k] /\ w[k] = work[k]
      BY <1>2, <1>3, <1>4, <2>1
    <3>. QED
      BY <1>1, <2>1, <3>1 DEF Traces, n
  <2>2. CASE k = n + 1
    <3>1. u[k - 1] = g /\ u[k] = a /\ w[k] = d
      BY <1>1, <1>2, <1>3, <1>4, <2>2
    <3>. QED
      BY <3>1 DEF a
  <2>. QED
    BY <1>2, <2>1, <2>2
<1>7. Traces(u, blocks, f, w)
  BY <1>3, <1>5, <1>6 DEF Traces
<1>. QED
  BY <1>3, <1>4, <1>7 DEF Plays, w, a

\* Blocks that no dispatch copies may change.
LEMMA PlaysSame ==
    ASSUME NEW blocks, NEW f, NEW work, Sequence(work), NEW g, Plays(blocks, f, work, g),
           NEW new, \A i \in DOMAIN work : work[i].up # 0 => new[work[i].up] = blocks[work[i].up]
    PROVE  Plays(new, f, work, g)
<1>1. PICK t : Traces(t, blocks, f, work) /\ g = t[Len(work)]
  BY DEF Plays
<1>2. DOMAIN work = 1 .. Len(work)
  BY SequenceIs
<1>3. \A i \in DOMAIN work : \A e : /\ Right(new, e, work[i]) <=> Right(blocks, e, work[i])
                                    /\ After(new, e, work[i]) = After(blocks, e, work[i])
  <2>. SUFFICES ASSUME NEW i \in DOMAIN work, NEW e
                PROVE  /\ Right(new, e, work[i]) <=> Right(blocks, e, work[i])
                       /\ After(new, e, work[i]) = After(blocks, e, work[i])
    OBVIOUS
  <2>1. CASE work[i].up = 0
    BY <2>1 DEF Right, After
  <2>2. CASE work[i].up # 0
    <3>1. new[work[i].up] = blocks[work[i].up]
      BY <2>2
    <3>. QED
      BY <2>2, <3>1 DEF Right, After
  <2>. QED
    BY <2>1, <2>2
<1>4. Traces(t, new, f, work)
  BY <1>1, <1>2, <1>3 DEF Traces
<1>. QED
  BY <1>1, <1>4 DEF Plays

\* A dispatch that reads what it should, in the device's memory.
LEMMA DispatchRuns ==
    ASSUME NEW D \in SUBSET Nat, NEW V, Junk \in V, NEW mem \in [D -> V], NEW blocks, NEW d,
           d.stamp \in V, d.up = 0 \/ blocks[d.up] \in V, d.src \in D, d.dst \in D,
           Right(blocks, Wide(mem), d)
    PROVE  Wide(Execute(blocks, mem, d)) = After(blocks, Wide(mem), d)
<1>. DEFINE uploaded == IF d.up = 0 THEN mem ELSE [mem EXCEPT ![d.src] = blocks[d.up]]
            f == Wide(mem)
<1>1. uploaded \in [D -> V]
  OBVIOUS
<1>2. \A h \in D : uploaded[h] = IF d.up # 0 /\ h = d.src THEN blocks[d.up] ELSE mem[h]
  OBVIOUS
<1>3. DOMAIN mem = D /\ \A h \in Nat : f[h] = IF h \in D THEN mem[h] ELSE Junk
  BY DEF Wide
<1>4. uploaded[d.src] = d.want
  BY <1>2, <1>3 DEF Right
<1>. DEFINE e == Execute(blocks, mem, d)
<1>5. e = [uploaded EXCEPT ![d.dst] = d.stamp]
  BY <1>4 DEF Execute
<1>. HIDE DEF uploaded, e
<1>6. DOMAIN e = D /\ \A h \in D : e[h] = IF h = d.dst THEN d.stamp ELSE uploaded[h]
  BY <1>1, <1>5
<1>. HIDE DEF f
<1>7. \A h \in Nat : (IF h \in DOMAIN e THEN e[h] ELSE Junk)
                       = IF h = d.dst THEN d.stamp
                         ELSE IF d.up # 0 /\ h = d.src THEN blocks[d.up] ELSE f[h]
  BY <1>2, <1>3, <1>6
<1>8. Wide(e) = After(blocks, f, d)
  <2>1. Wide(e) = [h \in Nat |-> IF h \in DOMAIN e THEN e[h] ELSE Junk]
    BY DEF Wide
  <2>2. After(blocks, f, d) = [h \in Nat |-> IF h = d.dst THEN d.stamp
                         ELSE IF d.up # 0 /\ h = d.src THEN blocks[d.up] ELSE f[h]]
    BY DEF After
  <2>. QED
    BY <1>7, <2>1, <2>2
<1>. QED
  BY <1>8 DEF e, f

PlacedIn(work, D) == \A i \in DOMAIN work : work[i].src \in D /\ work[i].dst \in D

\* A submission leaves in memory what it was foretold to leave.
Faithful(D, V, blocks, mem, work) ==
  /\ D \in SUBSET Nat /\ Junk \in V /\ mem \in [D -> V] /\ Sequence(work)
  /\ WorkFits(blocks, work, V) /\ PlacedIn(work, D)

LEMMA SubmissionRuns ==
    ASSUME NEW D, NEW V, NEW blocks, NEW mem, NEW work, Faithful(D, V, blocks, mem, work),
           NEW g, Plays(blocks, Wide(mem), work, g)
    PROVE  Wide(Executed(blocks, mem, work)) = g
<1>. USE DEF Faithful
<1>. DEFINE n == Len(work)
<1>1. PICK at : Ran(at, blocks, mem, work, D, V)
  BY ExecutedInTurn
<1>2. PICK t : Traces(t, blocks, Wide(mem), work) /\ g = t[n]
  BY DEF Plays
<1>3. n \in Nat /\ DOMAIN work = 1 .. n
  BY SequenceIs
<1>. DEFINE S == {k \in Nat : k <= n => Wide(at[k]) = t[k]}
<1>4. 0 \in S
  BY <1>1, <1>2 DEF Ran, Traces
<1>5. ASSUME NEW k \in Nat, k \in S PROVE k + 1 \in S
  <2>. SUFFICES ASSUME k + 1 <= n PROVE Wide(at[k + 1]) = t[k + 1]
    OBVIOUS
  <2>1. k + 1 \in 1 .. n /\ k \in 0 .. n /\ (k + 1) - 1 = k /\ Wide(at[k]) = t[k]
    BY <1>3, <1>5
  <2>. DEFINE d == work[k + 1]
              m == at[k]
  <2>2. m \in [D -> V] /\ at[k + 1] = Execute(blocks, m, d)
    BY <1>1, <2>1 DEF Ran
  <2>3. Right(blocks, Wide(m), d) /\ t[k + 1] = After(blocks, Wide(m), d)
    BY <1>2, <2>1 DEF Traces
  <2>4. d.stamp \in V /\ (d.up = 0 \/ blocks[d.up] \in V) /\ d.src \in D /\ d.dst \in D
    BY <1>3, <2>1 DEF WorkFits, PlacedIn
  <2>. HIDE DEF d, m, S, n
  <2>5. Wide(Execute(blocks, m, d)) = After(blocks, Wide(m), d)
    <3>1. Right(blocks, Wide(m), d) /\ m \in [D -> V]
      BY <2>2, <2>3
    <3>. QED
      BY <2>4, <3>1, DispatchRuns
  <2>. QED
    BY <2>2, <2>3, <2>5
<1>. HIDE DEF S
<1>6. Nat \subseteq S
  BY <1>4, <1>5, ByInduction
<1>7. Wide(at[n]) = t[n]
  BY <1>3, <1>6 DEF S
<1>. QED
  BY <1>1, <1>2, <1>7 DEF Ran

LEMMA SameSequence ==
    ASSUME NEW s, Sequence(s), NEW t, Sequence(t), DOMAIN s = DOMAIN t, \A i \in DOMAIN s : s[i] = t[i]
    PROVE  s = t
<1>1. PICK T : s \in Seq(T)
  BY DEF Sequence
<1>2. PICK U : t \in Seq(U)
  BY DEF Sequence
<1>3. s = [i \in DOMAIN s |-> s[i]] /\ t = [i \in DOMAIN t |-> t[i]]
  BY <1>1, <1>2
<1>. QED
  BY <1>3

\* The links of a chain are the same in every chain that is long enough.
Link(s, a, b, d, k) ==
  Dispatched(IF k = 1 THEN 1 ELSE 0, IF k = 1 THEN s.h ELSE Turn(k - 1, a, b).h,
             IF k = 1 THEN d + 1 ELSE d + k - 1, Turn(k, a, b).h, d + k)

LEMMA LinksGrow ==
    ASSUME NEW s, NEW a, NEW b, NEW d \in Nat, NEW n \in Nat
    PROVE  ChainLinks(s, a, b, d, n + 1) =
             Append(IF n = 0 THEN <<>> ELSE ChainLinks(s, a, b, d, n), Link(s, a, b, d, n + 1))
<1>. DEFINE L(m) == ChainLinks(s, a, b, d, m)
            w == IF n = 0 THEN <<>> ELSE L(n)
            v == Append(w, Link(s, a, b, d, n + 1))
<1>1. \A m \in Nat \ {0} : Sequence(L(m)) /\ DOMAIN L(m) = 1 .. m
  BY LinksIs
<1>2. \A m \in Nat \ {0} : \A i \in 1 .. m : L(m)[i] = Link(s, a, b, d, i)
  BY DEF ChainLinks, Link, Turn
<1>. HIDE DEF L
<1>3. Sequence(w) /\ DOMAIN w = 1 .. n /\ Len(w) = n /\ \A i \in 1 .. n : w[i] = Link(s, a, b, d, i)
  <2>1. CASE n = 0
    BY <2>1, EmptyIs
  <2>2. CASE n # 0
    <3>1. Sequence(L(n)) /\ DOMAIN L(n) = 1 .. n /\ \A i \in 1 .. n : L(n)[i] = Link(s, a, b, d, i)
      BY <1>1, <1>2, <2>2
    <3>2. w = L(n)
      BY <2>2
    <3>. HIDE DEF w
    <3>3. Len(w) \in Nat /\ DOMAIN w = 1 .. Len(w)
      BY <3>1, <3>2, SequenceIs
    <3>. QED
      BY <3>1, <3>2, <3>3
  <2>. QED
    BY <2>1, <2>2
<1>. HIDE DEF w
<1>4. /\ Sequence(v) /\ DOMAIN v = 1 .. n \cup {n + 1} /\ v[n + 1] = Link(s, a, b, d, n + 1)
      /\ \A i \in 1 .. n : v[i] = Link(s, a, b, d, i)
  BY <1>3, AppendIs
<1>. HIDE DEF v
<1>5. n + 1 \in Nat \ {0}
  OBVIOUS
<1>6. /\ Sequence(L(n + 1)) /\ DOMAIN L(n + 1) = 1 .. n + 1
      /\ \A i \in 1 .. n + 1 : L(n + 1)[i] = Link(s, a, b, d, i)
  BY <1>1, <1>2, <1>5
<1>7. DOMAIN v = DOMAIN L(n + 1) /\ \A i \in DOMAIN v : v[i] = L(n + 1)[i]
  <2>1. 1 .. n + 1 = 1 .. n \cup {n + 1}
    OBVIOUS
  <2>. PICK l : l = L(n + 1)
    OBVIOUS
  <2>2. DOMAIN l = 1 .. n + 1 /\ \A i \in 1 .. n + 1 : l[i] = Link(s, a, b, d, i)
    BY <1>6
  <2>3. DOMAIN v = DOMAIN l /\ \A i \in DOMAIN v : v[i] = l[i]
    BY <1>4, <2>1, <2>2
  <2>. QED
    BY <2>3
<1>8. v = L(n + 1)
  BY <1>4, <1>6, <1>7, SameSequence
<1>. QED
  BY <1>8 DEF v, w, L

\* A recording that leaves v in the buffer to and touches none but those of H.
Fills(blocks, f, work, to, v, H) ==
  \E g : Plays(blocks, f, work, g) /\ g[to] = v /\ \A h \in Nat : h \notin H => g[h] = f[h]

\* A chain leaves its last stamp in the output of the last link.
LEMMA ChainPlays ==
    ASSUME NEW s, NEW a, NEW b, NEW d \in Nat, NEW n \in Nat \ {0}, NEW f, NEW blocks,
           blocks[1] = d + 1, s.h \in Nat, a.h \in Nat, b.h \in Nat
    PROVE  Fills(blocks, f, ChainLinks(s, a, b, d, n), Turn(n, a, b).h, d + n, {s.h, a.h, b.h})
<1>. DEFINE L(m) == IF m = 0 THEN <<>> ELSE ChainLinks(s, a, b, d, m)
            P(m, g) == /\ Plays(blocks, f, L(m), g)
                       /\ m # 0 => g[Turn(m, a, b).h] = d + m
                       /\ \A h \in Nat : h \notin {s.h, a.h, b.h} => g[h] = f[h]
            S == {m \in Nat : \E g : P(m, g)}
<1>1. 0 \in S
  <2>1. Plays(blocks, f, L(0), f)
    BY PlaysNone
  <2>2. P(0, f)
    BY <2>1
  <2>. QED
    BY <2>2
<1>2. ASSUME NEW m \in Nat, m \in S PROVE m + 1 \in S
  <2>. HIDE DEF P
  <2>1. PICK g : P(m, g)
    BY <1>2
  <2>. USE DEF P
  <2>. DEFINE e == Link(s, a, b, d, m + 1)
              i == After(blocks, g, e)
              to == Turn(m + 1, a, b).h
  <2>2. to \in {a.h, b.h} /\ Turn(m, a, b).h \in {a.h, b.h}
    BY DEF Turn
  <2>3. /\ e.up = (IF m = 0 THEN 1 ELSE 0) /\ e.dst = to /\ e.stamp = d + m + 1
        /\ e.src = (IF m = 0 THEN s.h ELSE Turn(m, a, b).h)
        /\ e.want = IF m = 0 THEN d + 1 ELSE d + m
    <3>1. (m + 1 = 1 <=> m = 0) /\ (m + 1) - 1 = m /\ d + (m + 1) = d + m + 1 /\ d + (m + 1) - 1 = d + m
      OBVIOUS
    <3>. QED
      BY <3>1 DEF Link, Dispatched
  <2>. HIDE DEF e, to
  <2>4. Right(blocks, g, e)
    BY <2>1, <2>3 DEF Right
  <2>5. Sequence(L(m)) /\ L(m + 1) = Append(L(m), e)
    <3>1. L(m + 1) = ChainLinks(s, a, b, d, m + 1)
      <4>1. m + 1 # 0
        OBVIOUS
      <4>. QED
        BY <4>1
    <3>2. Sequence(L(m))
      BY EmptyIs, LinksIs
    <3>. QED
      <4>1. ChainLinks(s, a, b, d, m + 1)
              = Append(IF m = 0 THEN <<>> ELSE ChainLinks(s, a, b, d, m), Link(s, a, b, d, m + 1))
        BY LinksGrow
      <4>2. Append(L(m), e) = Append(IF m = 0 THEN <<>> ELSE ChainLinks(s, a, b, d, m), Link(s, a, b, d, m + 1))
        BY DEF e
      <4>. HIDE DEF L
      <4>. QED
        BY <3>1, <3>2, <4>1, <4>2
  <2>6. Plays(blocks, f, L(m + 1), i)
    <3>1. Plays(blocks, f, L(m), g)
      BY <2>1
    <3>. HIDE DEF L, i
    <3>2. Plays(blocks, f, Append(L(m), e), After(blocks, g, e))
      BY <2>4, <2>5, <3>1, PlaysMore
    <3>. QED
      BY <2>5, <3>2 DEF i
  <2>7. \A h \in Nat : i[h] = IF h = to THEN d + m + 1
                              ELSE IF e.up # 0 /\ h = e.src THEN blocks[e.up] ELSE g[h]
    BY <2>3 DEF After
  <2>. HIDE DEF i, L
  <2>8. i[to] = d + (m + 1)
    BY <2>2, <2>7
  <2>9. \A h \in Nat : h \notin {s.h, a.h, b.h} => i[h] = f[h]
    <3>1. \A h \in Nat : h \notin {s.h, a.h, b.h} => g[h] = f[h]
      BY <2>1
    <3>. QED
      BY <2>2, <2>3, <2>7, <3>1
  <2>10. P(m + 1, i)
    BY <2>6, <2>8, <2>9 DEF to
  <2>. HIDE DEF P
  <2>. QED
    BY <2>10
<1>. HIDE DEF S
<1>3. n \in S
  BY <1>1, <1>2, ByInduction
<1>4. PICK g : P(n, g)
  BY <1>3 DEF S
<1>. QED
  BY <1>4 DEF Fills

-----------------------------------------------------------------------------
(***************************************************************************)
(* What is foretold.  F[k] is what memory holds when the first k of the    *)
(* queue have run.  A buffer h is to show v once the submissions of the    *)
(* slots S have run, and from then on.                                     *)
(***************************************************************************)
Shows(F, q, h, v, S) ==
  \A k \in 0 .. Len(q) : (\A j \in DOMAIN q : q[j].slot \in S => j <= k) => F[k][h] = v

\* The ids that are due to their caller, when the slots S are done.
Owed(own, p, r, at, id, S) ==
  \/ id \in own /\ S = {}
  \/ \E k \in DOMAIN p : id = p[k].ids[1] /\ S = {p[k].slot}
  \/ at \in {"sync", "wait sync"} /\ r.kind \in {"run", "wait"} /\ id = r.id /\ S = {r.slot}

\* What a recording leaves in its outputs.
Hands(r, h, v) ==
  \/ r.kind \in Nodewise /\ \E i \in DOMAIN r.outs : h = r.outs[i].h /\ v = r.work[i].stamp
  \/ r.kind = "chain" /\ r.work # <<>> /\ h = r.outs[1].h /\ v = Last(r.work).stamp

DueOf(own, p, r, at, res, mean, h, v, S) ==
  \/ \E id \in DOMAIN res : Owed(own, p, r, at, id, S) /\ h = res[id].h /\ v = mean[id]
  \/ at \in {"sync", "wait sync"} /\ r.kind \in {"batch", "chain"} /\ Hands(r, h, v) /\ S = {r.slot}
Due(c, h, v, S) == DueOf(owned[c], pending[c], call[c], pc[c], resident, meant, h, v, S)

LEMMA OwedTold ==
    ASSUME NEW own, NEW p, NEW r, NEW at, NEW id, NEW S, Owed(own, p, r, at, id, S)
    PROVE  id \in ToldOf(own, p, r, at)
  BY DEF Owed, ToldOf

\* An id that was told and is there after a step was there before.
LEMMA TableKept ==
    ASSUME Informing, NEW d \in Client, Change(d), NEW c \in Client, NEW id \in Told(c), id \in DOMAIN resident'
    PROVE  id \in DOMAIN resident /\ resident'[id].h = resident[id].h /\ meant'[id] = meant[id]
<1>1. id \in DOMAIN meant
  BY DEF Informing, Informed
<1>. QED
  BY <1>1 DEF Change, TableGrows

LEMMA OthersDue ==
    ASSUME Informing, NEW d \in Client, Change(d), NEW c \in Client \ {d}, NEW h, NEW v, NEW S,
           Due(c, h, v, S)'
    PROVE  Due(c, h, v, S)
<1>1. owned'[c] = owned[c] /\ pending'[c] = pending[c] /\ call'[c] = call[c] /\ pc'[c] = pc[c]
  BY DEF Change, OthersTold, OthersKept
<1>2. DueOf(owned[c], pending[c], call[c], pc[c], resident', meant', h, v, S)
  BY <1>1 DEF Due
<1>3. \A id : Owed(owned[c], pending[c], call[c], pc[c], id, S) => id \in Told(c)
  BY OwedTold DEF Told
<1>. QED
  BY <1>2, <1>3, TableKept DEF Due, DueOf

\* What a step leaves due to its client as it was.
LEMMA StillDue ==
    ASSUME Informing, NEW c \in Client, Change(c), NEW h, NEW v, NEW S, Due(c, h, v, S)',
           \A id : Owed(owned'[c], pending'[c], call'[c], pc'[c], id, S)
                     => Owed(owned[c], pending[c], call[c], pc[c], id, S),
           pc'[c] \in {"sync", "wait sync"} /\ call'[c].kind \in {"batch", "chain"} =>
             pc[c] \in {"sync", "wait sync"} /\ call'[c] = call[c]
    PROVE  Due(c, h, v, S)
<1>1. DueOf(owned'[c], pending'[c], call'[c], pc'[c], resident', meant', h, v, S)
  BY DEF Due
<1>2. \A id : Owed(owned[c], pending[c], call[c], pc[c], id, S) => id \in Told(c)
  BY OwedTold DEF Told
<1>3. CASE \E id \in DOMAIN resident' : /\ Owed(owned'[c], pending'[c], call'[c], pc'[c], id, S)
                                        /\ h = resident'[id].h /\ v = meant'[id]
  BY <1>2, <1>3, TableKept DEF Due, DueOf
<1>4. CASE /\ pc'[c] \in {"sync", "wait sync"} /\ call'[c].kind \in {"batch", "chain"}
           /\ Hands(call'[c], h, v) /\ S = {call'[c].slot}
  <2>1. call'[c] = call[c] /\ pc[c] \in {"sync", "wait sync"}
    BY <1>4
  <2>. QED
    BY <1>4, <2>1 DEF Due, DueOf
<1>. QED
  BY <1>1, <1>3, <1>4 DEF DueOf

\* Nothing new is due to a client whose step neither submits nor settles.
LEMMA QuietDue ==
    ASSUME MInv, Informing, NEW c \in Client, Change(c),
           \/ Begin(c) \/ BeginFetch(c) \/ Release(c) \/ Relabel(c)
           \/ Acquire(c) \/ SlotFree(c) \/ SlotWaitFails(c)
           \/ RecordNode(c) \/ RecordChain(c) \/ RecordFetch(c)
           \/ RecordNodeFails(c) \/ RecordChainFails(c) \/ RecordFetchFails(c) \/ SubmitFails(c)
           \/ SyncFails(c) \/ ReadBack(c) \/ ReadFails(c),
           NEW h, NEW v, NEW S, Due(c, h, v, S)'
    PROVE  Due(c, h, v, S)
<1>. USE DEF MInv
<1>1. Return(c) => pc'[c] = "idle"
  BY ReturnIs
<1>2. \A r : Take(c, r) => pc'[c] \in {"wait slot", "record"}
  BY DEF Take, IInv, Shaped
<1>3. \A m, outs : Abandon(c, m, outs) => pc'[c] = "idle" /\ UNCHANGED <<pending, owned>>
  BY <1>1 DEF Abandon
<1>4. UNCHANGED <<pending, owned>> /\ pc'[c] \notin {"sync", "wait sync"}
  <2>1. CASE Begin(c) \/ Acquire(c)
    BY <1>2, <2>1 DEF Begin, Acquire
  <2>2. CASE BeginFetch(c) \/ SlotFree(c) \/ Release(c) \/ Relabel(c)
    BY <2>2 DEF BeginFetch, SlotFree, Release, Relabel, IInv, Shaped
  <2>3. CASE RecordNode(c) \/ RecordChain(c) \/ RecordFetch(c)
    BY <2>3 DEF RecordNode, RecordChain, RecordFetch
  <2>4. CASE RecordNodeFails(c) \/ RecordChainFails(c) \/ RecordFetchFails(c) \/ SubmitFails(c)
    BY <1>3, <2>4 DEF RecordNodeFails, RecordChainFails, RecordFetchFails, SubmitFails
  <2>5. CASE SlotWaitFails(c) \/ SyncFails(c) \/ ReadBack(c) \/ ReadFails(c)
    BY <1>1, <2>5 DEF SlotWaitFails, SyncFails, ReadBack, ReadFails
  <2>. QED
    BY <2>1, <2>2, <2>3, <2>4, <2>5
<1>5. \A id : Owed(owned'[c], pending'[c], call'[c], pc'[c], id, S)
                => Owed(owned[c], pending[c], call[c], pc[c], id, S)
  BY <1>4 DEF Owed
<1>. QED
  BY <1>4, <1>5, StillDue

LEMMA WaitDue ==
    ASSUME MInv, Informing, NEW c \in Client, Change(c), BeginWait(c) \/ TakeSync(c),
           NEW h, NEW v, NEW S, Due(c, h, v, S)'
    PROVE  Due(c, h, v, S)
<1>. USE DEF MInv
<1>1. CASE TakeSync(c)
  <2>1. UNCHANGED <<pending, owned, call>> /\ pc[c] = "sync" /\ pc'[c] = "wait sync"
    BY <1>1 DEF TakeSync, IInv, Shaped
  <2>2. \A id : Owed(owned'[c], pending'[c], call'[c], pc'[c], id, S)
                  => Owed(owned[c], pending[c], call[c], pc[c], id, S)
    BY <2>1 DEF Owed
  <2>. QED
    BY <2>1, <2>2, StillDue
<1>2. CASE BeginWait(c)
  <2>1. PICK k \in DOMAIN pending[c] :
          /\ pending' = [pending EXCEPT ![c] = RemoveAt(@, k)]
          /\ call' = [call EXCEPT ![c] = [Idle EXCEPT !.kind = "wait", !.slot = pending[c][k].slot,
                          !.scratch = pending[c][k].scratch, !.id = pending[c][k].ids[1]]]
    BY <1>2 DEF BeginWait
  <2>2. /\ DOMAIN call = Client /\ DOMAIN pc = Client /\ DOMAIN pending = Client
        /\ pc' = [pc EXCEPT ![c] = "sync"] /\ UNCHANGED owned /\ Sequence(pending[c])
    BY <1>2 DEF BeginWait, IInv, Shaped
  <2>3. /\ call'[c].id = pending[c][k].ids[1] /\ call'[c].kind = "wait" /\ call'[c].slot = pending[c][k].slot
        /\ pending'[c] = RemoveAt(pending[c], k)
    <3>. DEFINE q == [Idle EXCEPT !.kind = "wait", !.slot = pending[c][k].slot,
                          !.scratch = pending[c][k].scratch, !.id = pending[c][k].ids[1]]
    <3>1. q.slot = pending[c][k].slot /\ q.kind = "wait" /\ q.id = pending[c][k].ids[1]
      BY DEF Idle
    <3>. HIDE DEF q
    <3>2. call'[c] = q
      BY <2>1, <2>2 DEF q
    <3>. QED
      BY <2>1, <2>2, <3>1, <3>2
  <2>4. \A i \in DOMAIN pending'[c] : \E j \in DOMAIN pending[c] : pending'[c][i] = pending[c][j]
    BY <2>2, <2>3, RemoveIs
  <2>5. \A id : Owed(owned'[c], pending'[c], call'[c], pc'[c], id, S)
                  => Owed(owned[c], pending[c], call[c], pc[c], id, S)
    BY <2>2, <2>3, <2>4 DEF Owed
  <2>. QED
    BY <2>3, <2>5, StillDue
<1>. QED
  BY <1>1, <1>2

\* A submission is due to its client in the slot it was submitted in.
LEMMA SubmittedDue ==
    ASSUME MInv, Informing, NEW c \in Client, Change(c), Submit(c), NEW h, NEW v, NEW S, Due(c, h, v, S)'
    PROVE  Due(c, h, v, S) \/ (Hands(call[c], h, v) /\ S = {call[c].slot})
<1>. USE DEF MInv
<1>. PICK r : r = call[c]
  OBVIOUS
<1>. PICK n : n = Len(meant) + 1
  OBVIOUS
<1>1. SubmittedAs(c, n)
  BY SubmitIs
<1>2. pc[c] = "record" /\ FormedCall(r, "record") /\ Sequence(r.outs) /\ Sequence(pending[c])
  BY <1>1 DEF SubmittedAs, Calls, FormedCall, IInv, Shaped
<1>3. owned'[c] = owned[c]
  BY <1>1 DEF SubmittedAs
<1>4. DueOf(owned'[c], pending'[c], call'[c], pc'[c], resident', meant', h, v, S)
  BY DEF Due
<1>5. CASE r.kind \in {"fetch", "batch", "chain"}
  <2>1. /\ pending'[c] = pending[c] /\ call'[c] = r
        /\ pc'[c] \in {"sync", "wait sync"} => r.kind # "fetch" /\ pc'[c] = "sync"
    BY <1>1, <1>5 DEF SubmittedAs
  <2>2. \A id : Owed(owned'[c], pending'[c], call'[c], pc'[c], id, S)
                  => Owed(owned[c], pending[c], call[c], pc[c], id, S)
    BY <1>3, <1>5, <2>1 DEF Owed
  <2>3. CASE /\ pc'[c] \in {"sync", "wait sync"} /\ call'[c].kind \in {"batch", "chain"}
             /\ Hands(call'[c], h, v) /\ S = {call'[c].slot}
    BY <2>1, <2>3
  <2>4. CASE \E id \in DOMAIN resident' : /\ Owed(owned'[c], pending'[c], call'[c], pc'[c], id, S)
                                          /\ h = resident'[id].h /\ v = meant'[id]
    <3>1. \A id : Owed(owned[c], pending[c], call[c], pc[c], id, S) => id \in Told(c)
      BY OwedTold DEF Told
    <3>. QED
      BY <2>2, <2>4, <3>1, TableKept DEF Due, DueOf
  <2>. QED
    BY <1>4, <2>3, <2>4 DEF DueOf
<1>6. CASE r.kind \in {"run", "submit"}
  <2>1. /\ Len(r.outs) = 1 /\ resident'[n] = r.outs[1] /\ meant'[n] = r.work[1].stamp
    BY <1>1, <1>6 DEF SubmittedAs
  <2>2. 1 \in DOMAIN r.outs
    <3>1. DOMAIN r.outs = 1 .. Len(r.outs)
      BY <1>2, SequenceIs
    <3>. QED
      BY <2>1, <3>1
  <2>3. Hands(r, resident'[n].h, meant'[n])
    BY <1>6, <2>1, <2>2 DEF Hands, Nodewise
  <2>4. /\ pc'[c] \in {"sync", "wait sync"} => call'[c].kind = "run"
        /\ \A id : Owed(owned'[c], pending'[c], call'[c], pc'[c], id, S)
                     => \/ Owed(owned[c], pending[c], call[c], pc[c], id, S)
                        \/ id = n /\ S = {r.slot}
    <3>1. CASE r.kind = "run"
      <4>1. /\ pending'[c] = pending[c] /\ pc'[c] = "sync"
            /\ call'[c].kind = "run" /\ call'[c].id = n /\ call'[c].slot = r.slot
        BY <1>1, <3>1 DEF SubmittedAs
      <4>. QED
        BY <1>3, <4>1 DEF Owed
    <3>2. CASE r.kind = "submit"
      <4>1. pc'[c] = "idle"
        BY <1>1, <3>2 DEF SubmittedAs
      <4>2. PICK e : e.slot = r.slot /\ e.ids[1] = n /\ pending'[c] = Append(pending[c], e)
        BY <1>1, <3>2 DEF SubmittedAs
      <4>3. \A k \in DOMAIN pending'[c] : \/ pending'[c][k] = e
                                          \/ k \in DOMAIN pending[c] /\ pending'[c][k] = pending[c][k]
        BY <1>2, <4>2, AppendIs
      <4>. QED
        BY <1>3, <4>1, <4>2, <4>3 DEF Owed
    <3>. QED
      BY <1>6, <3>1, <3>2
  <2>5. \A id : Owed(owned[c], pending[c], call[c], pc[c], id, S) => id \in Told(c)
    BY OwedTold DEF Told
  <2>6. PICK id \in DOMAIN resident' : /\ Owed(owned'[c], pending'[c], call'[c], pc'[c], id, S)
                                       /\ h = resident'[id].h /\ v = meant'[id]
    BY <1>4, <2>4 DEF DueOf
  <2>7. CASE id = n /\ S = {r.slot}
    BY <2>3, <2>6, <2>7
  <2>8. CASE Owed(owned[c], pending[c], call[c], pc[c], id, S)
    BY <2>5, <2>6, <2>8, TableKept DEF Due, DueOf
  <2>. QED
    BY <2>4, <2>6, <2>7, <2>8
<1>. QED
  BY <1>2, <1>5, <1>6 DEF FormedCall, Nodewise

\* What a wait settles was due in the slot whose fence has signalled.
LEMMA SyncedDue ==
    ASSUME MInv, Informing, NEW c \in Client, Change(c), Synced(c), NEW h, NEW v, NEW S, Due(c, h, v, S)'
    PROVE  Due(c, h, v, S) \/ (S = {} /\ \E s : ~InFlight(s) /\ Due(c, h, v, {s}))
<1>. USE DEF MInv
<1>. PICK r : r = call[c]
  OBVIOUS
<1>1. SyncedAs(c)
  BY SyncedIs
<1>2. /\ pc[c] = "wait sync" /\ fence[r.slot] /\ pc'[c] = "idle" /\ pending'[c] = pending[c]
      /\ FormedCall(r, "wait sync")
  BY <1>1 DEF SyncedAs, Calls
<1>3. ~InFlight(r.slot)
  BY <1>2 DEF IInv, Shaped, OneInFlight
<1>4. PICK id \in DOMAIN resident' : /\ Owed(owned'[c], pending'[c], call'[c], pc'[c], id, S)
                                     /\ h = resident'[id].h /\ v = meant'[id]
  BY <1>2 DEF Due, DueOf
<1>5. (id \in owned'[c] /\ S = {}) \/ Owed(owned[c], pending[c], r, pc[c], id, S)
  BY <1>2, <1>4 DEF Owed
<1>6. CASE Owed(owned[c], pending[c], r, pc[c], id, S)
  <2>1. id \in Told(c)
    BY <1>6, OwedTold DEF Told
  <2>. QED
    BY <1>4, <1>6, <2>1, TableKept DEF Due, DueOf
<1>7. CASE id \in owned'[c] /\ S = {}
  <2>1. \/ id \in owned[c]
        \/ r.kind \in {"run", "wait"} /\ id = r.id
        \/ /\ r.kind = "batch"
           /\ \E k \in DOMAIN r.outs : resident'[id] = r.outs[k] /\ meant'[id] = r.work[k].stamp
        \/ r.kind = "chain" /\ resident'[id] = r.outs[1] /\ meant'[id] = Last(r.work).stamp
    BY <1>1, <1>7 DEF SyncedAs
  <2>2. CASE id \in owned[c]
    BY <1>6, <1>7, <2>2 DEF Owed
  <2>3. CASE r.kind \in {"run", "wait"} /\ id = r.id
    <3>1. Owed(owned[c], pending[c], r, pc[c], id, {r.slot})
      BY <1>2, <2>3 DEF Owed
    <3>2. id \in Told(c)
      BY <3>1, OwedTold DEF Told
    <3>3. Due(c, h, v, {r.slot})
      BY <1>4, <3>1, <3>2, TableKept DEF Due, DueOf
    <3>. QED
      BY <1>3, <1>7, <3>3
  <2>4. CASE \/ /\ r.kind = "batch"
                /\ \E k \in DOMAIN r.outs : resident'[id] = r.outs[k] /\ meant'[id] = r.work[k].stamp
             \/ r.kind = "chain" /\ resident'[id] = r.outs[1] /\ meant'[id] = Last(r.work).stamp
    <3>1. r.kind \in {"batch", "chain"} /\ r.work # <<>>
      BY <1>2, <2>4 DEF FormedCall
    <3>2. Hands(r, h, v)
      BY <1>4, <2>4, <3>1 DEF Hands, Nodewise
    <3>3. Due(c, h, v, {r.slot})
      BY <1>2, <3>1, <3>2 DEF Due, DueOf
    <3>. QED
      BY <1>3, <1>7, <3>3
  <2>. QED
    BY <2>1, <2>2, <2>3, <2>4
<1>. QED
  BY <1>5, <1>6, <1>7

\* Where what is due comes from.
Came(c, d, h, v, S) ==
  \/ Due(d, h, v, S)
  \/ S = {} /\ \E s : ~InFlight(s) /\ Due(d, h, v, {s})
  \/ d = c /\ Submit(c) /\ Hands(call[c], h, v) /\ S = {call[c].slot}

LEMMA DueCame ==
    ASSUME MInv, Informing, NEW c \in Client, Change(c),
           \/ Begin(c) \/ BeginFetch(c) \/ BeginWait(c) \/ Release(c) \/ Relabel(c) \/ Continue(c),
           NEW d \in Client, NEW h, NEW v, NEW S, Due(d, h, v, S)'
    PROVE  Came(c, d, h, v, S)
<1>1. CASE d # c
  BY <1>1, OthersDue DEF Came
<1>2. CASE d = c
  <2>1. CASE Submit(c)
    BY <1>2, <2>1, SubmittedDue DEF Came
  <2>2. CASE Synced(c)
    BY <1>2, <2>2, SyncedDue DEF Came
  <2>3. CASE BeginWait(c) \/ TakeSync(c)
    BY <1>2, <2>3, WaitDue DEF Came
  <2>4. CASE \/ Begin(c) \/ BeginFetch(c) \/ Release(c) \/ Relabel(c)
             \/ Acquire(c) \/ SlotFree(c) \/ SlotWaitFails(c)
             \/ RecordNode(c) \/ RecordChain(c) \/ RecordFetch(c)
             \/ RecordNodeFails(c) \/ RecordChainFails(c) \/ RecordFetchFails(c) \/ SubmitFails(c)
             \/ SyncFails(c) \/ ReadBack(c) \/ ReadFails(c)
    BY <1>2, <2>4, QuietDue DEF Came
  <2>. QED
    BY <2>1, <2>2, <2>3, <2>4 DEF Continue
<1>. QED
  BY <1>1, <1>2

-----------------------------------------------------------------------------
(***************************************************************************)
(* What is recorded or queued reads and writes memory that is there.       *)
(***************************************************************************)
Placed ==
  /\ \A c \in Client : pc[c] = "record" /\ call[c].kind # "fetch" =>
       PlacedIn(call[c].work, DOMAIN cap)
  /\ \A k \in DOMAIN queue : ~queue[k].fetch => PlacedIn(queue[k].work, DOMAIN cap)

LEMMA PlacedMore ==
    ASSUME NEW D, NEW E, D \subseteq E, NEW work, PlacedIn(work, D)
    PROVE  PlacedIn(work, E)
  BY DEF PlacedIn

LEMMA LentPlaced ==
    ASSUME NEW m, Sound(m)
    PROVE  Lent(m) \subseteq DOMAIN m.cap /\ DOMAIN m.cap \subseteq Nat
<1>1. m.cap \in Seq(Size)
  BY DEF Sound, Memories
<1>. QED
  BY <1>1 DEF Lent

LEMMA HandPlaced ==
    ASSUME Owners, NEW c \in Client
    PROVE  /\ Has(c) \subseteq DOMAIN cap /\ TableOf(resident) \subseteq DOMAIN cap
           /\ Has(c) \subseteq Lent(Memory) /\ TableOf(resident) \subseteq Lent(Memory)
           /\ DOMAIN cap \subseteq Nat
<1>1. Memory.cap = cap
  BY DEF Memory
<1>2. Has(c) \subseteq Lent(Memory)
  BY HandLent DEF Owners, Has
<1>3. TableOf(resident) \subseteq Lent(Memory)
  BY TableLent DEF Owners
<1>. QED
  BY <1>1, <1>2, <1>3, LentPlaced DEF Owners

\* The recorder's buffers after its step.
LEMMA RecorderPlaced ==
    ASSUME Owners', NEW c \in Client, pc'[c] = "record"
    PROVE  /\ HandlesIn(call'[c].outs) \cup HandlesIn(call'[c].scratch) \subseteq DOMAIN cap'
           /\ DOMAIN cap' \subseteq Nat
<1>1. Sound(Memory') /\ HandTidy(OutsOf(c)', call'[c].scratch, pending'[c], Memory')
  BY DEF Owners
<1>2. Memory'.cap = cap'
  BY DEF Memory
<1>3. OutsOf(c)' = call'[c].outs
  BY DEF OutsOf
<1>4. Lent(Memory') \subseteq DOMAIN cap' /\ DOMAIN cap' \subseteq Nat
  <2>. PICK m : m = Memory'
    OBVIOUS
  <2>. QED
    BY <1>1, <1>2, LentPlaced
<1>5. HandOf(call'[c].outs, call'[c].scratch, pending'[c]) \subseteq Lent(Memory')
  <2>. PICK m : m = Memory'
    OBVIOUS
  <2>. PICK p : p = pending'[c]
    OBVIOUS
  <2>. QED
    BY <1>1, <1>3, HandLent
<1>. QED
  BY <1>4, <1>5 DEF HandOf

LEMMA DraftPlaced ==
    ASSUME MInv, Informing, Placed, Owners', NEW c \in Client, DOMAIN cap \subseteq DOMAIN cap',
           \/ Begin(c) \/ BeginFetch(c) \/ BeginWait(c) \/ Release(c) \/ Relabel(c) \/ Continue(c),
           pc'[c] = "record", call'[c].kind # "fetch"
    PROVE  PlacedIn(call'[c].work, DOMAIN cap')
<1>. USE DEF MInv
<1>. PICK r : r = call[c]
  OBVIOUS
<1>. PICK q : q = call'[c]
  OBVIOUS
<1>. PICK D : D = DOMAIN cap'
  OBVIOUS
<1>1. HandlesIn(q.outs) \cup HandlesIn(q.scratch) \subseteq D
  BY RecorderPlaced
<1>2. CASE call'[c].work = <<>>
  <2>1. DOMAIN q.work = {}
    BY <1>2, EmptyIs
  <2>. QED
    BY <2>1 DEF PlacedIn
<1>3. CASE RecordNode(c)
  <2>1. PICK d, o : NodeAs(c, d, o)
    BY <1>3, NodeIs
  <2>2. /\ pc[c] = "record" /\ r.kind \in Nodewise
        /\ q.work = Append(r.work, d) /\ HandlesIn(q.outs) = HandlesIn(r.outs) \cup {o.h}
        /\ HandlesIn(q.scratch) = HandlesIn(r.scratch) \cup {h \in {d.src} : d.up # 0}
        /\ d.dst = o.h
    BY <2>1 DEF NodeAs
  <2>3. PlacedIn(r.work, D) /\ Sequence(r.work)
    <3>1. PlacedIn(r.work, DOMAIN cap)
      BY <2>2 DEF Placed, Nodewise
    <3>. QED
      BY <2>2, <3>1, PlacedMore DEF Calls, FormedCall
  <2>4. d.dst \in D
    BY <1>1, <2>2
  <2>5. d.src \in D
    <3>1. CASE d.up # 0
      BY <1>1, <2>2, <3>1
    <3>2. CASE d.up = 0 /\ \E id \in Told(c) \cap DOMAIN resident : d.src = resident[id].h
      <4>1. TableOf(resident) \subseteq DOMAIN cap
        BY HandPlaced
      <4>. QED
        BY <3>2, <4>1 DEF TableOf
    <3>3. CASE 1 \in DOMAIN r.outs /\ d.src = r.outs[1].h
      BY <1>1, <2>2, <3>3 DEF HandlesIn
    <3>4. r.blocks \in Nat
      BY DEF Calls, FormedCall
    <3>5. \/ d.up = r.blocks + 1
          \/ d.up = 0 /\ \E id \in Told(c) \cap DOMAIN resident : d.src = resident[id].h
          \/ 1 \in DOMAIN r.outs /\ d.src = r.outs[1].h
      BY <2>1 DEF NodeAs
    <3>. QED
      BY <3>1, <3>2, <3>3, <3>4, <3>5
  <2>6. \A i \in DOMAIN q.work : q.work[i] = d \/ (i \in DOMAIN r.work /\ q.work[i] = r.work[i])
    BY <2>2, <2>3, AppendIs
  <2>. QED
    BY <2>3, <2>4, <2>5, <2>6 DEF PlacedIn
<1>4. CASE RecordChain(c)
  <2>1. PICK s, a, b : ChainAs(c, s, a, b)
    BY <1>4, ChainIs
  <2>. PICK n : n = Len(r.nodes)
    OBVIOUS
  <2>2. /\ n \in Nat \ {0} /\ q.work = ChainLinks(s, a, b, stamp, n)
        /\ HandlesIn(q.outs) = {a.h, b.h} /\ HandlesIn(q.scratch) = {s.h} /\ stamp \in Nat
    BY <2>1 DEF ChainAs, Books
  <2>. PICK w : w = ChainLinks(s, a, b, stamp, n)
    OBVIOUS
  <2>3. DOMAIN w = 1 .. n
    BY <2>2, LinksUse
  <2>4. ASSUME NEW i \in 1 .. n
        PROVE  w[i].dst = Turn(i, a, b).h /\ w[i].src = IF i = 1 THEN s.h ELSE Turn(i - 1, a, b).h
    BY <2>2, LinksUse
  <2>5. \A k : Turn(k, a, b).h \in {a.h, b.h}
    BY DEF Turn
  <2>6. \A i \in DOMAIN w : w[i].dst \in {a.h, b.h} /\ w[i].src \in {s.h, a.h, b.h}
    BY <2>3, <2>4, <2>5
  <2>. QED
    BY <1>1, <2>2, <2>6 DEF PlacedIn
<1>5. CASE RecordFetch(c)
  BY <1>5, FetchIs DEF FetchAs
<1>. QED
  BY <1>2, <1>3, <1>4, <1>5, RecordingFrom

LEMMA PlacedStep ==
    ASSUME MInv, Informing, Placed, Owners', NEW c \in Client, Change(c),
           \/ Begin(c) \/ BeginFetch(c) \/ BeginWait(c) \/ Release(c) \/ Relabel(c) \/ Continue(c)
    PROVE  Placed'
<1>. USE DEF MInv
<1>1. DOMAIN cap \subseteq DOMAIN cap'
  BY ClientGrown, GrownIs
<1>2. ASSUME NEW d \in Client, pc'[d] = "record", call'[d].kind # "fetch"
      PROVE  PlacedIn(call'[d].work, DOMAIN cap')
  <2>1. CASE d = c
    BY <1>1, <1>2, <2>1, DraftPlaced
  <2>2. CASE d # c
    <3>1. call'[d] = call[d] /\ pc'[d] = pc[d]
      BY <2>2 DEF Change, OthersTold, OthersKept
    <3>2. PlacedIn(call[d].work, DOMAIN cap)
      BY <1>2, <3>1 DEF Placed
    <3>. QED
      BY <1>1, <3>1, <3>2, PlacedMore
  <2>. QED
    BY <2>1, <2>2
<1>3. \A k \in DOMAIN queue : ~queue[k].fetch => PlacedIn(queue[k].work, DOMAIN cap')
  BY <1>1, PlacedMore DEF Placed
<1>4. \A k \in DOMAIN queue' : ~queue'[k].fetch => PlacedIn(queue'[k].work, DOMAIN cap')
  <2>1. CASE queue' = queue
    BY <1>3, <2>1
  <2>2. CASE Submit(c)
    <3>1. SubmittedAs(c, Len(meant) + 1)
      BY <2>2, SubmitIs
    <3>. DEFINE e == [slot |-> call[c].slot, fetch |-> call[c].kind = "fetch", work |-> call[c].work]
    <3>2. e.fetch = (call[c].kind = "fetch") /\ e.work = call[c].work
      OBVIOUS
    <3>3. queue' = Append(queue, e) /\ pc[c] = "record" /\ Sequence(queue)
      BY <3>1 DEF SubmittedAs, IInv, Shaped
    <3>. HIDE DEF e
    <3>4. ~e.fetch => PlacedIn(e.work, DOMAIN cap')
      BY <1>1, <3>2, <3>3, PlacedMore DEF Placed
    <3>5. \A k \in DOMAIN queue' : queue'[k] = e \/ (k \in DOMAIN queue /\ queue'[k] = queue[k])
      BY <3>3, AppendIs
    <3>. QED
      BY <1>3, <3>4, <3>5
  <2>. QED
    BY <2>1, <2>2, ClientQueue
<1>. QED
  BY <1>2, <1>4 DEF Placed

LEMMA PlacedNext ==
    ASSUME MInv, Informing, Placed, [Next]_vars
    PROVE  Placed'
<1>. USE DEF MInv
<1>1. Owners'
  BY MemoryKeeps
<1>2. ASSUME NEW c \in Client,
             \/ Begin(c) \/ BeginFetch(c) \/ BeginWait(c) \/ Release(c) \/ Relabel(c) \/ Continue(c)
      PROVE  Placed'
  BY <1>1, <1>2, ClientInformed, PlacedStep
<1>3. CASE DeviceRuns
  <2>1. UNCHANGED <<cap, pc, call>> /\ queue' = Tail(queue) /\ queue # <<>> /\ Sequence(queue)
    BY <1>3 DEF DeviceRuns, IInv, Shaped
  <2>2. \A k \in DOMAIN queue' : \E j \in DOMAIN queue : queue'[k] = queue[j]
    BY <2>1, TailIs
  <2>. QED
    BY <2>1, <2>2 DEF Placed
<1>4. CASE UNCHANGED vars
  BY <1>4 DEF vars, slots, memory, Placed
<1>. QED
  BY <1>2, <1>3, <1>4 DEF Next

LEMMA PlacedStarts == Init => Placed
  BY EmptyIs DEF Init, Placed

-----------------------------------------------------------------------------
(***************************************************************************)
(* Foretold.  Whatever is due is foretold, and a recording will leave in   *)
(* its outputs what it is recorded to, and nothing anywhere else.          *)
(***************************************************************************)
Foretelling(F, q, stag, con) ==
  /\ F[0] = Wide(con)
  /\ \A k \in DOMAIN q :
       IF q[k].fetch THEN F[k] = F[k - 1]
                     ELSE Plays(stag[q[k].slot], F[k - 1], q[k].work, F[k])
Promised(F, c) == \A h, v, S : Due(c, h, v, S) => Shows(F, queue, h, v, S)

Leaves(r, f, g) ==
  /\ \A h, v : Hands(r, h, v) => g[h] = v
  /\ \A h \in Nat : h \notin Taken(r) => g[h] = f[h]
Drafted(f, blocks, r) == \E g : Plays(blocks, f, r.work, g) /\ Leaves(r, f, g)
Drafting(f, c) == pc[c] = "record" /\ call[c].kind # "fetch" =>
  Drafted(f, staging[call[c].slot], call[c])

Foretold ==
  \E F : /\ Foretelling(F, queue, staging, content)
         /\ \A c \in Client : Promised(F, c) /\ Drafting(F[Len(queue)], c)

\* What is due is not in the recorder's hands.
LEMMA DueElsewhere ==
    ASSUME MInv, NEW c \in Client, pc[c] = "record", NEW d \in Client, NEW h, NEW v, NEW S,
           Due(d, h, v, S)
    PROVE  h \in Nat /\ h \in DOMAIN cap /\ h \notin Taken(call[c])
<1>. USE DEF MInv
<1>1. Taken(call[c]) \subseteq Has(c)
  BY DEF Taken, Has, HandOf, OutsOf
<1>2. CASE \E id \in DOMAIN resident : h = resident[id].h
  <2>1. h \in TableOf(resident)
    BY <1>2 DEF TableOf
  <2>2. Has(c) \cap TableOf(resident) = {}
    BY DEF Owners
  <2>3. TableOf(resident) \subseteq DOMAIN cap /\ DOMAIN cap \subseteq Nat
    BY HandPlaced
  <2>. QED
    BY <1>1, <2>1, <2>2, <2>3
<1>3. CASE /\ pc[d] \in {"sync", "wait sync"} /\ call[d].kind \in {"batch", "chain"}
           /\ Hands(call[d], h, v)
  <2>1. c # d /\ OutsOf(d) = call[d].outs
    BY <1>3 DEF OutsOf
  <2>2. \E i \in DOMAIN call[d].outs : h = call[d].outs[i].h
    <3>1. CASE call[d].kind = "batch"
      BY <1>3, <3>1 DEF Hands
    <3>2. CASE call[d].kind = "chain"
      <4>1. call[d].work # <<>> /\ h = call[d].outs[1].h
        BY <1>3, <3>2 DEF Hands, Nodewise
      <4>2. Sequence(call[d].outs) /\ Len(call[d].outs) = 2
        BY <3>2, <4>1 DEF Calls, FormedCall
      <4>3. DOMAIN call[d].outs = 1 .. 2
        BY <4>2, SequenceIs
      <4>. QED
        BY <4>1, <4>3
    <3>. QED
      BY <1>3, <3>1, <3>2
  <2>3. h \in Has(d)
    BY <2>1, <2>2 DEF Has, HandOf, HandlesIn
  <2>4. Has(c) \cap Has(d) = {}
    BY <2>1 DEF Owners
  <2>5. Has(d) \subseteq DOMAIN cap /\ DOMAIN cap \subseteq Nat
    BY HandPlaced
  <2>. QED
    BY <1>1, <2>3, <2>4, <2>5
<1>. QED
  BY <1>2, <1>3 DEF Due, DueOf

\* All that is shown stays shown at the end of the queue.
LEMMA ShownLast ==
    ASSUME NEW q, Sequence(q), NEW F, NEW h, NEW v, NEW S, Shows(F, q, h, v, S)
    PROVE  F[Len(q)][h] = v
<1>1. Len(q) \in Nat /\ DOMAIN q = 1 .. Len(q)
  BY SequenceIs
<1>. QED
  BY <1>1 DEF Shows

LEMMA ToldShown ==
    ASSUME MInv, NEW c \in Client, NEW F, Promised(F, c), NEW id \in Told(c) \cap DOMAIN resident
    PROVE  F[Len(queue)][resident[id].h] = meant[id]
<1>1. \E S : Owed(owned[c], pending[c], call[c], pc[c], id, S)
  <2>1. CASE id \in owned[c]
    BY <2>1 DEF Owed
  <2>2. CASE \E k \in DOMAIN pending[c] : id = pending[c][k].ids[1]
    BY <2>2 DEF Owed
  <2>3. CASE pc[c] \in {"sync", "wait sync"} /\ call[c].kind \in {"run", "wait"} /\ id = call[c].id
    BY <2>3 DEF Owed
  <2>. QED
    BY <2>1, <2>2, <2>3 DEF Told, ToldOf
<1>2. PICK S : Owed(owned[c], pending[c], call[c], pc[c], id, S)
  BY <1>1
<1>3. Due(c, resident[id].h, meant[id], S)
  BY <1>2 DEF Due, DueOf
<1>4. Shows(F, queue, resident[id].h, meant[id], S)
  BY <1>3 DEF Promised
<1>5. Sequence(queue)
  BY DEF MInv, IInv, Shaped
<1>. QED
  BY <1>4, <1>5, ShownLast

\* A node's recording reads what it was meant to.
LEMMA NodeRight ==
    ASSUME MInv, NEW c \in Client, NEW d, NEW o, NodeAs(c, d, o), NEW F, Promised(F, c),
           NEW g, Leaves(call[c], F[Len(queue)], g)
    PROVE  Right(staging'[call[c].slot], g, d)
<1>. USE DEF MInv
<1>. PICK r : r = call[c]
  OBVIOUS
<1>. PICK f : f = F[Len(queue)]
  OBVIOUS
<1>1. pc[c] = "record" /\ r.kind \in Nodewise /\ r.blocks \in Nat
  BY DEF NodeAs, Calls, FormedCall
<1>2. CASE d.up = r.blocks + 1 /\ d.want = stamp + 1 /\ staging'[r.slot][d.up] = stamp + 1
  BY <1>1, <1>2 DEF Right
<1>3. CASE d.up = 0 /\ \E id \in Told(c) \cap DOMAIN resident : d.src = resident[id].h /\ d.want = meant[id]
  <2>1. PICK id \in Told(c) \cap DOMAIN resident : d.src = resident[id].h /\ d.want = meant[id]
    BY <1>3
  <2>2. f[d.src] = d.want
    BY <2>1, ToldShown
  <2>3. d.src \in TableOf(resident)
    BY <2>1 DEF TableOf
  <2>4. d.src \in Nat /\ d.src \notin Has(c)
    <3>1. TableOf(resident) \subseteq DOMAIN cap /\ DOMAIN cap \subseteq Nat
      BY HandPlaced
    <3>2. Has(c) \cap TableOf(resident) = {}
      BY DEF Owners
    <3>. QED
      BY <2>3, <3>1, <3>2
  <2>5. Taken(r) \subseteq Has(c)
    BY <1>1 DEF Taken, Has, HandOf, OutsOf
  <2>6. g[d.src] = f[d.src]
    BY <2>4, <2>5 DEF Leaves
  <2>. QED
    BY <1>3, <2>2, <2>6 DEF Right
<1>4. CASE /\ d.up = 0 /\ 1 \in DOMAIN r.outs /\ 1 \in DOMAIN r.work
           /\ d.src = r.outs[1].h /\ d.want = r.work[1].stamp
  <2>1. Hands(r, d.src, d.want)
    BY <1>1, <1>4 DEF Hands
  <2>2. g[d.src] = d.want
    BY <2>1 DEF Leaves
  <2>. QED
    BY <1>4, <2>2 DEF Right
<1>. QED
  BY <1>2, <1>3, <1>4 DEF NodeAs

\* What a node is staged with, it is recorded to copy, and nothing before it.
LEMMA NodePlays ==
    ASSUME MInv, NEW c \in Client, NEW d, NEW o, NodeAs(c, d, o), NEW f, NEW g,
           Plays(staging[call[c].slot], f, call[c].work, g)
    PROVE  Plays(staging'[call[c].slot], f, call[c].work, g)
<1>. USE DEF MInv
<1>. PICK r : r = call[c]
  OBVIOUS
<1>. PICK old : old = staging[r.slot]
  OBVIOUS
<1>. PICK new : new = staging'[r.slot]
  OBVIOUS
<1>1. /\ pc[c] = "record" /\ r.kind \in Nodewise /\ r.blocks \in Nat /\ Sequence(r.work)
      /\ \A k \in 1 .. r.blocks : new[k] = old[k]
  BY DEF NodeAs, Calls, FormedCall
<1>2. \A i \in DOMAIN r.work : r.work[i].up \in 0 .. r.blocks
  BY <1>1 DEF Staged, Staging
<1>3. \A i \in DOMAIN r.work : r.work[i].up # 0 => new[r.work[i].up] = old[r.work[i].up]
  BY <1>1, <1>2
<1>4. Plays(new, f, r.work, g)
  BY <1>1, <1>3, PlaysSame
<1>. QED
  BY <1>4

LEMMA NodeLeaves ==
    ASSUME MInv, NEW c \in Client, NEW d, NEW o, NodeAs(c, d, o), d.dst \in Nat,
           NEW blocks, NEW f, NEW g, Leaves(call[c], f, g)
    PROVE  Leaves(call'[c], f, After(blocks, g, d))
<1>. USE DEF MInv
<1>. PICK r : r = call[c]
  OBVIOUS
<1>. PICK q : q = call'[c]
  OBVIOUS
<1>. PICK i : i = After(blocks, g, d)
  OBVIOUS
<1>1. /\ pc[c] = "record" /\ r.kind \in Nodewise /\ q.kind = r.kind
      /\ q.work = Append(r.work, d) /\ q.outs = Append(r.outs, o)
      /\ d.dst = o.h /\ d.dst \notin Lent(Memory)
      /\ HandlesIn(q.outs) = HandlesIn(r.outs) \cup {o.h}
      /\ HandlesIn(q.scratch) = HandlesIn(r.scratch) \cup {h \in {d.src} : d.up # 0}
  BY DEF NodeAs
<1>2. d.up # 0 => d.src \notin Lent(Memory)
  BY DEF NodeAs
<1>3. \A h \in Nat : i[h] = IF h = d.dst THEN d.stamp
                            ELSE IF d.up # 0 /\ h = d.src THEN blocks[d.up] ELSE g[h]
  BY DEF After
<1>4. ASSUME NEW h, NEW v, Hands(q, h, v)
      PROVE  i[h] = v
  <2>1. PICK k \in DOMAIN q.outs : h = q.outs[k].h /\ v = q.work[k].stamp
    BY <1>1, <1>4 DEF Hands, Nodewise
  <2>2. Sequence(r.work) /\ Sequence(r.outs) /\ Len(r.outs) = Len(r.work)
    BY <1>1 DEF Calls, FormedCall
  <2>3. /\ DOMAIN q.outs = DOMAIN r.outs \cup {Len(r.outs) + 1}
        /\ q.outs[Len(r.outs) + 1] = o /\ q.work[Len(r.outs) + 1] = d
        /\ \A j \in DOMAIN r.outs : q.outs[j] = r.outs[j]
        /\ \A j \in DOMAIN r.work : q.work[j] = r.work[j]
    <3>1. /\ DOMAIN q.outs = DOMAIN r.outs \cup {Len(r.outs) + 1} /\ q.outs[Len(r.outs) + 1] = o
          /\ \A j \in DOMAIN r.outs : q.outs[j] = r.outs[j]
      <4>. PICK w : w = r.outs
        OBVIOUS
      <4>1. q.outs = Append(w, o) /\ Sequence(w)
        BY <1>1, <2>2
      <4>2. DOMAIN Append(w, o) = DOMAIN w \cup {Len(w) + 1} /\ Append(w, o)[Len(w) + 1] = o
        BY <4>1, AppendIs
      <4>3. \A j \in DOMAIN w : Append(w, o)[j] = w[j]
        BY <4>1, AppendIs
      <4>. QED
        BY <4>1, <4>2, <4>3
    <3>2. /\ q.work[Len(r.work) + 1] = d
          /\ \A j \in DOMAIN r.work : q.work[j] = r.work[j]
      BY <1>1, <2>2, AppendIs
    <3>. QED
      BY <2>2, <3>1, <3>2
  <2>4. DOMAIN r.outs = DOMAIN r.work
    BY <2>2, SequenceIs
  <2>5. CASE k \in DOMAIN r.outs
    <3>1. Hands(r, h, v)
      BY <1>1, <2>1, <2>3, <2>4, <2>5 DEF Hands
    <3>2. h \in HandlesIn(r.outs)
      BY <2>1, <2>3, <2>5 DEF HandlesIn
    <3>3. HandlesIn(r.outs) \subseteq Has(c)
      BY <1>1 DEF Has, HandOf, OutsOf
    <3>4. h \in Lent(Memory) /\ h \in Nat
      BY <3>2, <3>3, HandPlaced
    <3>5. g[h] = v
      BY <3>1 DEF Leaves
    <3>. QED
      BY <1>1, <1>2, <1>3, <3>4, <3>5
  <2>6. CASE k = Len(r.outs) + 1
    <3>1. h = d.dst /\ v = d.stamp
      BY <1>1, <2>1, <2>3, <2>6
    <3>. QED
      BY <1>3, <3>1
  <2>. QED
    BY <2>1, <2>3, <2>5, <2>6
<1>5. ASSUME NEW h \in Nat, h \notin Taken(q)
      PROVE  i[h] = f[h]
  <2>1. h \notin Taken(r) /\ h # d.dst /\ ~(d.up # 0 /\ h = d.src)
    BY <1>1, <1>5 DEF Taken, Nodewise
  <2>2. g[h] = f[h]
    BY <2>1 DEF Leaves
  <2>. QED
    BY <1>3, <2>1, <2>2
<1>. QED
  BY <1>4, <1>5 DEF Leaves

LEMMA NodeDrafted ==
    ASSUME MInv, Owners', NEW c \in Client, NEW d, NEW o, NodeAs(c, d, o), NEW F, Promised(F, c),
           Drafting(F[Len(queue)], c)
    PROVE  Drafted(F[Len(queue)], staging'[call'[c].slot], call'[c])
<1>. USE DEF MInv
<1>. PICK f : f = F[Len(queue)]
  OBVIOUS
<1>. PICK r : r = call[c]
  OBVIOUS
<1>. PICK q : q = call'[c]
  OBVIOUS
<1>. PICK new : new = staging'[r.slot]
  OBVIOUS
<1>1. /\ pc[c] = "record" /\ r.kind \in Nodewise /\ r.kind # "fetch" /\ pc'[c] = "record"
      /\ q.work = Append(r.work, d) /\ q.slot = r.slot /\ Sequence(r.work)
      /\ d.dst = o.h /\ o.h \in HandlesIn(q.outs)
  BY DEF NodeAs, Nodewise, Calls, FormedCall
<1>2. PICK g : Plays(staging[r.slot], f, r.work, g) /\ Leaves(r, f, g)
  BY <1>1 DEF Drafting, Drafted
<1>3. Plays(new, f, r.work, g)
  BY <1>2, NodePlays
<1>4. Right(new, g, d)
  BY <1>2, NodeRight
<1>5. Plays(new, f, q.work, After(new, g, d))
  BY <1>1, <1>3, <1>4, PlaysMore
<1>6. d.dst \in Nat
  BY <1>1, RecorderPlaced
<1>7. Leaves(q, f, After(new, g, d))
  BY <1>2, <1>6, NodeLeaves
<1>8. Drafted(f, new, q)
  BY <1>5, <1>7 DEF Drafted
<1>. QED
  BY <1>1, <1>8

LEMMA ChainDrafted ==
    ASSUME MInv, Owners', NEW c \in Client, NEW s, NEW a, NEW b, ChainAs(c, s, a, b), NEW f
    PROVE  Drafted(f, staging'[call'[c].slot], call'[c])
<1>. USE DEF MInv
<1>. PICK r : r = call[c]
  OBVIOUS
<1>. PICK q : q = call'[c]
  OBVIOUS
<1>. PICK n : n = Len(r.nodes)
  OBVIOUS
<1>. PICK d : d = stamp
  OBVIOUS
<1>. PICK new : new = staging'[r.slot]
  OBVIOUS
<1>1. /\ pc'[c] = "record" /\ q.kind = "chain" /\ q.slot = r.slot /\ n \in Nat \ {0} /\ d \in Nat
      /\ q.work = ChainLinks(s, a, b, d, n) /\ q.outs[1] = Turn(n, a, b)
      /\ HandlesIn(q.outs) = {a.h, b.h} /\ HandlesIn(q.scratch) = {s.h} /\ new[1] = d + 1
  BY DEF ChainAs, Books
<1>2. s.h \in Nat /\ a.h \in Nat /\ b.h \in Nat
  BY <1>1, RecorderPlaced
<1>3. PICK g : /\ Plays(new, f, ChainLinks(s, a, b, d, n), g)
               /\ g[Turn(n, a, b).h] = d + n
               /\ \A h \in Nat : h \notin {s.h, a.h, b.h} => g[h] = f[h]
  <2>1. n \in Nat \ {0} /\ d \in Nat /\ new[1] = d + 1
    BY <1>1
  <2>2. Fills(new, f, ChainLinks(s, a, b, d, n), Turn(n, a, b).h, d + n, {s.h, a.h, b.h})
    BY <1>2, <2>1, ChainPlays
  <2>. QED
    BY <2>2 DEF Fills
<1>4. Last(q.work).stamp = d + n
  <2>1. n \in Nat \ {0} /\ d \in Nat
    BY <1>1
  <2>2. Last(ChainLinks(s, a, b, d, n)).stamp = d + n
    BY <2>1, LinksEnd
  <2>. QED
    BY <1>1, <2>2
<1>5. \A h, v : Hands(q, h, v) => g[h] = v
  BY <1>1, <1>3, <1>4 DEF Hands, Nodewise
<1>6. Taken(q) = {s.h, a.h, b.h}
  BY <1>1 DEF Taken
<1>7. Drafted(f, new, q)
  BY <1>1, <1>3, <1>5, <1>6 DEF Drafted, Leaves
<1>. QED
  BY <1>1, <1>7

\* A recording that goes on, or begins, leaves what it is recorded to leave.
LEMMA DraftStep ==
    ASSUME MInv, Informing, MInv', NEW c \in Client,
           \/ Begin(c) \/ BeginFetch(c) \/ BeginWait(c) \/ Release(c) \/ Relabel(c) \/ Continue(c),
           pc'[c] = "record", call'[c].kind # "fetch",
           NEW F, Promised(F, c), Drafting(F[Len(queue)], c)
    PROVE  Drafted(F[Len(queue)], staging'[call'[c].slot], call'[c])
<1>1. Owners' /\ Calls'
  BY DEF MInv
<1>2. CASE RecordNode(c)
  BY <1>1, <1>2, NodeIs, NodeDrafted
<1>3. CASE RecordChain(c)
  BY <1>1, <1>3, ChainIs, ChainDrafted
<1>4. CASE RecordFetch(c)
  BY <1>4, FetchIs DEF FetchAs
<1>5. CASE call'[c].work = <<>>
  <2>. PICK q : q = call'[c]
    OBVIOUS
  <2>. PICK f : f = F[Len(queue)]
    OBVIOUS
  <2>. PICK new : new = staging'[q.slot]
    OBVIOUS
  <2>1. /\ q.work = <<>> /\ Sequence(q.outs) /\ (q.kind \in Nodewise => Len(q.outs) = 0)
    BY <1>1, <1>5, EmptyIs DEF Calls, FormedCall
  <2>2. q.kind \in Nodewise => DOMAIN q.outs = {}
    BY <2>1, SequenceIs
  <2>3. Leaves(q, f, f)
    BY <2>1, <2>2 DEF Leaves, Hands
  <2>4. Plays(new, f, q.work, f)
    BY <2>1, PlaysNone
  <2>5. Drafted(f, new, q)
    BY <2>3, <2>4 DEF Drafted
  <2>. QED
    BY <2>5
<1>. QED
  BY <1>2, <1>3, <1>4, <1>5, RecordingFrom

\* Only who records writes staging, and that of its own slot.
LEMMA StagingWritten ==
    ASSUME MInv, Informing, NEW c \in Client,
           \/ Begin(c) \/ BeginFetch(c) \/ BeginWait(c) \/ Release(c) \/ Relabel(c) \/ Continue(c)
    PROVE  \/ staging' = staging
           \/ pc[c] = "record" /\ \A t \in Slots : t # call[c].slot => staging'[t] = staging[t]
<1>. USE DEF MInv
<1>1. CASE RecordNode(c) \/ RecordChain(c)
  <2>1. CASE RecordNode(c)
    <3>1. PICK d, o : NodeAs(c, d, o)
      BY <2>1, NodeIs
    <3>. QED
      BY <3>1 DEF NodeAs
  <2>2. CASE RecordChain(c)
    <3>1. PICK x, a, b : ChainAs(c, x, a, b)
      BY <2>2, ChainIs
    <3>. QED
      BY <3>1 DEF ChainAs
  <2>. QED
    BY <1>1, <2>1, <2>2
<1>2. CASE Begin(c) \/ Acquire(c)
  BY <1>2 DEF Begin, Acquire, Take
<1>3. CASE BeginFetch(c) \/ BeginWait(c) \/ Release(c) \/ Relabel(c)
  BY <1>3 DEF BeginFetch, BeginWait, Release, Relabel, slots
<1>4. CASE SlotFree(c) \/ TakeSync(c) \/ Synced(c) \/ ReadBack(c) \/ RecordFetch(c)
  BY <1>4 DEF SlotFree, TakeSync, Synced, ReadBack, RecordFetch, slots
<1>5. CASE SlotWaitFails(c) \/ SyncFails(c) \/ ReadFails(c)
  BY <1>5 DEF SlotWaitFails, SyncFails, ReadFails
<1>6. CASE RecordNodeFails(c) \/ RecordChainFails(c) \/ RecordFetchFails(c) \/ SubmitFails(c)
  BY <1>6 DEF RecordNodeFails, RecordChainFails, RecordFetchFails, SubmitFails
<1>7. CASE Submit(c)
  BY <1>7 DEF Submit
<1>. QED
  BY <1>1, <1>2, <1>3, <1>4, <1>5, <1>6, <1>7 DEF Continue

\* So a slot in flight keeps its staging, and one that another records into.
LEMMA StagingKept ==
    ASSUME MInv, Informing, NEW c \in Client,
           \/ Begin(c) \/ BeginFetch(c) \/ BeginWait(c) \/ Release(c) \/ Relabel(c) \/ Continue(c),
           NEW s \in Slots,
           InFlight(s) \/ \E d \in Client \ {c} : pc[d] = "record" /\ call[d].slot = s
    PROVE  staging'[s] = staging[s]
<1>. USE DEF MInv
<1>1. CASE pc[c] = "record" /\ \A t \in Slots : t # call[c].slot => staging'[t] = staging[t]
  <2>1. ~InFlight(call[c].slot) /\ \A d \in Client \ {c} : pc[d] # "record"
    BY <1>1, OneRecords
  <2>. QED
    BY <1>1, <2>1
<1>. QED
  BY <1>1, StagingWritten

LEMMA SameWide ==
    ASSUME MInv, Grown
    PROVE  Wide(content') = Wide(content)
<1>. USE DEF MInv
<1>1. /\ DOMAIN content = DOMAIN cap /\ DOMAIN content' = DOMAIN cap' /\ DOMAIN cap \subseteq DOMAIN cap'
      /\ \A h \in DOMAIN cap : content'[h] = content[h]
      /\ \A h \in DOMAIN cap' : h \notin DOMAIN cap => content'[h] = Junk
  BY GrownIs
<1>2. \A h \in Nat : (IF h \in DOMAIN content' THEN content'[h] ELSE Junk)
                       = IF h \in DOMAIN content THEN content[h] ELSE Junk
  BY <1>1
<1>3. Wide(content') = [h \in Nat |-> IF h \in DOMAIN content' THEN content'[h] ELSE Junk]
  BY DEF Wide
<1>4. Wide(content) = [h \in Nat |-> IF h \in DOMAIN content THEN content[h] ELSE Junk]
  BY DEF Wide
<1>. QED
  BY <1>2, <1>3, <1>4

\* What the queue has is foretold as before.
LEMMA ForetellingKept ==
    ASSUME MInv, Informing, NEW c \in Client,
           \/ Begin(c) \/ BeginFetch(c) \/ BeginWait(c) \/ Release(c) \/ Relabel(c) \/ Continue(c),
           NEW F, Foretelling(F, queue, staging, content)
    PROVE  Foretelling(F, queue, staging', content')
<1>. USE DEF MInv
<1>1. Wide(content') = Wide(content)
  BY ClientGrown, SameWide
<1>2. \A k \in DOMAIN queue : staging'[queue[k].slot] = staging[queue[k].slot]
  <2>1. \A k \in DOMAIN queue : queue[k].slot \in Slots /\ InFlight(queue[k].slot)
    BY DEF IInv, Shaped, InFlight
  <2>. QED
    BY <2>1, StagingKept
<1>. QED
  BY <1>1, <1>2 DEF Foretelling

LEMMA ShownOnce ==
    ASSUME NEW F, NEW h, NEW v, NEW s, ~InFlight(s), Shows(F, queue, h, v, {s})
    PROVE  Shows(F, queue, h, v, {})
  BY DEF Shows, InFlight

\* A step that submits nothing: what is due was due, and is shown as before.
LEMMA QuietForetold ==
    ASSUME MInv, Informing, MInv', NEW c \in Client, Change(c), queue' = queue,
           \/ Begin(c) \/ BeginFetch(c) \/ BeginWait(c) \/ Release(c) \/ Relabel(c) \/ Continue(c),
           ~Submit(c), Foretold
    PROVE  Foretold'
<1>1. PICK F : /\ Foretelling(F, queue, staging, content)
               /\ \A d \in Client : Promised(F, d) /\ Drafting(F[Len(queue)], d)
  BY DEF Foretold
<1>2. Foretelling(F, queue, staging', content')
  BY <1>1, ForetellingKept
<1>3. ASSUME NEW d \in Client, NEW h, NEW v, NEW S, Due(d, h, v, S)'
      PROVE  Shows(F, queue, h, v, S)
  <2>1. Due(d, h, v, S) \/ (S = {} /\ \E s : ~InFlight(s) /\ Due(d, h, v, {s}))
    BY <1>3, DueCame DEF Came
  <2>2. \A T : Due(d, h, v, T) => Shows(F, queue, h, v, T)
    BY <1>1 DEF Promised
  <2>. QED
    BY <2>1, <2>2, ShownOnce
<1>4. ASSUME NEW d \in Client, pc'[d] = "record", call'[d].kind # "fetch"
      PROVE  Drafted(F[Len(queue)], staging'[call'[d].slot], call'[d])
  <2>1. CASE d = c
    BY <1>1, <1>4, <2>1, DraftStep
  <2>2. CASE d # c
    <3>1. call'[d] = call[d] /\ pc'[d] = pc[d]
      BY <2>2 DEF Change, OthersTold, OthersKept
    <3>2. Drafted(F[Len(queue)], staging[call[d].slot], call[d])
      BY <1>1, <1>4, <3>1 DEF Drafting
    <3>3. staging'[call[d].slot] = staging[call[d].slot]
      <4>1. call[d].slot \in Slots
        BY DEF MInv, IInv, Shaped
      <4>. QED
        BY <1>4, <2>2, <3>1, <4>1, StagingKept
    <3>. QED
      BY <3>1, <3>2, <3>3
  <2>. QED
    BY <2>1, <2>2
<1>5. \A d \in Client : Promised(F, d)'
  BY <1>3 DEF Promised
<1>. QED
  BY <1>2, <1>4, <1>5 DEF Foretold, Drafting

\* One more submission, and what memory holds after it.
Further(G, F, q, e, g, stag, con) ==
  /\ Foretelling(G, Append(q, e), stag, con)
  /\ G[Len(q) + 1] = g /\ \A k \in 0 .. Len(q) : G[k] = F[k]

LEMMA ForetellingMore ==
    ASSUME NEW F, NEW q, Sequence(q), NEW stag, NEW con, Foretelling(F, q, stag, con), NEW e, NEW g,
           IF e.fetch THEN g = F[Len(q)] ELSE Plays(stag[e.slot], F[Len(q)], e.work, g)
    PROVE  \E G : Further(G, F, q, e, g, stag, con)
<1>. DEFINE n == Len(q)
            w == Append(q, e)
            G == [k \in 0 .. n + 1 |-> IF k \in 0 .. n THEN F[k] ELSE g]
<1>1. n \in Nat /\ DOMAIN q = 1 .. n
  BY SequenceIs
<1>2. DOMAIN w = 1 .. n \cup {n + 1} /\ w[n + 1] = e /\ \A k \in 1 .. n : w[k] = q[k]
  BY <1>1, AppendIs
<1>. HIDE DEF w
<1>3. G[n + 1] = g /\ \A k \in 0 .. n : G[k] = F[k]
  BY <1>1
<1>. HIDE DEF G
<1>4. G[0] = Wide(con)
  BY <1>1, <1>3 DEF Foretelling
<1>5. ASSUME NEW k \in DOMAIN w
      PROVE  IF w[k].fetch THEN G[k] = G[k - 1] ELSE Plays(stag[w[k].slot], G[k - 1], w[k].work, G[k])
  <2>1. CASE k \in 1 .. n
    <3>1. w[k] = q[k] /\ G[k] = F[k] /\ G[k - 1] = F[k - 1]
      BY <1>1, <1>2, <1>3, <2>1
    <3>. QED
      BY <1>1, <2>1, <3>1 DEF Foretelling
  <2>2. CASE k = n + 1
    <3>1. w[k] = e /\ G[k] = g /\ G[k - 1] = F[n]
      BY <1>1, <1>2, <1>3, <2>2
    <3>. QED
      BY <3>1
  <2>. QED
    BY <1>2, <2>1, <2>2
<1>6. Foretelling(G, w, stag, con)
  BY <1>4, <1>5 DEF Foretelling
<1>. QED
  BY <1>3, <1>6 DEF w, Further

\* What was shown at the end of the queue and is not touched is shown on.
LEMMA ShownMore ==
    ASSUME NEW F, NEW q, Sequence(q), NEW e, NEW G, \A k \in 0 .. Len(q) : G[k] = F[k],
           NEW h, NEW v, NEW S, Shows(F, q, h, v, S), G[Len(q) + 1][h] = F[Len(q)][h]
    PROVE  Shows(G, Append(q, e), h, v, S)
<1>. DEFINE n == Len(q)
            w == Append(q, e)
<1>1. n \in Nat /\ DOMAIN q = 1 .. n
  BY SequenceIs
<1>2. Sequence(w) /\ DOMAIN w = 1 .. n \cup {n + 1} /\ \A k \in 1 .. n : w[k] = q[k]
  BY <1>1, AppendIs
<1>. HIDE DEF w
<1>3. Len(w) = n + 1
  <2>1. Len(w) \in Nat /\ DOMAIN w = 1 .. Len(w)
    BY <1>2, SequenceIs
  <2>. QED
    BY <1>1, <1>2, <2>1
<1>4. ASSUME NEW k \in 0 .. n + 1, \A j \in DOMAIN w : w[j].slot \in S => j <= k
      PROVE  G[k][h] = v
  <2>1. CASE k \in 0 .. n
    <3>1. \A j \in DOMAIN q : q[j].slot \in S => j <= k
      BY <1>1, <1>2, <1>4
    <3>. QED
      BY <2>1, <3>1 DEF Shows
  <2>2. CASE k = n + 1
    <3>1. F[n][h] = v
      BY ShownLast
    <3>. QED
      BY <2>2, <3>1
  <2>. QED
    BY <1>1, <2>1, <2>2
<1>. QED
  BY <1>3, <1>4 DEF Shows, w

LEMMA ShownAfter ==
    ASSUME NEW q, Sequence(q), NEW e, NEW G, NEW h, NEW v, G[Len(q) + 1][h] = v
    PROVE  Shows(G, Append(q, e), h, v, {e.slot})
<1>. DEFINE n == Len(q)
            w == Append(q, e)
<1>1. n \in Nat /\ DOMAIN q = 1 .. n
  BY SequenceIs
<1>2. Sequence(w) /\ DOMAIN w = 1 .. n \cup {n + 1} /\ w[n + 1] = e
  BY <1>1, AppendIs
<1>. HIDE DEF w
<1>3. Len(w) = n + 1
  <2>1. Len(w) \in Nat /\ DOMAIN w = 1 .. Len(w)
    BY <1>2, SequenceIs
  <2>. QED
    BY <1>1, <1>2, <2>1
<1>4. \A k \in 0 .. n + 1 : (\A j \in DOMAIN w : w[j].slot \in {e.slot} => j <= k) => k = n + 1
  BY <1>1, <1>2
<1>. QED
  BY <1>3, <1>4 DEF Shows, w

LEMMA SubmitForetold ==
    ASSUME MInv, Informing, NEW c \in Client, Change(c), Submit(c), Foretold
    PROVE  Foretold'
<1>. USE DEF MInv
<1>. PICK r : r = call[c]
  OBVIOUS
<1>. PICK q : q = queue
  OBVIOUS
<1>. DEFINE e == [slot |-> r.slot, fetch |-> r.kind = "fetch", work |-> r.work]
<1>1. e.slot = r.slot /\ e.work = r.work /\ (e.fetch <=> r.kind = "fetch")
  OBVIOUS
<1>2. /\ queue' = Append(q, e) /\ pc[c] = "record" /\ pc'[c] # "record"
      /\ staging' = staging /\ content' = content
  BY SubmitIs DEF SubmittedAs, memory
<1>. HIDE DEF e
<1>3. Sequence(q)
  BY DEF IInv, Shaped
<1>. PICK n : n = Len(q)
  OBVIOUS
<1>4. PICK F : /\ Foretelling(F, q, staging, content)
               /\ \A d \in Client : Promised(F, d) /\ Drafting(F[n], d)
  BY DEF Foretold
<1>5. PICK g : /\ IF e.fetch THEN g = F[n] ELSE Plays(staging[e.slot], F[n], e.work, g)
               /\ Leaves(r, F[n], g)
  <2>1. CASE r.kind = "fetch"
    <3>1. Leaves(r, F[n], F[n])
      BY <2>1 DEF Leaves, Hands, Nodewise
    <3>. QED
      BY <1>1, <2>1, <3>1
  <2>2. CASE r.kind # "fetch"
    <3>1. PICK g : Plays(staging[r.slot], F[n], r.work, g) /\ Leaves(r, F[n], g)
      BY <1>2, <1>4, <2>2 DEF Drafting, Drafted
    <3>. QED
      BY <1>1, <2>2, <3>1
  <2>. QED
    BY <2>1, <2>2
<1>6. PICK G : /\ Foretelling(G, Append(q, e), staging, content)
               /\ G[n + 1] = g /\ \A k \in 0 .. n : G[k] = F[k]
  <2>. PICK st : st = staging
    OBVIOUS
  <2>. PICK con : con = content
    OBVIOUS
  <2>1. Foretelling(F, q, st, con)
    BY <1>4
  <2>2. IF e.fetch THEN g = F[Len(q)] ELSE Plays(st[e.slot], F[Len(q)], e.work, g)
    BY <1>5
  <2>3. PICK G : Further(G, F, q, e, g, st, con)
    BY <1>3, <2>1, <2>2, ForetellingMore
  <2>. QED
    BY <2>3 DEF Further
<1>7. ASSUME NEW d \in Client, NEW h, NEW v, NEW S, Due(d, h, v, S)
      PROVE  Shows(G, Append(q, e), h, v, S)
  <2>1. h \in Nat /\ h \notin Taken(r)
    BY <1>2, <1>7, DueElsewhere
  <2>2. g[h] = F[n][h]
    BY <1>5, <2>1 DEF Leaves
  <2>3. Shows(F, q, h, v, S)
    BY <1>4, <1>7 DEF Promised
  <2>. QED
    BY <1>3, <1>6, <2>2, <2>3, ShownMore
<1>8. ASSUME NEW d \in Client, NEW h, NEW v, NEW S, Due(d, h, v, S)'
      PROVE  Shows(G, Append(q, e), h, v, S)
  <2>1. Came(c, d, h, v, S)
    BY <1>8, DueCame DEF Continue
  <2>2. CASE Due(d, h, v, S)
    BY <1>7, <2>2
  <2>3. CASE S = {} /\ \E s : ~InFlight(s) /\ Due(d, h, v, {s})
    <3>1. PICK s : ~InFlight(s) /\ Due(d, h, v, {s})
      BY <2>3
    <3>2. h \in Nat /\ h \notin Taken(r)
      BY <1>2, <3>1, DueElsewhere
    <3>3. g[h] = F[n][h]
      BY <1>5, <3>2 DEF Leaves
    <3>4. Shows(F, q, h, v, {s})
      BY <1>4, <3>1 DEF Promised
    <3>5. Shows(F, q, h, v, S)
      BY <2>3, <3>1, <3>4, ShownOnce
    <3>. QED
      BY <1>3, <1>6, <3>3, <3>5, ShownMore
  <2>4. CASE Hands(r, h, v) /\ S = {r.slot}
    <3>1. G[n + 1][h] = v
      BY <1>5, <1>6, <2>4 DEF Leaves
    <3>2. Shows(G, Append(q, e), h, v, {e.slot})
      BY <1>3, <3>1, ShownAfter
    <3>. QED
      BY <1>1, <2>4, <3>2
  <2>. QED
    BY <2>1, <2>2, <2>3, <2>4 DEF Came
<1>9. \A d \in Client : Promised(G, d)'
  BY <1>2, <1>8 DEF Promised
<1>10. \A d \in Client : pc'[d] # "record"
  <2>1. \A d \in Client \ {c} : pc[d] # "record" /\ pc'[d] = pc[d]
    BY <1>2, OneRecords DEF Change, OthersTold, OthersKept
  <2>. QED
    BY <1>2, <2>1
<1>11. Foretelling(G, queue', staging', content')
  BY <1>2, <1>6
<1>. QED
  BY <1>9, <1>10, <1>11 DEF Foretold, Drafting

\* The device makes of memory what its submission was foretold to.
LEMMA DeviceWide ==
    ASSUME MInv, Placed, DeviceRuns, NEW F, Foretelling(F, queue, staging, content)
    PROVE  Wide(content') = F[1]
<1>. USE DEF MInv
<1>. PICK s : s = Head(queue)
  OBVIOUS
<1>. PICK mem : mem = content
  OBVIOUS
<1>. PICK bl : bl = staging[s.slot]
  OBVIOUS
<1>1. queue # <<>> /\ (s.fetch => content' = mem) /\ (~s.fetch => content' = Executed(bl, mem, s.work))
  BY DEF DeviceRuns
<1>2. 1 \in DOMAIN queue /\ s = queue[1]
  BY <1>1, TailIs DEF IInv, Shaped
<1>3. F[0] = Wide(mem) /\ IF s.fetch THEN F[1] = F[0] ELSE Plays(bl, F[0], s.work, F[1])
  <2>1. 1 - 1 = 0
    OBVIOUS
  <2>. QED
    BY <1>2, <2>1 DEF Foretelling
<1>4. CASE s.fetch
  BY <1>1, <1>3, <1>4
<1>5. CASE ~s.fetch
  <2>. PICK D : D = DOMAIN cap
    OBVIOUS
  <2>. PICK V : V = 0 .. stamp
    OBVIOUS
  <2>1. stamp \in Nat /\ content \in Seq(Nat) /\ Len(content) = Len(cap) /\ cap \in Seq(Size)
    BY DEF Books, Owners, Sound, Memories, Memory
  <2>2. D \in SUBSET Nat /\ Junk \in V /\ DOMAIN mem = D
    BY <2>1 DEF Junk
  <2>3. mem \in [D -> V]
    <3>1. \A h \in D : mem[h] \in V
      BY <2>2 DEF Staged
    <3>2. mem \in [D -> Nat]
      BY <2>1, <2>2
    <3>. QED
      BY <3>1, <3>2
  <2>4. Sequence(s.work) /\ WorkFits(bl, s.work, V)
    BY <1>2, <1>5 DEF Staged
  <2>5. PlacedIn(s.work, D)
    BY <1>2, <1>5 DEF Placed
  <2>6. Plays(bl, Wide(mem), s.work, F[1])
    BY <1>3, <1>5
  <2>7. Wide(Executed(bl, mem, s.work)) = F[1]
    <3>. PICK w : w = s.work
      OBVIOUS
    <3>. PICK g : g = F[1]
      OBVIOUS
    <3>1. Sequence(w) /\ WorkFits(bl, w, V) /\ PlacedIn(w, D) /\ Plays(bl, Wide(mem), w, g)
      BY <2>4, <2>5, <2>6
    <3>2. Faithful(D, V, bl, mem, w)
      BY <2>2, <2>3, <3>1 DEF Faithful
    <3>3. Wide(Executed(bl, mem, w)) = g
      BY <3>1, <3>2, SubmissionRuns
    <3>. QED
      BY <3>3
  <2>. QED
    BY <1>1, <1>5, <2>7
<1>. QED
  BY <1>4, <1>5

\* The rest of the queue is foretold from there.
Rest(G, F, n) == \A k \in 0 .. n : G[k] = F[k + 1]

LEMMA TailOf ==
    ASSUME NEW q, Sequence(q), q # <<>>
    PROVE  /\ Len(q) \in Nat \ {0} /\ DOMAIN q = 1 .. Len(q) /\ Len(Tail(q)) = Len(q) - 1
           /\ DOMAIN Tail(q) = 1 .. Len(q) - 1 /\ Head(q) = q[1]
           /\ \A k \in 1 .. Len(q) - 1 : Tail(q)[k] = q[k + 1]
<1>. DEFINE t == Tail(q)
            n == Len(q)
<1>1. n \in Nat /\ DOMAIN q = 1 .. n
  BY SequenceIs
<1>2. /\ Sequence(t) /\ 1 \in DOMAIN q /\ Head(q) = q[1]
      /\ \A k : k \in DOMAIN t <=> k # 0 /\ k \in Nat /\ k + 1 \in DOMAIN q
      /\ \A k \in DOMAIN t : t[k] = q[k + 1]
  BY TailIs
<1>3. Len(t) \in Nat /\ DOMAIN t = 1 .. Len(t)
  BY <1>2, SequenceIs
<1>. HIDE DEF t, n
<1>4. n \in Nat \ {0}
  BY <1>1, <1>2
<1>5. \A k : k \in DOMAIN t <=> k \in 1 .. n - 1
  BY <1>1, <1>2, <1>4
<1>6. Len(t) = n - 1
  <2>. PICK m : m = Len(t)
    OBVIOUS
  <2>1. m \in Nat /\ \A k : k \in 1 .. m <=> k \in 1 .. n - 1
    BY <1>3, <1>5
  <2>2. m <= n - 1
    <3>1. CASE m = 0
      BY <1>4, <3>1
    <3>2. CASE m # 0
      <4>1. m \in 1 .. m
        BY <2>1, <3>2
      <4>2. m \in 1 .. n - 1
        BY <2>1, <4>1
      <4>. QED
        BY <1>4, <4>2
    <3>. QED
      BY <3>1, <3>2
  <2>3. n - 1 <= m
    <3>1. CASE n = 1
      BY <2>1, <3>1
    <3>2. CASE n # 1
      <4>1. n - 1 \in 1 .. n - 1
        BY <1>4, <3>2
      <4>2. n - 1 \in 1 .. m
        BY <2>1, <4>1
      <4>. QED
        BY <2>1, <1>4, <4>2
    <3>. QED
      BY <3>1, <3>2
  <2>. QED
    BY <1>4, <2>1, <2>2, <2>3
<1>. QED
  BY <1>1, <1>2, <1>3, <1>4, <1>6 DEF t, n

LEMMA ShownRest ==
    ASSUME NEW q, Sequence(q), q # <<>>, NEW F, NEW G, Rest(G, F, Len(q) - 1),
           NEW h, NEW v, NEW S, Shows(F, q, h, v, S)
    PROVE  Shows(G, Tail(q), h, v, S)
<1>. PICK t : t = Tail(q)
  OBVIOUS
<1>. PICK n : n = Len(q)
  OBVIOUS
<1>1. /\ n \in Nat \ {0} /\ DOMAIN q = 1 .. n /\ Len(t) = n - 1 /\ DOMAIN t = 1 .. n - 1
      /\ \A k \in 1 .. n - 1 : t[k] = q[k + 1]
  BY TailOf
<1>2. ASSUME NEW k \in 0 .. n - 1, \A j \in DOMAIN t : t[j].slot \in S => j <= k
      PROVE  G[k][h] = v
  <2>1. ASSUME NEW j \in DOMAIN q, q[j].slot \in S
        PROVE  j <= k + 1
    <3>1. CASE j = 1
      BY <1>1, <3>1
    <3>2. CASE j # 1
      <4>1. j - 1 \in 1 .. n - 1 /\ (j - 1) + 1 = j
        BY <1>1, <3>2
      <4>2. t[j - 1].slot \in S
        BY <1>1, <2>1, <4>1
      <4>3. j - 1 <= k
        BY <1>1, <1>2, <4>1, <4>2
      <4>. QED
        BY <1>1, <4>3
    <3>. QED
      BY <3>1, <3>2
  <2>2. k + 1 \in 0 .. n
    BY <1>1
  <2>3. F[k + 1][h] = v
    BY <2>1, <2>2 DEF Shows
  <2>. QED
    BY <2>3 DEF Rest
<1>. QED
  BY <1>1, <1>2 DEF Shows

LEMMA ForetellingRest ==
    ASSUME NEW q, Sequence(q), q # <<>>, NEW stag, NEW con, NEW F, Foretelling(F, q, stag, con),
           NEW G, Rest(G, F, Len(q) - 1), NEW new, NEW now, Wide(now) = F[1],
           \A k \in DOMAIN q : k # 1 /\ ~q[k].fetch => new[q[k].slot] = stag[q[k].slot]
    PROVE  Foretelling(G, Tail(q), new, now)
<1>. PICK t : t = Tail(q)
  OBVIOUS
<1>. PICK n : n = Len(q)
  OBVIOUS
<1>1. /\ n \in Nat \ {0} /\ DOMAIN q = 1 .. n /\ DOMAIN t = 1 .. n - 1
      /\ \A k \in 1 .. n - 1 : t[k] = q[k + 1]
  BY TailOf
<1>2. G[0] = Wide(now)
  <2>1. 0 \in 0 .. n - 1 /\ 0 + 1 = 1
    BY <1>1
  <2>2. G[0] = F[0 + 1]
    BY <2>1 DEF Rest
  <2>. QED
    BY <2>1, <2>2
<1>3. ASSUME NEW k \in DOMAIN t
      PROVE  IF t[k].fetch THEN G[k] = G[k - 1] ELSE Plays(new[t[k].slot], G[k - 1], t[k].work, G[k])
  <2>1. /\ k \in 1 .. n - 1 /\ k + 1 \in DOMAIN q /\ k + 1 # 1 /\ k \in 0 .. n - 1
        /\ k - 1 \in 0 .. n - 1 /\ (k - 1) + 1 = k /\ (k + 1) - 1 = k
    BY <1>1, <1>3
  <2>2. t[k] = q[k + 1]
    BY <1>1, <2>1
  <2>3. G[k] = F[k + 1]
    BY <2>1 DEF Rest
  <2>4. G[k - 1] = F[k]
    <3>1. G[k - 1] = F[(k - 1) + 1]
      BY <2>1 DEF Rest
    <3>. QED
      BY <2>1, <3>1
  <2>5. IF q[k + 1].fetch THEN F[k + 1] = F[k]
                          ELSE Plays(stag[q[k + 1].slot], F[k], q[k + 1].work, F[k + 1])
    <3>1. IF q[k + 1].fetch THEN F[k + 1] = F[(k + 1) - 1]
                ELSE Plays(stag[q[k + 1].slot], F[(k + 1) - 1], q[k + 1].work, F[k + 1])
      BY <2>1 DEF Foretelling
    <3>. QED
      BY <2>1, <3>1
  <2>6. ~q[k + 1].fetch => new[q[k + 1].slot] = stag[q[k + 1].slot]
    BY <2>1
  <2>. QED
    BY <2>2, <2>3, <2>4, <2>5, <2>6
<1>. QED
  BY <1>2, <1>3 DEF Foretelling

\* What the device does leaves the fence and, if it reads back, the staging of
\* its own slot changed.
LEMMA DeviceStaging ==
    ASSUME MInv, DeviceRuns
    PROVE  /\ queue # <<>> /\ queue' = Tail(queue) /\ 1 \in DOMAIN queue /\ Head(queue) = queue[1]
           /\ UNCHANGED <<ids, pc, call, pending, owned, cap>>
           /\ \A t \in Slots : t # queue[1].slot => staging'[t] = staging[t]
<1>1. Sequence(queue) /\ DOMAIN staging = Slots
  BY DEF MInv, IInv, Shaped, Staged
<1>2. queue # <<>> /\ queue' = Tail(queue)
  BY DEF DeviceRuns
<1>3. 1 \in DOMAIN queue /\ Head(queue) = queue[1]
  BY <1>1, <1>2, TailIs
<1>. QED
  BY <1>1, <1>2, <1>3 DEF DeviceRuns

LEMMA DeviceForetold ==
    ASSUME MInv, Placed, DeviceRuns, Foretold
    PROVE  Foretold'
<1>. PICK q : q = queue
  OBVIOUS
<1>. PICK st : st = staging
  OBVIOUS
<1>. PICK con : con = content
  OBVIOUS
<1>1. /\ q # <<>> /\ queue' = Tail(q) /\ 1 \in DOMAIN q
      /\ UNCHANGED <<ids, pc, call, pending, owned>>
      /\ \A t \in Slots : t # q[1].slot => staging'[t] = st[t]
  BY DeviceStaging
<1>2. /\ Sequence(q) /\ \A k \in DOMAIN q : q[k].slot \in Slots
      /\ \A j, k \in DOMAIN q : q[j].slot = q[k].slot => j = k
  BY DEF MInv, IInv, Shaped, OneInFlight
<1>. PICK n : n = Len(q)
  OBVIOUS
<1>3. n \in Nat \ {0} /\ Len(Tail(q)) = n - 1
  BY <1>1, <1>2, TailOf
<1>4. PICK F : /\ Foretelling(F, q, st, con)
               /\ \A d \in Client : Promised(F, d) /\ Drafting(F[n], d)
  BY DEF Foretold
<1>5. Wide(content') = F[1]
  BY <1>4, DeviceWide
<1>. DEFINE G == [k \in 0 .. n - 1 |-> F[k + 1]]
<1>6. Rest(G, F, n - 1) /\ G[n - 1] = F[n]
  BY <1>3 DEF Rest
<1>. HIDE DEF G
<1>7. Foretelling(G, queue', staging', content')
  <2>. PICK new : new = staging'
    OBVIOUS
  <2>. PICK now : now = content'
    OBVIOUS
  <2>1. \A k \in DOMAIN q : k # 1 /\ ~q[k].fetch => new[q[k].slot] = st[q[k].slot]
    BY <1>1, <1>2
  <2>2. Foretelling(G, Tail(q), new, now)
    BY <1>1, <1>2, <1>4, <1>5, <1>6, <2>1, ForetellingRest
  <2>. QED
    BY <1>1, <2>2
<1>8. ASSUME NEW d \in Client PROVE Promised(G, d)'
  <2>1. \A h, v, S : Due(d, h, v, S)' <=> Due(d, h, v, S)
    BY <1>1 DEF Due, ids
  <2>2. \A h, v, S : Due(d, h, v, S) => Shows(F, q, h, v, S)
    BY <1>4 DEF Promised
  <2>3. \A h, v, S : Shows(F, q, h, v, S) => Shows(G, Tail(q), h, v, S)
    BY <1>1, <1>2, <1>6, ShownRest
  <2>. QED
    BY <1>1, <2>1, <2>2, <2>3 DEF Promised
<1>9. ASSUME NEW d \in Client, pc'[d] = "record", call'[d].kind # "fetch"
      PROVE  Drafted(G[n - 1], staging'[call'[d].slot], call'[d])
  <2>1. pc[d] = "record" /\ call'[d] = call[d]
    BY <1>1, <1>9
  <2>2. Drafted(F[n], staging[call[d].slot], call[d])
    BY <1>4, <1>9, <2>1 DEF Drafting
  <2>3. call[d].slot \in Slots /\ call[d].slot # q[1].slot
    BY <1>1, <2>1 DEF MInv, IInv, Shaped, SlotsIdle, InFlight
  <2>. QED
    BY <1>1, <1>6, <2>1, <2>2, <2>3
<1>. QED
  BY <1>1, <1>3, <1>7, <1>8, <1>9 DEF Foretold, Drafting

LEMMA ForetoldStarts == Init => Foretold
<1>. SUFFICES ASSUME Init PROVE Foretold
  OBVIOUS
<1>1. queue = <<>> /\ DOMAIN resident = {} /\ \A c \in Client : pc[c] = "idle"
  BY EmptyIs DEF Init
<1>. PICK con : con = content
  OBVIOUS
<1>. DEFINE F == [k \in {0} |-> Wide(con)]
<1>2. F[0] = Wide(con)
  OBVIOUS
<1>. HIDE DEF F
<1>3. Foretelling(F, queue, staging, content)
  BY <1>1, <1>2, EmptyIs DEF Foretelling
<1>4. \A c \in Client : Promised(F, c)
  BY <1>1 DEF Promised, Due, DueOf
<1>. QED
  BY <1>1, <1>3, <1>4 DEF Foretold, Drafting

LEMMA ForetoldNext ==
    ASSUME MInv, Informing, Placed, Foretold, [Next]_vars
    PROVE  Foretold'
<1>1. MInv'
  BY MemoryKeeps
<1>2. ASSUME NEW c \in Client,
             \/ Begin(c) \/ BeginFetch(c) \/ BeginWait(c) \/ Release(c) \/ Relabel(c) \/ Continue(c)
      PROVE  Foretold'
  <2>1. Change(c)
    BY <1>2, ClientInformed DEF MInv
  <2>2. Submit(c) \/ queue' = queue
    BY <1>2, ClientQueue
  <2>3. CASE Submit(c)
    BY <2>1, <2>3, SubmitForetold
  <2>4. CASE ~Submit(c)
    BY <1>1, <1>2, <2>1, <2>2, <2>4, QuietForetold
  <2>. QED
    BY <2>3, <2>4
<1>3. CASE DeviceRuns
  BY <1>3, DeviceForetold
<1>4. CASE UNCHANGED vars
  <2>1. /\ UNCHANGED <<queue, staging, content, pc, call, pending, owned, resident, meant>>
    BY <1>4 DEF vars, slots, memory, ids
  <2>. QED
    BY <2>1 DEF Foretold, Promised, Due, Drafting
<1>. QED
  BY <1>2, <1>3, <1>4 DEF Next

\* What is due now is in memory now.
LEMMA ForetoldWritten ==
    ASSUME MInv, Foretold
    PROVE  SettledMeansWritten
<1>. SUFFICES ASSUME NEW c \in Client, NEW id \in owned[c] \cap DOMAIN resident
              PROVE  content[resident[id].h] = meant[id]
  BY DEF SettledMeansWritten
<1>1. PICK F : Foretelling(F, queue, staging, content) /\ Promised(F, c)
  BY DEF Foretold
<1>. PICK h : h = resident[id].h
  OBVIOUS
<1>2. Due(c, h, meant[id], {})
  BY DEF Due, DueOf, Owed
<1>3. Shows(F, queue, h, meant[id], {})
  BY <1>1, <1>2 DEF Promised
<1>4. Len(queue) \in Nat
  <2>1. Sequence(queue)
    BY DEF MInv, IInv, Shaped
  <2>. QED
    BY <2>1, SequenceIs
<1>5. F[0][h] = meant[id]
  BY <1>3, <1>4 DEF Shows
<1>6. h \in DOMAIN cap /\ h \in Nat
  <2>1. TableOf(resident) \subseteq DOMAIN cap /\ DOMAIN cap \subseteq Nat
    BY HandPlaced DEF MInv
  <2>2. h \in TableOf(resident)
    BY DEF TableOf
  <2>. QED
    BY <2>1, <2>2
<1>7. DOMAIN content = DOMAIN cap
  BY DEF MInv, Owners, Sound, Memories, Memory
<1>. QED
  BY <1>1, <1>5, <1>6, <1>7 DEF Foretelling, Wide

(***************************************************************************)
(* Value::settle, run and run_batch: an id that was waited for names       *)
(* memory the device has written what it was to, and nothing that is       *)
(* recycled, recorded or submitted afterwards changes it before the id is  *)
(* released.                                                               *)
(***************************************************************************)
THEOREM SettledKeeps == Spec => []SettledMeansWritten
<1>. DEFINE I == MInv /\ Informing /\ Placed /\ Foretold
<1>1. Init => I
  BY MemoryStarts, InformingStarts, PlacedStarts, ForetoldStarts
<1>2. I /\ [Next]_vars => I'
  BY MemoryKeeps, InformingNext, PlacedNext, ForetoldNext
<1>3. I => SettledMeansWritten
  BY ForetoldWritten
<1>. QED
  BY <1>1, <1>2, <1>3, PTL DEF Spec

-----------------------------------------------------------------------------
(***************************************************************************)
(* Reading back.  The submission a fetch waits for reads the buffer the    *)
(* call looked up, and when it has run, its staging holds what the id was  *)
(* issued for.                                                             *)
(***************************************************************************)
ReadOf(r, at, q, stag, mean) ==
  /\ at = "record" /\ r.kind = "fetch" /\ r.work # <<>> => r.work[1].src = r.src
  /\ at = "wait read" =>
       /\ \A k \in DOMAIN q : q[k].slot = r.slot => q[k].fetch /\ q[k].work[1].src = r.src
       /\ (\A k \in DOMAIN q : q[k].slot # r.slot) => stag[r.slot][1] = mean[r.id]
Reading == \A c \in Client : ReadOf(call[c], pc[c], queue, staging, meant)

\* Whom a call at its read-back asks for.
LEMMA ReaderAsks ==
    ASSUME MInv, Informing, NEW c \in Client, pc[c] = "wait read"
    PROVE  /\ call[c].kind = "fetch" /\ call[c].slot \in Slots /\ lock = c
           /\ call[c].id \in owned[c] /\ call[c].id \in DOMAIN resident
           /\ call[c].id \in DOMAIN meant /\ call[c].src = resident[call[c].id].h
<1>1. call[c].kind = "fetch" /\ call[c].slot \in Slots
  BY DEF MInv, Calls, FormedCall, IInv, Shaped
<1>2. lock = c
  BY DEF MInv, IInv, LockHolds, Holding
<1>. QED
  BY <1>1, <1>2 DEF Informing, Informed, Asks, MInv, Books

\* A read-back begins with the submission of its copy.
LEMMA ReadingFrom ==
    ASSUME MInv, Informing, NEW c \in Client,
           \/ Begin(c) \/ BeginFetch(c) \/ BeginWait(c) \/ Release(c) \/ Relabel(c) \/ Continue(c),
           pc'[c] = "wait read"
    PROVE  Submit(c)
<1>. USE DEF MInv
<1>1. ~(Begin(c) \/ Acquire(c))
  <2>1. \A r : Take(c, r) => pc'[c] # "wait read"
    BY DEF Take, IInv, Shaped
  <2>. QED
    BY <2>1 DEF Begin, Acquire
<1>2. ~(\/ SlotWaitFails(c) \/ SyncFails(c) \/ ReadBack(c) \/ ReadFails(c)
        \/ RecordNodeFails(c) \/ RecordChainFails(c) \/ RecordFetchFails(c) \/ SubmitFails(c)
        \/ Synced(c))
  <2>1. Return(c) => pc'[c] # "wait read"
    BY ReturnIs
  <2>. QED
    BY <2>1 DEF SlotWaitFails, SyncFails, ReadBack, ReadFails, RecordNodeFails, RecordChainFails,
         RecordFetchFails, SubmitFails, Synced, Abandon
<1>3. ~(BeginFetch(c) \/ SlotFree(c) \/ TakeSync(c) \/ BeginWait(c))
  BY DEF BeginFetch, SlotFree, TakeSync, BeginWait, IInv, Shaped
<1>4. ~(Release(c) \/ Relabel(c))
  BY DEF Release, Relabel
<1>5. ~(RecordNode(c) \/ RecordChain(c) \/ RecordFetch(c))
  BY DEF RecordNode, RecordChain, RecordFetch
<1>. QED
  BY <1>1, <1>2, <1>3, <1>4, <1>5 DEF Continue

LEMMA ReadingStep ==
    ASSUME MInv, Informing, Reading, NEW c \in Client, Change(c),
           \/ Begin(c) \/ BeginFetch(c) \/ BeginWait(c) \/ Release(c) \/ Relabel(c) \/ Continue(c)
    PROVE  Reading'
<1>. USE DEF MInv
<1>1. ASSUME NEW d \in Client, d # c
      PROVE  ReadOf(call'[d], pc'[d], queue', staging', meant')
  <2>1. call'[d] = call[d] /\ pc'[d] = pc[d] /\ ReadOf(call[d], pc[d], queue, staging, meant)
    BY <1>1 DEF Change, OthersTold, OthersKept, Reading
  <2>2. CASE pc[d] = "wait read"
    <3>1. lock = d /\ call[d].id \in DOMAIN meant
      BY <2>2, ReaderAsks
    <3>2. pc[c] # "record"
      BY <1>1, <3>1 DEF IInv, LockHolds, Holding
    <3>3. staging' = staging
      BY <3>2, StagingWritten
    <3>4. queue' = queue
      <4>1. ~Submit(c)
        BY <3>2 DEF Submit, Recorded
      <4>. QED
        BY <4>1, ClientQueue
    <3>5. meant'[call[d].id] = meant[call[d].id]
      BY <3>1 DEF Change, TableGrows
    <3>. QED
      BY <2>1, <3>3, <3>4, <3>5 DEF ReadOf
  <2>3. CASE pc[d] # "wait read"
    BY <2>1, <2>3 DEF ReadOf
  <2>. QED
    BY <2>2, <2>3
<1>2. ASSUME pc'[c] = "record"
      PROVE  ReadOf(call'[c], pc'[c], queue', staging', meant')
  <2>1. CASE RecordNode(c)
    <3>1. PICK d, o : NodeAs(c, d, o)
      BY <2>1, NodeIs
    <3>2. call'[c].kind # "fetch"
      BY <3>1 DEF NodeAs, Nodewise
    <3>. QED
      BY <1>2, <3>2 DEF ReadOf
  <2>2. CASE RecordChain(c)
    <3>1. PICK x, a, b : ChainAs(c, x, a, b)
      BY <2>2, ChainIs
    <3>2. call'[c].kind # "fetch"
      BY <3>1 DEF ChainAs
    <3>. QED
      BY <1>2, <3>2 DEF ReadOf
  <2>3. CASE RecordFetch(c)
    <3>1. call'[c].src = call[c].src /\ call'[c].work[1] = Dispatched(0, call[c].src, Junk, Junk, Junk)
      BY <2>3, FetchIs DEF FetchAs
    <3>2. call'[c].work[1].src = call'[c].src
      BY <3>1 DEF Dispatched
    <3>. QED
      BY <1>2, <3>2 DEF ReadOf
  <2>4. CASE call'[c].work = <<>>
    BY <1>2, <2>4 DEF ReadOf
  <2>. QED
    BY <1>2, <2>1, <2>2, <2>3, <2>4, RecordingFrom
<1>3. ASSUME pc'[c] = "wait read"
      PROVE  ReadOf(call'[c], pc'[c], queue', staging', meant')
  <2>1. Submit(c)
    BY <1>3, ReadingFrom
  <2>. PICK r : r = call[c]
    OBVIOUS
  <2>. PICK q : q = queue
    OBVIOUS
  <2>. PICK e : e = [slot |-> r.slot, fetch |-> r.kind = "fetch", work |-> r.work]
    OBVIOUS
  <2>2. /\ pc[c] = "record" /\ r.work # <<>> /\ queue' = Append(q, e) /\ r.kind = "fetch"
        /\ call'[c] = r
    BY <1>3, <2>1, SubmitIs DEF SubmittedAs
  <2>3. e.slot = r.slot /\ e.fetch /\ e.work[1].src = r.src
    <3>1. r.work[1].src = r.src
      BY <2>2 DEF Reading, ReadOf
    <3>. QED
      BY <2>2, <3>1
  <2>4. Sequence(q) /\ \A k \in DOMAIN q : q[k].slot # r.slot
    BY <2>2 DEF IInv, Shaped, SlotsIdle, InFlight
  <2>5. Len(q) \in Nat /\ DOMAIN q = 1 .. Len(q)
    BY <2>4, SequenceIs
  <2>. PICK w : w = Append(q, e)
    OBVIOUS
  <2>6. /\ DOMAIN w = 1 .. Len(q) \cup {Len(q) + 1} /\ w[Len(q) + 1] = e
        /\ \A k \in 1 .. Len(q) : w[k] = q[k]
    BY <2>4, <2>5, AppendIs
  <2>7. \A k \in DOMAIN w : w[k].slot = r.slot => w[k] = e
    BY <2>4, <2>5, <2>6
  <2>8. \E k \in DOMAIN w : w[k].slot = r.slot
    BY <2>3, <2>6
  <2>9. ReadOf(r, "wait read", w, staging', meant')
    BY <2>3, <2>7, <2>8 DEF ReadOf
  <2>. QED
    BY <1>3, <2>2, <2>9
<1>4. ASSUME pc'[c] \notin {"record", "wait read"}
      PROVE  ReadOf(call'[c], pc'[c], queue', staging', meant')
  BY <1>4 DEF ReadOf
<1>. QED
  BY <1>1, <1>2, <1>3, <1>4 DEF Reading

LEMMA ReadingDevice ==
    ASSUME MInv, Informing, Reading, SettledMeansWritten, DeviceRuns
    PROVE  Reading'
<1>. PICK q : q = queue
  OBVIOUS
<1>1. /\ q # <<>> /\ queue' = Tail(q) /\ 1 \in DOMAIN q /\ Head(q) = q[1]
      /\ UNCHANGED <<meant, pc, call>>
      /\ \A t \in Slots : t # q[1].slot => staging'[t] = staging[t]
  BY DeviceStaging DEF ids
<1>2. Sequence(q) /\ DOMAIN staging = Slots /\ \A k \in DOMAIN q : q[k].slot \in Slots
  BY DEF MInv, IInv, Shaped, Staged
<1>3. \A k \in DOMAIN Tail(q) : \E j \in DOMAIN q : Tail(q)[k] = q[j]
  BY <1>1, <1>2, TailIs
<1>. SUFFICES ASSUME NEW c \in Client PROVE ReadOf(call[c], pc[c], Tail(q), staging', meant)
  BY <1>1 DEF Reading
<1>. PICK r : r = call[c]
  OBVIOUS
<1>4. ReadOf(r, pc[c], q, staging, meant)
  BY DEF Reading
<1>. PICK t : t = Tail(q)
  OBVIOUS
<1>5. ASSUME pc[c] = "wait read", \A k \in DOMAIN t : t[k].slot # r.slot
      PROVE  staging'[r.slot][1] = meant[r.id]
  <2>1. r.slot \in Slots /\ r.id \in owned[c] \cap DOMAIN resident /\ r.src = resident[r.id].h
    BY <1>5, ReaderAsks
  <2>. PICK n : n = Len(q)
    OBVIOUS
  <2>2. /\ n \in Nat \ {0} /\ DOMAIN q = 1 .. n /\ DOMAIN t = 1 .. n - 1
        /\ \A k \in 1 .. n - 1 : t[k] = q[k + 1]
    BY <1>1, <1>2, TailOf
  <2>3. CASE q[1].slot = r.slot
    <3>1. q[1].fetch /\ q[1].work[1].src = r.src
      BY <1>1, <1>4, <1>5, <2>3 DEF ReadOf
    <3>2. staging'[r.slot] = <<content[r.src]>>
      <4>1. LET s == Head(queue) IN
              s.fetch => staging' = [staging EXCEPT ![s.slot] = <<content[s.work[1].src]>>]
        BY DEF DeviceRuns
      <4>2. staging' = [staging EXCEPT ![r.slot] = <<content[r.src]>>]
        BY <1>1, <2>3, <3>1, <4>1
      <4>. QED
        BY <1>2, <2>1, <4>2
    <3>3. content[r.src] = meant[r.id]
      BY <2>1 DEF SettledMeansWritten
    <3>4. <<content[r.src]>>[1] = content[r.src]
      OBVIOUS
    <3>. QED
      BY <3>2, <3>3, <3>4
  <2>4. CASE q[1].slot # r.slot
    <3>1. ASSUME NEW j \in DOMAIN q PROVE q[j].slot # r.slot
      <4>1. CASE j = 1
        BY <2>4, <4>1
      <4>2. CASE j # 1
        <5>1. j - 1 \in 1 .. n - 1 /\ (j - 1) + 1 = j
          BY <2>2, <3>1, <4>2
        <5>2. j - 1 \in DOMAIN t /\ t[j - 1] = q[j]
          BY <2>2, <5>1
        <5>. QED
          BY <1>5, <5>2
      <4>. QED
        BY <4>1, <4>2
    <3>2. staging'[r.slot] = staging[r.slot]
      BY <1>1, <2>1, <2>4
    <3>3. staging[r.slot][1] = meant[r.id]
      BY <1>4, <1>5, <3>1 DEF ReadOf
    <3>. QED
      BY <3>2, <3>3
  <2>. QED
    BY <2>3, <2>4
<1>6. \A k \in DOMAIN t : \E j \in DOMAIN q : t[k] = q[j]
  BY <1>3
<1>7. ASSUME pc[c] = "wait read", NEW k \in DOMAIN t, t[k].slot = r.slot
      PROVE  t[k].fetch /\ t[k].work[1].src = r.src
  <2>1. PICK j \in DOMAIN q : t[k] = q[j]
    BY <1>6, <1>7
  <2>2. q[j].fetch /\ q[j].work[1].src = r.src
    BY <1>4, <1>7, <2>1 DEF ReadOf
  <2>. QED
    BY <2>1, <2>2
<1>8. pc[c] = "record" /\ r.kind = "fetch" /\ r.work # <<>> => r.work[1].src = r.src
  BY <1>4 DEF ReadOf
<1>. QED
  BY <1>5, <1>7, <1>8 DEF ReadOf

LEMMA ReadingNext ==
    ASSUME MInv, Informing, Reading, SettledMeansWritten, [Next]_vars
    PROVE  Reading'
<1>1. ASSUME NEW c \in Client,
             \/ Begin(c) \/ BeginFetch(c) \/ BeginWait(c) \/ Release(c) \/ Relabel(c) \/ Continue(c)
      PROVE  Reading'
  <2>1. Change(c)
    BY <1>1, ClientInformed DEF MInv
  <2>. QED
    BY <1>1, <2>1, ReadingStep
<1>2. CASE DeviceRuns
  BY <1>2, ReadingDevice
<1>3. CASE UNCHANGED vars
  BY <1>3 DEF vars, slots, ids, Reading
<1>. QED
  BY <1>1, <1>2, <1>3 DEF Next

LEMMA ReadingStarts == Init => Reading
  BY DEF Init, Reading, ReadOf

LEMMA ReadAsWritten ==
    ASSUME MInv, Informing, Reading
    PROVE  FetchedAsWritten
<1>. SUFFICES ASSUME NEW c \in Client, pc[c] = "wait read", fence[call[c].slot]
              PROVE  staging[call[c].slot][1] = meant[call[c].id]
  BY DEF FetchedAsWritten, Fetched
<1>1. call[c].slot \in Slots
  BY ReaderAsks
<1>2. ~InFlight(call[c].slot)
  BY <1>1 DEF MInv, IInv, OneInFlight
<1>. QED
  BY <1>2 DEF Reading, ReadOf, InFlight

(***************************************************************************)
(* fetch hands to the host what the dispatch that its id was issued for    *)
(* wrote, whatever was recorded, submitted, recycled and waited for        *)
(* between the two, by this client and by the others.                      *)
(***************************************************************************)
THEOREM FetchesKeep == Spec => []FetchedAsWritten
<1>. DEFINE I == MInv /\ Informing /\ Placed /\ Foretold /\ Reading
<1>1. Init => I
  BY MemoryStarts, InformingStarts, PlacedStarts, ForetoldStarts, ReadingStarts
<1>2. I /\ [Next]_vars => I'
  BY MemoryKeeps, InformingNext, PlacedNext, ForetoldNext, ForetoldWritten, ReadingNext
<1>3. I => FetchedAsWritten
  BY ReadAsWritten
<1>. QED
  BY <1>1, <1>2, <1>3, PTL DEF Spec
=============================================================================
