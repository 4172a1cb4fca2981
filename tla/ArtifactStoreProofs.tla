------------------------ MODULE ArtifactStoreProofs ------------------------
(***************************************************************************)
(* What ArtifactStore answers.  For any import graph, any faults and any   *)
(* edits: the loads in flight form a stack without repetition on which     *)
(* everybody wants what is loading above him.  Where the imports are one   *)
(* deep, nothing is edited under an open store and what is imported can be *)
(* stored: a load answers what a cold compile of the sources would, so     *)
(* that ArtifactStore implements ColdCompile, over registries that end     *)
(* with their stores and over registries that outlive them alike; and a    *)
(* process that dies of a module that was kept dies of an old one.         *)
(***************************************************************************)
EXTENDS ArtifactStore, SequenceTheorems, TLAPS

Waiting == {"store", "publish"}

\* The part of a frame's type that the argument needs.
Framed(fr) ==
    /\ "at" \in DOMAIN fr /\ "want" \in DOMAIN fr /\ "text" \in DOMAIN fr
    /\ fr.want \subseteq File
    /\ fr.at \notin {"none", "read"} => fr.text \in Version

\* A load in flight is on the stack and not loaded, and a module is in a
\* registry that ends with its store because it is loaded or about to be stored.
Orderly(p) ==
    /\ loading[p] \in Seq(File)
    /\ packages[p] \subseteq File
    /\ DOMAIN frame[p] = File
    /\ DOMAIN reg[p] = File
    /\ \A f \in File :
          /\ Framed(frame[p][f])
          /\ frame[p][f].at # "none" =>
                /\ f \notin packages[p]
                /\ \E i \in 1 .. Len(loading[p]) : loading[p][i] = f
          /\ reg[p][f] # None =>
                p \in Shared \/ f \in packages[p] \/ frame[p][f].at \in Waiting

Typed ==
    /\ src \in [File -> Source]
    /\ DOMAIN rec = File
    /\ \A f \in File : rec[f] # None => rec[f].deps \subseteq File

IInv ==
    /\ DOMAIN frame = Process /\ DOMAIN reg = Process
    /\ DOMAIN loading = Process /\ DOMAIN packages = Process
    /\ Typed
    /\ \A p \in Process : Orderly(p)

Store(p) == <<frame[p], reg[p], loading[p], packages[p]>>

-----------------------------------------------------------------------------
(* The effects the actions are made of.                                    *)

\* The innermost load is that of a file.
LEMMA TopIsAFile ==
    ASSUME NEW p \in Process, Orderly(p), loading[p] # <<>>
    PROVE  /\ Top(p) \in File /\ Tail(loading[p]) \in Seq(File)
           /\ Len(loading[p]) \in Nat /\ Len(loading[p]) > 0
           /\ Top(p) = loading[p][1]
           /\ Len(Tail(loading[p])) = Len(loading[p]) - 1
           /\ \A i \in 1 .. Len(Tail(loading[p])) :
                 Tail(loading[p])[i] = loading[p][i + 1]
  BY DEF Orderly, Top

\* A step that leaves the store of a process alone leaves it orderly.
LEMMA OthersStayOrderly ==
    ASSUME NEW p \in Process, Orderly(p), Store(p)' = Store(p)
    PROVE  Orderly(p)'
<1>1. frame'[p] = frame[p] /\ reg'[p] = reg[p] /\ loading'[p] = loading[p]
      /\ packages'[p] = packages[p]
  BY DEF Store
<1>. QED
  BY <1>1 DEF Orderly

\* The innermost load goes on, and at most its own module is filed.
LEMMA BecomesKeeps ==
    ASSUME NEW p \in Process, IInv, NEW fr, NEW q \in Process,
           loading[p] # <<>>, Me(p).at # "none",
           Becomes(p, fr), Framed(fr), fr.at # "none",
           Me(p).at \in Waiting => fr.at \in Waiting,
           packages' = packages,
           \/ reg' = reg
           \/ /\ fr.at \in Waiting
              /\ \E m : reg' = [reg EXCEPT ![p] = [@ EXCEPT ![Top(p)] = m]]
    PROVE  Orderly(q)'
<1>. USE DEF IInv
<1>1. Orderly(p) /\ Orderly(q)
  OBVIOUS
<1>2. Top(p) \in File
  BY <1>1, TopIsAFile
<1>3. frame' = [frame EXCEPT ![p] = [frame[p] EXCEPT ![Top(p)] = fr]]
      /\ loading' = loading
  BY DEF Becomes
<1>4. CASE q # p
  <2>1. frame'[q] = frame[q] /\ reg'[q] = reg[q]
    BY <1>3, <1>4
  <2>. QED
    BY <1>1, <1>3, <2>1, OthersStayOrderly DEF Store
<1>5. CASE q = p
  <2>1. frame'[p] = [frame[p] EXCEPT ![Top(p)] = fr]
    BY <1>3
  <2>2. /\ DOMAIN frame'[p] = File /\ frame'[p][Top(p)] = fr
        /\ \A f \in File : f # Top(p) => frame'[p][f] = frame[p][f]
    BY <1>1, <1>2, <2>1 DEF Orderly
  <2>3. /\ DOMAIN reg'[p] = File
        /\ \A f \in File : f # Top(p) => reg'[p][f] = reg[p][f]
        /\ fr.at \in Waiting \/ reg'[p][Top(p)] = reg[p][Top(p)]
    <3>1. CASE reg' = reg
      BY <1>1, <3>1 DEF Orderly
    <3>2. CASE fr.at \in Waiting /\ \E m : reg' = [reg EXCEPT ![p] = [@ EXCEPT ![Top(p)] = m]]
      <4>1. PICK m : reg' = [reg EXCEPT ![p] = [reg[p] EXCEPT ![Top(p)] = m]]
        BY <3>2
      <4>2. reg'[p] = [reg[p] EXCEPT ![Top(p)] = m]
        BY <4>1
      <4>. QED
        BY <1>1, <3>2, <4>2 DEF Orderly
    <3>. QED
      BY <3>1, <3>2
  <2>4. frame[p][Top(p)].at # "none"
    BY DEF Me
  <2>5. Me(p) = frame[p][Top(p)]
    BY DEF Me
  <2>. QED
    BY <1>1, <1>2, <1>3, <1>5, <2>2, <2>3, <2>4, <2>5 DEF Orderly
<1>. QED
  BY <1>4, <1>5

\* A load begins of a file that is neither loaded nor in flight.
LEMMA PushKeeps ==
    ASSUME NEW p \in Process, IInv, NEW f \in File, NEW q \in Process,
           f \notin packages[p], frame[p][f].at = "none", Push(p, f),
           packages' = packages, reg' = reg
    PROVE  Orderly(q)'
<1>. USE DEF IInv
<1>1. Orderly(p) /\ Orderly(q)
  OBVIOUS
<1>2. /\ frame' = [frame EXCEPT ![p] = [frame[p] EXCEPT ![f] = NewFrame]]
      /\ loading' = [loading EXCEPT ![p] = <<f>> \o loading[p]]
  BY DEF Push
<1>3. CASE q # p
  BY <1>1, <1>2, <1>3, OthersStayOrderly DEF Store
<1>4. CASE q = p
  <2>1. /\ frame'[p] = [frame[p] EXCEPT ![f] = NewFrame]
        /\ loading'[p] = <<f>> \o loading[p]
    BY <1>2
  <2>2. Framed(NewFrame) /\ NewFrame.at = "read"
    BY DEF NewFrame, Framed
  <2>3. /\ loading'[p] \in Seq(File)
        /\ Len(loading'[p]) = Len(loading[p]) + 1 /\ Len(loading[p]) \in Nat
        /\ loading'[p][1] = f
        /\ \A i \in 1 .. Len(loading[p]) : loading'[p][i + 1] = loading[p][i]
    BY <1>1, <2>1 DEF Orderly
  <2>4. \A g \in File :
            (\E i \in 1 .. Len(loading[p]) : loading[p][i] = g)
              => \E i \in 1 .. Len(loading'[p]) : loading'[p][i] = g
    <3>. SUFFICES ASSUME NEW g \in File, NEW i \in 1 .. Len(loading[p]), loading[p][i] = g
                  PROVE  \E j \in 1 .. Len(loading'[p]) : loading'[p][j] = g
      OBVIOUS
    <3>1. i + 1 \in 1 .. Len(loading'[p]) /\ loading'[p][i + 1] = g
      BY <2>3
    <3>. QED
      BY <3>1
  <2>5. 1 \in 1 .. Len(loading'[p])
    BY <2>3
  <2>6. /\ DOMAIN frame'[p] = File /\ frame'[p][f] = NewFrame
        /\ \A g \in File : g # f => frame'[p][g] = frame[p][g]
    BY <1>1, <2>1 DEF Orderly
  <2>7. ASSUME NEW g \in File
        PROVE  /\ Framed(frame'[p][g])
               /\ frame'[p][g].at # "none" =>
                     /\ g \notin packages'[p]
                     /\ \E i \in 1 .. Len(loading'[p]) : loading'[p][i] = g
               /\ reg'[p][g] # None =>
                     \/ p \in Shared
                     \/ g \in packages'[p] \/ frame'[p][g].at \in Waiting
    <3>1. CASE g = f
      BY <1>1, <2>2, <2>3, <2>5, <2>6, <3>1 DEF Orderly, Waiting
    <3>2. CASE g # f
      BY <1>1, <2>4, <2>6, <3>2 DEF Orderly
    <3>. QED
      BY <3>1, <3>2
  <2>. QED
    BY <1>1, <1>4, <2>3, <2>6, <2>7 DEF Orderly
<1>. QED
  BY <1>3, <1>4

\* The innermost load leaves the stack; it is loaded now, or its module was not
\* filed, and of the other loads only the progress may change.
LEMMA PopKeeps ==
    ASSUME NEW p \in Process, IInv, NEW q \in Process,
           loading[p] # <<>>, Me(p).at # "none",
           loading' = [loading EXCEPT ![p] = Tail(@)],
           \A r \in Process : r # p => frame'[r] = frame[r] /\ reg'[r] = reg[r],
           DOMAIN frame'[p] = File, DOMAIN reg'[p] = File,
           frame'[p][Top(p)] = NoFrame,
           \A f \in File : f # Top(p) =>
               /\ Framed(frame'[p][f]) /\ reg'[p][f] = reg[p][f]
               /\ frame[p][f].at = "none" => frame'[p][f].at = "none"
               /\ frame[p][f].at \in Waiting => frame'[p][f].at \in Waiting,
           \/ packages' = [packages EXCEPT ![p] = @ \cup {Top(p)}]
           \/ packages' = packages /\ reg' = reg /\ Me(p).at \notin Waiting
    PROVE  Orderly(q)'
<1>. USE DEF IInv
<1>1. Orderly(p) /\ Orderly(q)
  OBVIOUS
<1>2. CASE q # p
  BY <1>1, <1>2, OthersStayOrderly DEF Store
<1>3. CASE q = p
  <2>1. /\ Top(p) \in File /\ Tail(loading[p]) \in Seq(File)
        /\ loading'[p] = Tail(loading[p])
        /\ Len(loading[p]) \in Nat /\ Len(loading'[p]) = Len(loading[p]) - 1
        /\ Top(p) = loading[p][1]
        /\ \A i \in 1 .. Len(loading'[p]) : loading'[p][i] = loading[p][i + 1]
    BY <1>1, TopIsAFile
  <2>2. \A f \in File : f # Top(p) /\ (\E i \in 1 .. Len(loading[p]) : loading[p][i] = f)
            => \E i \in 1 .. Len(loading'[p]) : loading'[p][i] = f
    <3>. SUFFICES ASSUME NEW f \in File, f # Top(p),
                         NEW i \in 1 .. Len(loading[p]), loading[p][i] = f
                  PROVE  \E j \in 1 .. Len(loading'[p]) : loading'[p][j] = f
      OBVIOUS
    <3>1. i # 1
      BY <2>1
    <3>2. i - 1 \in 1 .. Len(loading'[p]) /\ loading'[p][i - 1] = f
      BY <2>1, <3>1
    <3>. QED
      BY <3>2
  <2>3. Framed(NoFrame) /\ NoFrame.at = "none"
    BY DEF NoFrame, Framed
  <2>4. /\ packages'[p] \subseteq packages[p] \cup {Top(p)}
        /\ packages[p] \subseteq packages'[p]
        /\ reg'[p][Top(p)] # None => p \in Shared \/ Top(p) \in packages'[p]
    <3>1. CASE packages' = [packages EXCEPT ![p] = @ \cup {Top(p)}]
      <4>1. packages'[p] = packages[p] \cup {Top(p)}
        BY <3>1
      <4>. QED
        BY <4>1
    <3>2. CASE packages' = packages /\ reg' = reg /\ Me(p).at \notin Waiting
      <4>1. frame[p][Top(p)].at \notin Waiting
        BY <3>2 DEF Me
      <4>2. reg[p][Top(p)] # None => p \in Shared \/ Top(p) \in packages[p]
        BY <1>1, <2>1, <4>1 DEF Orderly
      <4>. QED
        BY <3>2, <4>2
    <3>. QED
      BY <3>1, <3>2
  <2>5. ASSUME NEW f \in File
        PROVE  /\ Framed(frame'[p][f])
               /\ frame'[p][f].at # "none" =>
                     /\ f \notin packages'[p]
                     /\ \E i \in 1 .. Len(loading'[p]) : loading'[p][i] = f
               /\ reg'[p][f] # None =>
                     \/ p \in Shared
                     \/ f \in packages'[p] \/ frame'[p][f].at \in Waiting
    <3>1. CASE f = Top(p)
      BY <2>3, <2>4, <3>1
    <3>2. CASE f # Top(p)
      <4>1. /\ Framed(frame'[p][f]) /\ reg'[p][f] = reg[p][f]
            /\ frame[p][f].at = "none" => frame'[p][f].at = "none"
            /\ frame[p][f].at \in Waiting => frame'[p][f].at \in Waiting
        BY <3>2
      <4>2. /\ frame[p][f].at # "none" => f \notin packages[p]
            /\ frame[p][f].at # "none" => \E i \in 1 .. Len(loading[p]) : loading[p][i] = f
            /\ reg[p][f] # None =>
                  p \in Shared \/ f \in packages[p] \/ frame[p][f].at \in Waiting
        BY <1>1 DEF Orderly
      <4>3. f \in packages'[p] <=> f \in packages[p]
        BY <2>4, <3>2
      <4>. QED
        BY <2>2, <3>2, <4>1, <4>2, <4>3
    <3>. QED
      BY <3>1, <3>2
  <2>. QED
    BY <1>1, <1>3, <2>1, <2>4, <2>5 DEF Orderly
<1>. QED
  BY <1>2, <1>3

\* A store without loads and packages is orderly, if its registry ended with it.
LEMMA EmptyIsOrderly ==
    ASSUME NEW p \in Process,
           loading'[p] = <<>>, frame'[p] = NoFrames, packages'[p] = {},
           reg'[p] = Nothing \/ (p \in Shared /\ DOMAIN reg'[p] = File)
    PROVE  Orderly(p)'
  BY DEF Orderly, NoFrames, NoFrame, Nothing, Framed

-----------------------------------------------------------------------------
(* The actions.                                                            *)

\* A load that succeeds, with a module that is registered now.
LEMMA DoneKeeps ==
    ASSUME NEW p \in Process, IInv, NEW q \in Process,
           loading[p] # <<>>, Me(p).at # "none", Done(p),
           \/ reg' = reg
           \/ \E m : reg' = [reg EXCEPT ![p] = [@ EXCEPT ![Top(p)] = m]]
    PROVE  Orderly(q)'
<1>. USE DEF IInv
<1>1. Orderly(p) /\ Top(p) \in File
  BY TopIsAFile
<1>2. /\ packages' = [packages EXCEPT ![p] = @ \cup {Top(p)}]
      /\ loading' = [loading EXCEPT ![p] = Tail(@)]
      /\ frame' = [frame EXCEPT ![p] = [frame[p] EXCEPT ![Top(p)] = NoFrame]]
  BY DEF Done
<1>3. frame'[p] = [frame[p] EXCEPT ![Top(p)] = NoFrame]
  BY <1>2
<1>4. /\ DOMAIN frame'[p] = File /\ frame'[p][Top(p)] = NoFrame
      /\ \A f \in File : f # Top(p) => frame'[p][f] = frame[p][f]
      /\ \A r \in Process : r # p => frame'[r] = frame[r]
  BY <1>1, <1>2, <1>3 DEF Orderly
<1>5. /\ DOMAIN reg'[p] = File
      /\ \A f \in File : f # Top(p) => reg'[p][f] = reg[p][f]
      /\ \A r \in Process : r # p => reg'[r] = reg[r]
  <2>1. CASE reg' = reg
    BY <1>1, <2>1 DEF Orderly
  <2>2. CASE \E m : reg' = [reg EXCEPT ![p] = [@ EXCEPT ![Top(p)] = m]]
    <3>1. PICK m : reg' = [reg EXCEPT ![p] = [reg[p] EXCEPT ![Top(p)] = m]]
      BY <2>2
    <3>2. reg'[p] = [reg[p] EXCEPT ![Top(p)] = m]
      BY <3>1
    <3>. QED
      BY <1>1, <3>1, <3>2 DEF Orderly
  <2>. QED
    BY <2>1, <2>2
<1>6. \A f \in File : f # Top(p) => Framed(frame'[p][f])
  BY <1>1, <1>4 DEF Orderly
<1>. QED
  BY <1>2, <1>4, <1>5, <1>6, PopKeeps

\* Only a registry that outlived a store has a module under the key of a load
\* that is reusing.
LEMMA OnlySharedKeeps ==
    ASSUME NEW p \in Process, IInv, ReuseRegistered(p) \/ KeyPanic(p)
    PROVE  p \in Shared
<1>1. Orderly(p) /\ loading[p] # <<>> /\ Me(p).at = "deps" /\ reg[p][Top(p)] # None
  BY DEF IInv, KeyPanic, ReuseRegistered, Reusing, At
<1>2. Top(p) \in File
  BY <1>1, TopIsAFile
<1>. QED
  BY <1>1, <1>2 DEF Orderly, Me, Waiting

LEMMA FailKeeps ==
    ASSUME NEW p \in Process, IInv, NEW q \in Process, Fail(p)
    PROVE  Orderly(q)'
<1>. USE DEF IInv
<1>1. /\ loading[p] # <<>> /\ Me(p).at \in {"failed", "imports"}
      /\ packages' = packages /\ reg' = reg
      /\ loading' = [loading EXCEPT ![p] = Tail(@)]
  BY DEF Fail, At
<1>2. Orderly(p) /\ Top(p) \in File
  BY <1>1, TopIsAFile
<1>3. /\ \A r \in Process : r # p => frame'[r] = frame[r]
      /\ DOMAIN frame'[p] = File
      /\ frame'[p][Top(p)] = NoFrame
      /\ \A g \in File : g # Top(p) =>
            frame'[p][g] = frame[p][g] \/ frame'[p][g] = Told(frame[p][g], Top(p))
  BY <1>2 DEF Fail
<1>4. ASSUME NEW fr, Framed(fr)
      PROVE  /\ Framed(Told(fr, Top(p)))
             /\ fr.at = "none" => Told(fr, Top(p)).at = "none"
             /\ fr.at \in Waiting => Told(fr, Top(p)).at \in Waiting
  BY <1>2, <1>4 DEF Told, Waiting, Framed
<1>5. \A f \in File : f # Top(p) =>
         /\ Framed(frame'[p][f])
         /\ frame[p][f].at = "none" => frame'[p][f].at = "none"
         /\ frame[p][f].at \in Waiting => frame'[p][f].at \in Waiting
  BY <1>2, <1>3, <1>4 DEF Orderly
<1>6. DOMAIN reg'[p] = File /\ Me(p).at # "none" /\ Me(p).at \notin Waiting
  BY <1>1, <1>2 DEF Orderly, Waiting
<1>. QED
  BY <1>1, <1>3, <1>5, <1>6, PopKeeps

\* Every action on the store of one process keeps all the stores orderly.
LEMMA LoadKeeps ==
    ASSUME NEW p \in Process, IInv, NEW q \in Process,
           \/ Step(p) \/ StoreFails(p) \/ \E f \in File : Begin(p, f)
    PROVE  Orderly(q)'
<1>. USE DEF IInv
<1>1. Orderly(p) /\ Orderly(q)
  OBVIOUS
<1>2. \A f \in File : Framed(frame[p][f])
  BY <1>1 DEF Orderly
<1>3. ASSUME loading[p] # <<>> PROVE Framed(Me(p))
  BY <1>1, <1>2, <1>3, TopIsAFile DEF Me
<1>a. ASSUME loading[p] # <<>> PROVE Top(p) \in File
  BY <1>1, <1>a, TopIsAFile
<1>b. ASSUME loading[p] # <<>>, Me(p).at \in {"verify", "deps"}
      PROVE  Imports[Top(p), Me(p).text] \subseteq File
  <2>1. Top(p) \in File /\ Me(p).text \in Version
    BY <1>3, <1>a, <1>b DEF Framed
  <2>. QED
    BY <2>1, StoreAssumption
<1>4. ASSUME NEW f \in File, Begin(p, f)
      PROVE  Orderly(q)'
  <2>1. /\ loading[p] = <<>> /\ f \notin packages[p] /\ Push(p, f)
        /\ packages' = packages /\ reg' = reg
    BY <1>4 DEF Begin
  <2>2. frame[p][f].at = "none"
    BY <1>1, <2>1 DEF Orderly
  <2>. QED
    BY <1>1, <2>1, <2>2, PushKeeps
<1>5. ASSUME ReadSource(p)
      PROVE  Orderly(q)'
  <2>. DEFINE fr == [Me(p) EXCEPT !.at = "verify", !.text = src[Top(p)].text]
  <2>1. /\ loading[p] # <<>> /\ Me(p).at = "read" /\ Becomes(p, fr)
        /\ packages' = packages /\ reg' = reg
    BY <1>5 DEF ReadSource, At
  <2>2. src[Top(p)].text \in Version
    BY <1>a, <2>1 DEF Typed, Source
  <2>3. Framed(fr) /\ fr.at = "verify"
    BY <1>3, <2>1, <2>2 DEF Framed
  <2>. HIDE DEF fr
  <2>. QED
    BY <1>1, <2>1, <2>3, BecomesKeeps DEF Waiting
<1>6. ASSUME Verify(p)
      PROVE  Orderly(q)'
  <2>. DEFINE fr == [Me(p) EXCEPT !.at = "imports", !.want = Imports[Top(p), Me(p).text]]
              gr == [Me(p) EXCEPT !.at = "deps", !.want = rec[Top(p)].deps,
                                  !.id = Fold(Me(p).text, None, rec[Top(p)].deps)]
  <2>1. /\ loading[p] # <<>> /\ Me(p).at = "verify"
        /\ packages' = packages /\ reg' = reg
        /\ \/ Becomes(p, fr)
           \/ Becomes(p, gr) /\ rec[Top(p)] # None
    BY <1>6 DEF Verify, At, Compiles, Reuses, UpToDate, Matches
  <2>2. Framed(fr) /\ fr.at = "imports"
    BY <1>3, <1>b, <2>1 DEF Framed
  <2>3. CASE Becomes(p, fr)
    <3>. HIDE DEF fr
    <3>. QED
      BY <1>1, <2>1, <2>2, <2>3, BecomesKeeps DEF Waiting
  <2>4. CASE Becomes(p, gr) /\ rec[Top(p)] # None
    <3>1. rec[Top(p)].deps \subseteq File
      BY <1>a, <2>1, <2>4 DEF Typed
    <3>2. Framed(gr) /\ gr.at = "deps"
      BY <1>3, <2>1, <3>1 DEF Framed
    <3>. HIDE DEF gr
    <3>. QED
      BY <1>1, <2>1, <2>4, <3>2, BecomesKeeps DEF Waiting
  <2>. QED
    BY <2>1, <2>3, <2>4
<1>7. ASSUME LoadNext(p)
      PROVE  Orderly(q)'
  <2>1. /\ loading[p] # <<>> /\ Me(p).at \in {"deps", "imports"}
        /\ packages' = packages /\ reg' = reg
    BY <1>7 DEF LoadNext, At
  <2>2. PICK g \in Me(p).want \ (packages[p] \cup Me(p).failed) :
           IF frame[p][g].at # "none" THEN Becomes(p, Told(Me(p), g)) ELSE Push(p, g)
    BY <1>7 DEF LoadNext
  <2>3. CASE frame[p][g].at # "none"
    <3>1. Framed(Told(Me(p), g)) /\ Told(Me(p), g).at \in {"failed", "imports"}
      BY <1>3, <2>1 DEF Told, Framed
    <3>. QED
      BY <1>1, <2>1, <2>2, <2>3, <3>1, BecomesKeeps DEF Waiting
  <2>4. CASE frame[p][g].at = "none"
    <3>1. g \in File
      BY <1>3, <2>1 DEF Framed
    <3>. QED
      BY <1>1, <2>1, <2>2, <2>4, <3>1, PushKeeps
  <2>. QED
    BY <2>3, <2>4
<1>8. ASSUME Fail(p)
      PROVE  Orderly(q)'
  BY <1>1, <1>8, FailKeeps DEF Fail
<1>9. ASSUME ReuseRegistered(p)
      PROVE  Orderly(q)'
  BY <1>1, <1>9, DoneKeeps DEF ReuseRegistered, Reusing, At
<1>10. ASSUME KeyPanic(p)
      PROVE  Orderly(q)'
  <2>1. /\ reg' = reg /\ packages' = [packages EXCEPT ![p] = {}]
        /\ loading' = [loading EXCEPT ![p] = <<>>]
        /\ frame' = [frame EXCEPT ![p] = NoFrames]
    BY <1>10 DEF KeyPanic
  <2>2. CASE q = p
    BY <1>1, <1>10, <2>1, <2>2, OnlySharedKeeps, EmptyIsOrderly DEF Orderly
  <2>3. CASE q # p
    BY <1>1, <2>1, <2>3, OthersStayOrderly DEF Store
  <2>. QED
    BY <2>2, <2>3
<1>11. ASSUME LoadArtifact(p)
      PROVE  Orderly(q)'
  <2>1. /\ loading[p] # <<>> /\ Me(p).at = "deps" /\ Done(p)
        /\ reg' = [reg EXCEPT ![p] = [@ EXCEPT ![Top(p)] = art[Top(p)]]]
    BY <1>11 DEF LoadArtifact, Reusing, At
  <2>. QED
    BY <1>1, <2>1, DoneKeeps
<1>12. ASSUME RejectArtifact(p)
      PROVE  Orderly(q)'
  <2>. DEFINE fr == [Me(p) EXCEPT !.at = "imports", !.want = Imports[Top(p), Me(p).text]]
  <2>1. /\ loading[p] # <<>> /\ Me(p).at = "deps" /\ Becomes(p, fr)
        /\ packages' = packages /\ reg' = reg
    BY <1>12 DEF RejectArtifact, Reusing, At, Compiles
  <2>2. Framed(fr) /\ fr.at = "imports"
    BY <1>3, <1>b, <2>1 DEF Framed
  <2>. HIDE DEF fr
  <2>. QED
    BY <1>1, <2>1, <2>2, BecomesKeeps DEF Waiting
<1>13. ASSUME CompileFails(p)
      PROVE  Orderly(q)'
  <2>. DEFINE fr == [Me(p) EXCEPT !.at = "failed"]
  <2>1. /\ loading[p] # <<>> /\ Me(p).at = "imports" /\ Becomes(p, fr)
        /\ packages' = packages /\ reg' = reg
    BY <1>13 DEF CompileFails, Buildable, At
  <2>2. Framed(fr) /\ fr.at = "failed"
    BY <1>3, <2>1 DEF Framed
  <2>. HIDE DEF fr
  <2>. QED
    BY <1>1, <2>1, <2>2, BecomesKeeps DEF Waiting
<1>14. ASSUME Compile(p)
      PROVE  Orderly(q)'
  <2>. DEFINE fr == [Me(p) EXCEPT !.at = "store"]
  <2>1. /\ loading[p] # <<>> /\ Me(p).at = "imports" /\ Becomes(p, fr)
        /\ packages' = packages
        /\ reg' = [reg EXCEPT ![p] = [@ EXCEPT ![Top(p)] = Frozen(p)]]
    BY <1>14 DEF Compile, Buildable, At
  <2>2. Framed(fr) /\ fr.at = "store"
    BY <1>3, <2>1 DEF Framed
  <2>3. \E m : reg' = [reg EXCEPT ![p] = [@ EXCEPT ![Top(p)] = m]]
    BY <2>1
  <2>4. fr.at \in Waiting /\ fr.at # "none" /\ Me(p).at # "none"
    BY <2>1, <2>2 DEF Waiting
  <2>. HIDE DEF fr
  <2>. QED
    BY <1>1, <2>1, <2>2, <2>3, <2>4, BecomesKeeps
<1>15. ASSUME SkipStore(p)
      PROVE  Orderly(q)'
  BY <1>1, <1>15, DoneKeeps DEF SkipStore, At
<1>16. ASSUME StoreArtifact(p)
      PROVE  Orderly(q)'
  <2>. DEFINE fr == [Me(p) EXCEPT !.at = "publish"]
  <2>1. /\ loading[p] # <<>> /\ Me(p).at = "store" /\ Becomes(p, fr)
        /\ packages' = packages /\ reg' = reg
    BY <1>16 DEF StoreArtifact, At
  <2>2. Framed(fr) /\ fr.at = "publish"
    BY <1>3, <2>1 DEF Framed
  <2>. HIDE DEF fr
  <2>. QED
    BY <1>1, <2>1, <2>2, BecomesKeeps DEF Waiting
<1>17. ASSUME StoreFails(p)
      PROVE  Orderly(q)'
  <2>. DEFINE fr == [Me(p) EXCEPT !.at = "publish"]
  <2>1. /\ loading[p] # <<>> /\ Me(p).at = "store" /\ Becomes(p, fr)
        /\ packages' = packages /\ reg' = reg
    BY <1>17 DEF StoreFails, At
  <2>2. Framed(fr) /\ fr.at = "publish"
    BY <1>3, <2>1 DEF Framed
  <2>. HIDE DEF fr
  <2>. QED
    BY <1>1, <2>1, <2>2, BecomesKeeps DEF Waiting
<1>18. ASSUME Publish(p)
      PROVE  Orderly(q)'
  BY <1>1, <1>18, DoneKeeps DEF Publish, At
<1>. QED
  BY <1>4, <1>5, <1>6, <1>7, <1>8, <1>9, <1>10, <1>11, <1>12,
     <1>13, <1>14, <1>15, <1>16, <1>17, <1>18 DEF Step

\* The sources are texts of this model, and the records name files.
LEMMA TypedKeeps ==
    ASSUME IInv, [Next]_vars
    PROVE  Typed'
<1>. USE DEF IInv
<1>1. ASSUME NEW p \in Process, Publish(p)
      PROVE  Typed'
  <2>1. /\ src' = src /\ loading[p] # <<>> /\ Orderly(p)
        /\ rec' = [rec EXCEPT ![Top(p)] = Record(p)]
    BY <1>1 DEF Publish, At
  <2>2. Top(p) \in File
    BY <2>1, TopIsAFile
  <2>3. Record(p).deps \subseteq File
    BY <2>1, <2>2 DEF Record, Orderly, Framed, Me
  <2>. HIDE DEF IInv
  <2>. QED
    BY <2>1, <2>2, <2>3 DEF Typed, IInv
<1>2. ASSUME NEW f \in File, Edit(f)
      PROVE  Typed'
  <2>1. /\ rec' = rec
        /\ \E v \in Version :
              \/ src' = [src EXCEPT ![f] = [@ EXCEPT !.text = v]]
              \/ src' = [src EXCEPT ![f] = [@ EXCEPT !.lib = v]]
    BY <1>2 DEF Edit
  <2>2. PICK v \in Version :
           \/ src' = [src EXCEPT ![f] = [src[f] EXCEPT !.text = v]]
           \/ src' = [src EXCEPT ![f] = [src[f] EXCEPT !.lib = v]]
    BY <2>1
  <2>3. [src[f] EXCEPT !.text = v] \in Source /\ [src[f] EXCEPT !.lib = v] \in Source
    BY DEF Typed, Source
  <2>. QED
    BY <2>1, <2>2, <2>3 DEF Typed
<1>3. CASE UNCHANGED <<src, rec>>
  BY <1>3 DEF Typed
<1>. QED
  BY <1>1, <1>2, <1>3 DEF Next, vars, Step, Begin, ReadSource, Verify, LoadNext, Fail,
     ReuseRegistered, KeyPanic, LoadArtifact, RejectArtifact, CompileFails, Compile,
     SkipStore, StoreArtifact, StoreFails, CloseStore, Crash

\* Every step, by whomever, keeps the invariant.
LEMMA IInvStep ==
    ASSUME IInv, [Next]_vars
    PROVE  IInv'
<1>0. Typed'
  BY TypedKeeps
<1>1. /\ DOMAIN frame' = Process /\ DOMAIN reg' = Process
      /\ DOMAIN loading' = Process /\ DOMAIN packages' = Process
  BY DEF IInv, Next, vars, Step, Begin, ReadSource, Verify, Compiles, Reuses, LoadNext,
         Fail, ReuseRegistered, KeyPanic, LoadArtifact, RejectArtifact, CompileFails,
         Compile, SkipStore, StoreArtifact, StoreFails, Publish, CloseStore, Crash, Edit,
         Push, Becomes, Done
<1>2. ASSUME NEW p \in Process,
             \/ Step(p) \/ StoreFails(p) \/ \E f \in File : Begin(p, f)
      PROVE  IInv'
  BY <1>0, <1>1, <1>2, LoadKeeps DEF IInv
<1>3. ASSUME NEW p \in Process, CloseStore(p)
      PROVE  IInv'
  <2>1. /\ loading' = loading /\ frame' = frame
        /\ loading[p] = <<>> /\ Orderly(p)
        /\ packages' = [packages EXCEPT ![p] = {}]
        /\ \/ p \in Shared /\ reg' = reg
           \/ reg' = [reg EXCEPT ![p] = Nothing]
    BY <1>3 DEF CloseStore, IInv
  <2>2. packages'[p] = {} /\ (reg'[p] = Nothing \/ (p \in Shared /\ reg'[p] = reg[p]))
    BY <2>1 DEF IInv
  <2>3. Orderly(p)'
    BY <2>1, <2>2 DEF Orderly, Nothing, IInv
  <2>4. ASSUME NEW q \in Process, q # p PROVE Orderly(q)'
    BY <2>1, <2>4, OthersStayOrderly DEF IInv, Store
  <2>. QED
    BY <1>0, <1>1, <2>1, <2>3, <2>4 DEF IInv
<1>4. ASSUME NEW p \in Process, Crash(p)
      PROVE  IInv'
  <2>1. /\ packages' = [packages EXCEPT ![p] = {}]
        /\ reg' = [reg EXCEPT ![p] = Nothing]
        /\ loading' = [loading EXCEPT ![p] = <<>>]
        /\ frame' = [frame EXCEPT ![p] = NoFrames]
    BY <1>4 DEF Crash
  <2>2. Orderly(p)'
    BY <2>1, EmptyIsOrderly DEF IInv
  <2>3. ASSUME NEW q \in Process, q # p PROVE Orderly(q)'
    BY <2>1, <2>3, OthersStayOrderly DEF IInv, Store
  <2>. QED
    BY <1>0, <1>1, <2>1, <2>2, <2>3 DEF IInv
<1>5. ASSUME \/ \E f \in File : Edit(f)
             \/ vars' = vars
      PROVE  IInv'
  <2>1. /\ reg' = reg /\ packages' = packages /\ loading' = loading /\ frame' = frame
    BY <1>5 DEF Edit, vars
  <2>. QED
    BY <1>0, <1>1, <2>1, OthersStayOrderly DEF IInv, Store
<1>. QED
  BY <1>2, <1>3, <1>4, <1>5 DEF Next

-----------------------------------------------------------------------------
USE StoreAssumption

-----------------------------------------------------------------------------
(* The stack of loads, and the type of the state.                          *)

Places == {"none", "read", "verify", "deps", "imports", "store", "publish", "failed"}

FrameOK(fr) ==
    /\ DOMAIN fr = {"at", "text", "id", "want", "failed"}
    /\ fr.at \in Places /\ fr.text \in Version \cup {None}
    /\ fr.at \notin {"none", "read"} => fr.text \in Version
    /\ fr.id # None => Tree(fr.id)
    /\ fr.want \subseteq File /\ fr.failed \subseteq fr.want
    /\ fr.at \in {"none", "read", "verify"} => fr.want = {}
    /\ fr.at = "deps" => fr.failed = {}

OnStack(s, f) == \E i \in 1 .. Len(s) : s[i] = f

Distinct(s) == \A i, j \in 1 .. Len(s) : s[i] = s[j] => i = j

\* Every load but the innermost is there because its caller wants it.
Wanted(s, fs) == \A i \in 1 .. Len(s) - 1 : s[i] \in fs[s[i + 1]].want

StackOf(p) ==
    /\ loading[p] \in Seq(File) /\ Distinct(loading[p])
    /\ DOMAIN frame[p] = File
    /\ \A f \in File : /\ FrameOK(frame[p][f])
                       /\ frame[p][f].at # "none" <=> OnStack(loading[p], f)
    /\ Wanted(loading[p], frame[p])

StackInv ==
    /\ DOMAIN frame = Process /\ DOMAIN loading = Process
    /\ \A p \in Process : StackOf(p)

LEMMA NoFramesOK == FrameOK(NoFrame) /\ FrameOK(NewFrame)
  BY DEF FrameOK, NoFrame, NewFrame, Places

\* The innermost load is of a file and in flight.
LEMMA TopInFlight ==
    ASSUME NEW p \in Process, StackOf(p), loading[p] # <<>>
    PROVE  /\ Top(p) \in File /\ Top(p) = loading[p][1] /\ 1 \in 1 .. Len(loading[p])
           /\ Me(p) = frame[p][Top(p)] /\ FrameOK(Me(p)) /\ Me(p).at # "none"
           /\ Tail(loading[p]) \in Seq(File)
           /\ Len(loading[p]) \in Nat /\ Len(Tail(loading[p])) = Len(loading[p]) - 1
           /\ \A i \in 1 .. Len(Tail(loading[p])) : Tail(loading[p])[i] = loading[p][i + 1]
<1>1. /\ Top(p) \in File /\ Top(p) = loading[p][1] /\ 1 \in 1 .. Len(loading[p])
      /\ Tail(loading[p]) \in Seq(File)
      /\ Len(loading[p]) \in Nat /\ Len(Tail(loading[p])) = Len(loading[p]) - 1
      /\ \A i \in 1 .. Len(Tail(loading[p])) : Tail(loading[p])[i] = loading[p][i + 1]
  BY DEF StackOf, Top
<1>2. OnStack(loading[p], Top(p))
  BY <1>1 DEF OnStack
<1>. QED
  BY <1>1, <1>2 DEF StackOf, Me

LEMMA OtherStacks ==
    ASSUME NEW q \in Process, StackOf(q), loading'[q] = loading[q], frame'[q] = frame[q]
    PROVE  StackOf(q)'
  BY DEF StackOf

\* The innermost load goes on.
LEMMA BecomesStacks ==
    ASSUME StackInv, NEW p \in Process, NEW fr, loading[p] # <<>>,
           Becomes(p, fr), FrameOK(fr), fr.at # "none"
    PROVE  StackInv'
<1>. USE DEF StackInv
<1>1. /\ frame' = [frame EXCEPT ![p] = [frame[p] EXCEPT ![Top(p)] = fr]]
      /\ loading' = loading /\ StackOf(p)
  BY DEF Becomes
<1>2. /\ frame'[p] = [frame[p] EXCEPT ![Top(p)] = fr] /\ loading'[p] = loading[p]
      /\ \A q \in Process : q # p => frame'[q] = frame[q] /\ loading'[q] = loading[q]
  BY <1>1
<1>3. /\ Top(p) \in File /\ Top(p) = loading[p][1] /\ 1 \in 1 .. Len(loading[p])
      /\ Len(loading[p]) \in Nat /\ frame[p][Top(p)].at # "none"
  BY <1>1, TopInFlight
<1>4. /\ DOMAIN frame'[p] = File /\ frame'[p][Top(p)] = fr
      /\ \A f \in File : f # Top(p) => frame'[p][f] = frame[p][f]
  BY <1>1, <1>2, <1>3 DEF StackOf
<1>5. ASSUME NEW i \in 1 .. Len(loading[p]) - 1
      PROVE  loading[p][i] \in frame'[p][loading[p][i + 1]].want
  <2>1. i + 1 \in 1 .. Len(loading[p]) /\ i + 1 # 1
    BY <1>3
  <2>2. loading[p][i + 1] # Top(p) /\ loading[p][i + 1] \in File
    BY <1>1, <1>3, <2>1 DEF StackOf, Distinct
  <2>. QED
    BY <1>1, <1>4, <2>2 DEF StackOf, Wanted
<1>6. StackOf(p)'
  BY <1>1, <1>2, <1>3, <1>4, <1>5 DEF StackOf, Wanted
<1>. QED
  BY <1>1, <1>2, <1>6, OtherStacks

\* A load begins, of a file that is not in flight and that its caller wants.
LEMMA PushStacks ==
    ASSUME StackInv, NEW p \in Process, NEW f \in File, Push(p, f),
           frame[p][f].at = "none", loading[p] # <<>> => f \in Me(p).want
    PROVE  StackInv'
<1>. USE DEF StackInv
<1>1. /\ frame' = [frame EXCEPT ![p] = [frame[p] EXCEPT ![f] = NewFrame]]
      /\ loading' = [loading EXCEPT ![p] = <<f>> \o loading[p]] /\ StackOf(p)
  BY DEF Push
<1>2. /\ frame'[p] = [frame[p] EXCEPT ![f] = NewFrame] /\ loading'[p] = <<f>> \o loading[p]
      /\ \A q \in Process : q # p => frame'[q] = frame[q] /\ loading'[q] = loading[q]
  BY <1>1
<1>3. /\ loading'[p] \in Seq(File)
      /\ Len(loading'[p]) = Len(loading[p]) + 1 /\ Len(loading[p]) \in Nat
      /\ loading'[p][1] = f
      /\ \A i \in 1 .. Len(loading[p]) : loading'[p][i + 1] = loading[p][i]
      /\ \A i \in 2 .. Len(loading'[p]) : loading'[p][i] = loading[p][i - 1]
  BY <1>1, <1>2 DEF StackOf
<1>4. /\ DOMAIN frame'[p] = File /\ frame'[p][f] = NewFrame
      /\ \A g \in File : g # f => frame'[p][g] = frame[p][g]
  BY <1>1, <1>2 DEF StackOf
<1>5. \A i \in 1 .. Len(loading[p]) : loading[p][i] # f /\ loading[p][i] \in File
  BY <1>1 DEF StackOf, OnStack
<1>6. Distinct(loading'[p])
  <2>. SUFFICES ASSUME NEW i \in 1 .. Len(loading'[p]), NEW j \in 1 .. Len(loading'[p]),
                       loading'[p][i] = loading'[p][j]
                PROVE  i = j
    BY DEF Distinct
  <2>1. CASE i = 1 \/ j = 1
    <3>1. ASSUME NEW k \in 2 .. Len(loading'[p]) PROVE loading'[p][k] # f
      <4>1. k - 1 \in 1 .. Len(loading[p]) /\ loading'[p][k] = loading[p][k - 1]
        BY <1>3
      <4>. QED
        BY <1>5, <4>1
    <3>2. i \in 2 .. Len(loading'[p]) \/ i = 1
      BY <1>3
    <3>3. j \in 2 .. Len(loading'[p]) \/ j = 1
      BY <1>3
    <3>. QED
      BY <1>3, <2>1, <3>1, <3>2, <3>3
  <2>2. CASE i # 1 /\ j # 1
    <3>1. i - 1 \in 1 .. Len(loading[p]) /\ j - 1 \in 1 .. Len(loading[p])
      BY <1>3, <2>2
    <3>2. loading[p][i - 1] = loading[p][j - 1]
      BY <1>3, <2>2
    <3>3. i - 1 = j - 1
      BY <1>1, <3>1, <3>2 DEF StackOf, Distinct
    <3>. QED
      BY <3>3
  <2>. QED
    BY <2>1, <2>2
<1>7. ASSUME NEW g \in File
      PROVE  OnStack(loading'[p], g) <=> g = f \/ OnStack(loading[p], g)
  <2>1. 1 \in 1 .. Len(loading'[p])
    BY <1>3
  <2>2. ASSUME NEW i \in 1 .. Len(loading[p]) PROVE i + 1 \in 1 .. Len(loading'[p])
    BY <1>3
  <2>3. ASSUME NEW i \in 1 .. Len(loading'[p]), i # 1
        PROVE  i - 1 \in 1 .. Len(loading[p]) /\ loading'[p][i] = loading[p][i - 1]
    BY <1>3, <2>3
  <2>4. ASSUME OnStack(loading'[p], g), g # f PROVE OnStack(loading[p], g)
    <3>1. PICK i \in 1 .. Len(loading'[p]) : loading'[p][i] = g
      BY <2>4 DEF OnStack
    <3>2. i # 1
      BY <1>3, <2>4, <3>1
    <3>. QED
      BY <2>3, <3>1, <3>2 DEF OnStack
  <2>5. ASSUME OnStack(loading[p], g) PROVE OnStack(loading'[p], g)
    <3>1. PICK i \in 1 .. Len(loading[p]) : loading[p][i] = g
      BY <2>5 DEF OnStack
    <3>2. i + 1 \in 1 .. Len(loading'[p]) /\ loading'[p][i + 1] = g
      BY <1>3, <2>2, <3>1
    <3>. QED
      BY <3>2 DEF OnStack
  <2>6. OnStack(loading'[p], f)
    BY <1>3, <2>1 DEF OnStack
  <2>. QED
    BY <2>4, <2>5, <2>6
<1>8. ASSUME NEW i \in 1 .. Len(loading'[p]) - 1
      PROVE  loading'[p][i] \in frame'[p][loading'[p][i + 1]].want
  <2>1. i \in 1 .. Len(loading[p]) /\ loading'[p][i + 1] = loading[p][i]
    BY <1>3
  <2>2. frame'[p][loading'[p][i + 1]] = frame[p][loading[p][i]]
    BY <1>4, <1>5, <2>1
  <2>3. CASE i = 1
    <3>1. loading[p] # <<>> /\ Me(p) = frame[p][loading[p][1]]
      BY <1>1, <2>1, <2>3, TopInFlight
    <3>. QED
      BY <1>3, <2>2, <2>3, <3>1
  <2>4. CASE i # 1
    <3>1. i - 1 \in 1 .. Len(loading[p]) - 1 /\ loading'[p][i] = loading[p][i - 1]
      BY <1>3, <2>1, <2>4
    <3>2. loading[p][i - 1] \in frame[p][loading[p][(i - 1) + 1]].want
      BY <1>1, <3>1 DEF StackOf, Wanted
    <3>3. (i - 1) + 1 = i
      BY <2>1
    <3>. QED
      BY <2>2, <3>1, <3>2, <3>3
  <2>. QED
    BY <2>3, <2>4
<1>9. FrameOK(NewFrame) /\ NewFrame.at # "none"
  BY NoFramesOK DEF NewFrame
<1>10. StackOf(p)'
  BY <1>1, <1>3, <1>4, <1>6, <1>7, <1>8, <1>9 DEF StackOf, Wanted
<1>. QED
  BY <1>1, <1>2, <1>10, OtherStacks

\* The innermost load ends; of the others at most the caller's progress changes.
LEMMA PopStacks ==
    ASSUME StackInv, NEW p \in Process, loading[p] # <<>>,
           loading' = [loading EXCEPT ![p] = Tail(@)],
           DOMAIN frame' = Process,
           \A q \in Process : q # p => frame'[q] = frame[q],
           DOMAIN frame'[p] = File, frame'[p][Top(p)] = NoFrame,
           \A f \in File : f # Top(p) =>
              /\ FrameOK(frame'[p][f])
              /\ frame'[p][f].at = "none" <=> frame[p][f].at = "none"
              /\ frame'[p][f].want = frame[p][f].want
    PROVE  StackInv'
<1>. USE DEF StackInv
<1>1. StackOf(p) /\ loading'[p] = Tail(loading[p])
  OBVIOUS
<1>2. /\ Top(p) \in File /\ Top(p) = loading[p][1] /\ 1 \in 1 .. Len(loading[p])
      /\ loading'[p] \in Seq(File)
      /\ Len(loading[p]) \in Nat /\ Len(loading'[p]) = Len(loading[p]) - 1
      /\ \A i \in 1 .. Len(loading'[p]) : loading'[p][i] = loading[p][i + 1]
  BY <1>1, TopInFlight
<1>3. Distinct(loading'[p])
  <2>. SUFFICES ASSUME NEW i \in 1 .. Len(loading'[p]), NEW j \in 1 .. Len(loading'[p]),
                       loading'[p][i] = loading'[p][j]
                PROVE  i = j
    BY DEF Distinct
  <2>1. i + 1 \in 1 .. Len(loading[p]) /\ j + 1 \in 1 .. Len(loading[p])
    BY <1>2
  <2>2. i + 1 = j + 1
    BY <1>1, <1>2, <2>1 DEF StackOf, Distinct
  <2>. QED
    BY <2>2
<1>4. ASSUME NEW g \in File
      PROVE  OnStack(loading'[p], g) <=> g # Top(p) /\ OnStack(loading[p], g)
  <2>1. ASSUME NEW i \in 1 .. Len(loading'[p])
        PROVE  i + 1 \in 1 .. Len(loading[p]) /\ i + 1 # 1
    BY <1>2
  <2>2. ASSUME NEW i \in 1 .. Len(loading[p]), i # 1
        PROVE  i - 1 \in 1 .. Len(loading'[p]) /\ loading'[p][i - 1] = loading[p][i]
    BY <1>2, <2>2
  <2>3. ASSUME NEW i \in 1 .. Len(loading[p]), loading[p][i] = Top(p) PROVE i = 1
    BY <1>1, <1>2, <2>3 DEF StackOf, Distinct
  <2>4. ASSUME NEW i \in 1 .. Len(loading'[p]), loading'[p][i] = g
        PROVE  g # Top(p) /\ OnStack(loading[p], g)
    BY <1>2, <2>1, <2>3, <2>4 DEF OnStack
  <2>5. ASSUME g # Top(p), NEW i \in 1 .. Len(loading[p]), loading[p][i] = g
        PROVE  OnStack(loading'[p], g)
    <3>1. i # 1
      BY <1>2, <2>5
    <3>. QED
      BY <2>2, <2>5, <3>1 DEF OnStack
  <2>. QED
    BY <2>4, <2>5 DEF OnStack
<1>5. ASSUME NEW i \in 1 .. Len(loading'[p]) - 1
      PROVE  loading'[p][i] \in frame'[p][loading'[p][i + 1]].want
  <2>1. /\ i \in 1 .. Len(loading'[p]) /\ i + 1 \in 1 .. Len(loading'[p])
        /\ i + 1 \in 1 .. Len(loading[p]) - 1
        /\ (i + 1) + 1 \in 1 .. Len(loading[p]) /\ (i + 1) + 1 # 1
    BY <1>2
  <2>2. /\ loading'[p][i] = loading[p][i + 1]
        /\ loading'[p][i + 1] = loading[p][(i + 1) + 1]
    BY <1>2, <2>1
  <2>3. loading[p][i + 1] \in frame[p][loading[p][(i + 1) + 1]].want
    BY <1>1, <2>1 DEF StackOf, Wanted
  <2>4. loading[p][(i + 1) + 1] # Top(p) /\ loading[p][(i + 1) + 1] \in File
    BY <1>1, <1>2, <2>1 DEF StackOf, Distinct
  <2>. QED
    BY <2>2, <2>3, <2>4
<1>6. FrameOK(NoFrame) /\ NoFrame.at = "none"
  BY NoFramesOK DEF NoFrame
<1>7. StackOf(p)'
  <2>1. ASSUME NEW f \in File
        PROVE  FrameOK(frame'[p][f]) /\ (frame'[p][f].at # "none" <=> OnStack(loading'[p], f))
    <3>1. CASE f = Top(p)
      BY <1>4, <1>6, <3>1
    <3>2. CASE f # Top(p)
      BY <1>1, <1>4, <3>2 DEF StackOf
    <3>. QED
      BY <3>1, <3>2
  <2>. QED
    BY <1>2, <1>3, <1>5, <2>1 DEF StackOf, Wanted
<1>. QED
  BY <1>7, OtherStacks

\* A load that succeeds.
LEMMA DoneStacks ==
    ASSUME StackInv, NEW p \in Process, loading[p] # <<>>, Done(p)
    PROVE  StackInv'
<1>1. StackOf(p) /\ Top(p) \in File
  BY TopInFlight DEF StackInv
<1>2. /\ loading' = [loading EXCEPT ![p] = Tail(@)]
      /\ frame' = [frame EXCEPT ![p] = [frame[p] EXCEPT ![Top(p)] = NoFrame]]
  BY DEF Done
<1>3. frame'[p] = [frame[p] EXCEPT ![Top(p)] = NoFrame]
  BY <1>2 DEF StackInv
<1>4. /\ DOMAIN frame' = Process /\ DOMAIN frame'[p] = File /\ frame'[p][Top(p)] = NoFrame
      /\ \A q \in Process : q # p => frame'[q] = frame[q]
      /\ \A f \in File : f # Top(p) => frame'[p][f] = frame[p][f]
  BY <1>1, <1>2, <1>3 DEF StackInv, StackOf
<1>. QED
  BY <1>1, <1>2, <1>4, PopStacks DEF StackOf

\* The stack of a process is emptied at once.
LEMMA EmptyStacks ==
    ASSUME StackInv, NEW p \in Process,
           loading' = [loading EXCEPT ![p] = <<>>], frame' = [frame EXCEPT ![p] = NoFrames]
    PROVE  StackInv'
<1>1. loading'[p] = <<>> /\ frame'[p] = NoFrames
  BY DEF StackInv
<1>0. loading'[p] \in Seq(File) /\ Len(loading'[p]) = 0
  BY <1>1, EmptySeq
<1>2. /\ 1 .. Len(loading'[p]) = {}
      /\ DOMAIN frame'[p] = File /\ \A f \in File : frame'[p][f] = NoFrame
  BY <1>0, <1>1 DEF NoFrames
<1>3. FrameOK(NoFrame) /\ NoFrame.at = "none"
  BY NoFramesOK DEF NoFrame
<1>4. 1 .. Len(loading'[p]) - 1 = {}
  BY <1>0
<1>5. StackOf(p)'
  BY <1>0, <1>2, <1>3, <1>4 DEF StackOf, OnStack, Distinct, Wanted
<1>. QED
  BY <1>5, OtherStacks DEF StackInv

-----------------------------------------------------------------------------
(* Every step keeps the stacks.                                            *)

\* What is told to a load that goes on: the failure of something it wants.
LEMMA ToldOK ==
    ASSUME NEW fr, FrameOK(fr), NEW g \in fr.want
    PROVE  /\ FrameOK(Told(fr, g)) /\ Told(fr, g).want = fr.want
           /\ Told(fr, g).at = "none" <=> fr.at = "none"
           /\ Told(fr, g).at \in {"failed", fr.at}
<1>1. CASE fr.at = "deps"
  BY <1>1 DEF Told, FrameOK, Places
<1>2. CASE fr.at # "deps"
  BY <1>2 DEF Told, FrameOK, Places
<1>. QED
  BY <1>1, <1>2

\* Only the caller's frame changes, besides the one that goes away.
LEMMA FailFrames ==
    ASSUME StackInv, NEW p \in Process, Fail(p)
    PROVE  /\ loading[p] # <<>> /\ Top(p) \in File
           /\ loading' = [loading EXCEPT ![p] = Tail(@)]
           /\ DOMAIN frame' = Process
           /\ \A q \in Process : q # p => frame'[q] = frame[q]
           /\ DOMAIN frame'[p] = File /\ frame'[p][Top(p)] = NoFrame
           /\ \A f \in File : f # Top(p) =>
                 \/ frame'[p][f] = frame[p][f]
                 \/ frame'[p][f] = Told(frame[p][f], Top(p)) /\ Top(p) \in frame[p][f].want
<1>1. /\ loading[p] # <<>> /\ StackOf(p)
      /\ loading' = [loading EXCEPT ![p] = Tail(@)]
  BY DEF Fail, At, StackInv
<1>2. /\ Top(p) \in File /\ Top(p) = loading[p][1] /\ Len(loading[p]) \in Nat
      /\ Tail(loading[p]) \in Seq(File)
      /\ Len(Tail(loading[p])) = Len(loading[p]) - 1
      /\ \A i \in 1 .. Len(Tail(loading[p])) : Tail(loading[p])[i] = loading[p][i + 1]
  BY <1>1, TopInFlight
<1>3. /\ DOMAIN frame' = Process
      /\ \A q \in Process : q # p => frame'[q] = frame[q]
      /\ DOMAIN frame'[p] = File /\ frame'[p][Top(p)] = NoFrame
      /\ \A f \in File : f # Top(p) =>
            \/ frame'[p][f] = frame[p][f]
            \/ /\ frame'[p][f] = Told(frame[p][f], Top(p))
               /\ Tail(loading[p]) # <<>> /\ f = Head(Tail(loading[p]))
  BY <1>2 DEF Fail, StackInv
<1>4. ASSUME Tail(loading[p]) # <<>>
      PROVE  Top(p) \in frame[p][Head(Tail(loading[p]))].want
  <2>1. Len(Tail(loading[p])) # 0 /\ Len(Tail(loading[p])) \in Nat
    BY <1>2, <1>4, EmptySeq
  <2>a. ASSUME NEW m \in Nat, NEW n \in Nat, n # 0, n = m - 1
        PROVE  1 \in 1 .. m - 1 /\ 1 \in 1 .. n
    BY <2>a
  <2>2. 1 \in 1 .. Len(loading[p]) - 1 /\ 1 \in 1 .. Len(Tail(loading[p]))
    BY <1>2, <2>1, <2>a
  <2>3. Head(Tail(loading[p])) = loading[p][1 + 1]
    BY <1>2, <2>2
  <2>. QED
    BY <1>1, <1>2, <2>2, <2>3 DEF StackOf, Wanted
<1>. QED
  BY <1>1, <1>2, <1>3, <1>4

LEMMA FailStacks ==
    ASSUME StackInv, NEW p \in Process, Fail(p)
    PROVE  StackInv'
<1>1. StackOf(p)
  BY DEF StackInv
<1>2. ASSUME NEW f \in File, f # Top(p)
      PROVE  /\ FrameOK(frame'[p][f])
             /\ frame'[p][f].at = "none" <=> frame[p][f].at = "none"
             /\ frame'[p][f].want = frame[p][f].want
  <2>1. FrameOK(frame[p][f])
    BY <1>1 DEF StackOf
  <2>2. CASE frame'[p][f] = frame[p][f]
    BY <2>1, <2>2
  <2>3. CASE frame'[p][f] = Told(frame[p][f], Top(p)) /\ Top(p) \in frame[p][f].want
    BY <2>1, <2>3, ToldOK
  <2>. QED
    BY <1>2, <2>2, <2>3, FailFrames
<1>. QED
  BY <1>2, FailFrames, PopStacks

\* Of the images a load reads, what the frames need.
ImagesOK ==
    /\ src \in [File -> Source]
    /\ DOMAIN rec = File /\ DOMAIN art = File
    /\ DOMAIN reg = Process /\ \A p \in Process : DOMAIN reg[p] = File
    /\ \A f \in File :
          /\ rec[f] # None => /\ rec[f].text \in Version /\ rec[f].deps \subseteq File
                              /\ Tree(rec[f].id)
          /\ art[f] # None => Tree(art[f].id) /\ Tree(art[f].code)
          /\ \A p \in Process :
                reg[p][f] # None => Tree(reg[p][f].id) /\ Tree(reg[p][f].code)

LEMMA FoldIsATree ==
    ASSUME NEW text \in Version, NEW lib \in Version \cup {None}, NEW deps \in SUBSET File
    PROVE  Tree(Fold(text, lib, deps))
  BY DEF Tree, Fold

LEMMA StepStacks ==
    ASSUME StackInv, ImagesOK, NEW p \in Process,
           \/ Step(p) \/ StoreFails(p) \/ \E f \in File : Begin(p, f)
    PROVE  StackInv'
<1>1. StackOf(p)
  BY DEF StackInv
<1>2. ASSUME loading[p] # <<>>
      PROVE  FrameOK(Me(p)) /\ Top(p) \in File /\ Me(p).at # "none"
  BY <1>1, <1>2, TopInFlight
<1>3. ASSUME NEW f \in File, Begin(p, f) PROVE StackInv'
  <2>1. loading[p] = <<>> /\ Push(p, f)
    BY <1>3 DEF Begin
  <2>2. frame[p][f].at = "none"
    BY <1>1, <2>1 DEF StackOf, OnStack
  <2>. QED
    BY <2>1, <2>2, PushStacks
<1>4. CASE ReadSource(p)
  <2>. DEFINE fr == [Me(p) EXCEPT !.at = "verify", !.text = src[Top(p)].text]
  <2>1. loading[p] # <<>> /\ Me(p).at = "read" /\ Becomes(p, fr)
    BY <1>4 DEF ReadSource, At
  <2>2. src[Top(p)].text \in Version
    BY <1>2, <2>1 DEF ImagesOK, Source
  <2>3. FrameOK(fr) /\ fr.at # "none"
    BY <1>2, <2>1, <2>2 DEF FrameOK, Places
  <2>. HIDE DEF fr
  <2>. QED
    BY <2>1, <2>3, BecomesStacks
<1>a. ASSUME loading[p] # <<>>, Me(p).at \in {"verify", "deps"}, Compiles(p)
      PROVE  StackInv'
  <2>. DEFINE fr == [Me(p) EXCEPT !.at = "imports", !.want = Imports[Top(p), Me(p).text]]
  <2>1. Becomes(p, fr)
    BY <1>a DEF Compiles
  <2>2. Me(p).text \in Version
    BY <1>2, <1>a DEF FrameOK
  <2>3. Imports[Top(p), Me(p).text] \subseteq File
    BY <1>2, <1>a, <2>2
  <2>4. FrameOK(fr) /\ fr.at # "none"
    BY <1>2, <1>a, <2>2, <2>3 DEF FrameOK, Places
  <2>. HIDE DEF fr
  <2>. QED
    BY <1>a, <2>1, <2>4, BecomesStacks
<1>5. CASE Verify(p)
  <2>. DEFINE fr == [Me(p) EXCEPT !.at = "deps", !.want = rec[Top(p)].deps,
                                  !.id = Fold(Me(p).text, None, rec[Top(p)].deps)]
  <2>1. /\ loading[p] # <<>> /\ Me(p).at = "verify"
        /\ Compiles(p) \/ (Becomes(p, fr) /\ rec[Top(p)] # None)
    BY <1>5 DEF Verify, At, Reuses, UpToDate, Matches
  <2>2. CASE Compiles(p)
    BY <1>a, <2>1, <2>2
  <2>3. CASE Becomes(p, fr) /\ rec[Top(p)] # None
    <3>1. Me(p).text \in Version /\ rec[Top(p)].deps \in SUBSET File
      BY <1>2, <2>1, <2>3 DEF FrameOK, ImagesOK
    <3>2. Tree(Fold(Me(p).text, None, rec[Top(p)].deps))
      BY <3>1, FoldIsATree
    <3>3. FrameOK(fr) /\ fr.at # "none"
      BY <1>2, <2>1, <3>1, <3>2 DEF FrameOK, Places
    <3>. HIDE DEF fr
    <3>. QED
      BY <2>1, <2>3, <3>3, BecomesStacks
  <2>. QED
    BY <2>1, <2>2, <2>3
<1>6. CASE LoadNext(p)
  <2>1. loading[p] # <<>> /\ Me(p).at \in {"deps", "imports"}
    BY <1>6 DEF LoadNext, At
  <2>2. PICK g \in Me(p).want \ (packages[p] \cup Me(p).failed) :
           IF frame[p][g].at # "none" THEN Becomes(p, Told(Me(p), g)) ELSE Push(p, g)
    BY <1>6 DEF LoadNext
  <2>3. FrameOK(Told(Me(p), g)) /\ Told(Me(p), g).at # "none"
    BY <1>2, <2>1, <2>2, ToldOK
  <2>4. g \in File
    BY <1>2, <2>1, <2>2 DEF FrameOK
  <2>5. CASE frame[p][g].at # "none"
    BY <2>1, <2>2, <2>3, <2>5, BecomesStacks
  <2>6. CASE frame[p][g].at = "none"
    BY <2>2, <2>4, <2>6, PushStacks
  <2>. QED
    BY <2>5, <2>6
<1>7. CASE Fail(p)
  BY <1>7, FailStacks
<1>8. CASE ReuseRegistered(p) \/ LoadArtifact(p)
  BY <1>8, DoneStacks DEF ReuseRegistered, LoadArtifact, Reusing, At
<1>9. CASE KeyPanic(p)
  BY <1>9, EmptyStacks DEF KeyPanic
<1>10. CASE RejectArtifact(p)
  BY <1>10, <1>a DEF RejectArtifact, Reusing, At
<1>b. ASSUME NEW place \in {"failed", "store", "publish"}, loading[p] # <<>>,
             Me(p).at \in {"imports", "store"}, Becomes(p, [Me(p) EXCEPT !.at = place])
      PROVE  StackInv'
  <2>. DEFINE fr == [Me(p) EXCEPT !.at = place]
  <2>1. FrameOK(fr) /\ fr.at # "none"
    BY <1>2, <1>b DEF FrameOK, Places
  <2>. HIDE DEF fr
  <2>2. Becomes(p, fr)
    BY <1>b DEF fr
  <2>. QED
    BY <1>b, <2>1, <2>2, BecomesStacks
<1>11. CASE CompileFails(p)
  BY <1>11, <1>b DEF CompileFails, Buildable, At
<1>12. CASE Compile(p)
  BY <1>12, <1>b DEF Compile, Buildable, At
<1>13. CASE SkipStore(p) \/ Publish(p)
  BY <1>13, DoneStacks DEF SkipStore, Publish, At
<1>14. CASE StoreArtifact(p) \/ StoreFails(p)
  BY <1>14, <1>b DEF StoreArtifact, StoreFails, At
<1>. QED
  BY <1>3, <1>4, <1>5, <1>6, <1>7, <1>8, <1>9, <1>10, <1>11, <1>12, <1>13, <1>14 DEF Step

LEMMA StackStep ==
    ASSUME StackInv, ImagesOK, [Next]_vars
    PROVE  StackInv'
<1>1. ASSUME NEW p \in Process, CloseStore(p) PROVE StackInv'
  BY <1>1 DEF CloseStore, StackInv, StackOf
<1>2. ASSUME NEW p \in Process, Crash(p) PROVE StackInv'
  BY <1>2, EmptyStacks DEF Crash
<1>3. CASE (\E f \in File : Edit(f)) \/ vars' = vars
  BY <1>3 DEF Edit, vars, StackInv, StackOf
<1>. QED
  BY <1>1, <1>2, <1>3, StepStacks DEF Next

-----------------------------------------------------------------------------
(* The images: sources, records, artifacts, registries.                    *)

ImageOK(m) == m # None => Tree(m.id) /\ Tree(m.code)

\* One process files one module, or forgets them all.
LEMMA RegistryImages ==
    ASSUME ImagesOK, UNCHANGED <<src, rec, art>>, NEW p \in Process,
           \/ \E f \in File : \E m :
                 ImageOK(m) /\ reg' = [reg EXCEPT ![p] = [@ EXCEPT ![f] = m]]
           \/ reg' = [reg EXCEPT ![p] = Nothing]
           \/ reg' = reg
    PROVE  ImagesOK'
<1>1. CASE \E f \in File : \E m :
              ImageOK(m) /\ reg' = [reg EXCEPT ![p] = [@ EXCEPT ![f] = m]]
  <2>a. PICK f \in File : \E m :
           ImageOK(m) /\ reg' = [reg EXCEPT ![p] = [reg[p] EXCEPT ![f] = m]]
    BY <1>1
  <2>1. PICK m : ImageOK(m) /\ reg' = [reg EXCEPT ![p] = [reg[p] EXCEPT ![f] = m]]
    BY <2>a
  <2>2. reg'[p] = [reg[p] EXCEPT ![f] = m]
    BY <2>1 DEF ImagesOK
  <2>3. /\ DOMAIN reg' = Process
        /\ \A q \in Process : DOMAIN reg'[q] = File
        /\ \A q \in Process, g \in File : reg'[q][g] \in {reg[q][g], m}
    BY <2>1, <2>2 DEF ImagesOK
  <2>. QED
    BY <2>1, <2>3 DEF ImagesOK, ImageOK
<1>2. CASE reg' = [reg EXCEPT ![p] = Nothing]
  BY <1>2 DEF ImagesOK, Nothing
<1>3. CASE reg' = reg
  BY <1>3 DEF ImagesOK
<1>. QED
  BY <1>1, <1>2, <1>3

LEMMA StepImages ==
    ASSUME StackInv, ImagesOK, NEW p \in Process, Step(p) \/ StoreFails(p)
    PROVE  ImagesOK'
<1>1. StackOf(p)
  BY DEF StackInv
<1>2. ASSUME loading[p] # <<>>
      PROVE  FrameOK(Me(p)) /\ Top(p) \in File
  BY <1>1, <1>2, TopInFlight
<1>3. CASE LoadArtifact(p)
  <2>1. /\ loading[p] # <<>> /\ UNCHANGED <<src, rec, art>>
        /\ reg' = [reg EXCEPT ![p] = [@ EXCEPT ![Top(p)] = art[Top(p)]]]
    BY <1>3 DEF LoadArtifact, Reusing, At
  <2>2. ImageOK(art[Top(p)])
    BY <1>2, <2>1 DEF ImagesOK, ImageOK
  <2>. QED
    BY <1>2, <2>1, <2>2, RegistryImages
<1>4. CASE Compile(p)
  <2>1. /\ loading[p] # <<>> /\ Me(p).at = "imports" /\ UNCHANGED <<src, rec, art>>
        /\ reg' = [reg EXCEPT ![p] = [@ EXCEPT ![Top(p)] = Frozen(p)]]
    BY <1>4 DEF Compile, Buildable, At
  <2>2. /\ Me(p).text \in Version /\ Me(p).want \in SUBSET File
        /\ src[Top(p)].lib \in Version \cup {None}
    BY <1>2, <2>1 DEF FrameOK, ImagesOK, Source
  <2>3. Tree(Frozen(p).id)
    BY <2>2, FoldIsATree DEF Frozen
  <2>4. Tree(Frozen(p).code)
    BY <2>2 DEF Frozen, Tree
  <2>5. ImageOK(Frozen(p))
    BY <2>3, <2>4 DEF ImageOK
  <2>. QED
    BY <1>2, <2>1, <2>5, RegistryImages
<1>5. CASE StoreArtifact(p)
  <2>1. /\ loading[p] # <<>> /\ UNCHANGED <<src, rec, reg>>
        /\ art' = [art EXCEPT ![Top(p)] = reg[p][Top(p)]]
    BY <1>5 DEF StoreArtifact, At
  <2>2. DOMAIN art' = File /\ \A f \in File : art'[f] \in {art[f], reg[p][f]}
    BY <1>2, <2>1 DEF ImagesOK
  <2>. QED
    BY <2>1, <2>2 DEF ImagesOK
<1>6. CASE Publish(p)
  <2>1. /\ loading[p] # <<>> /\ Me(p).at = "publish" /\ UNCHANGED <<src, art, reg>>
        /\ rec' = [rec EXCEPT ![Top(p)] = Record(p)]
    BY <1>6 DEF Publish, At
  <2>2. Me(p).text \in Version /\ Me(p).want \in SUBSET File
    BY <1>2, <2>1 DEF FrameOK
  <2>3. /\ Record(p).text \in Version /\ Record(p).deps \subseteq File
        /\ Tree(Record(p).id)
    BY <2>2, FoldIsATree DEF Record
  <2>4. DOMAIN rec' = File /\ \A f \in File : rec'[f] \in {rec[f], Record(p)}
    BY <1>2, <2>1 DEF ImagesOK
  <2>. QED
    BY <2>1, <2>3, <2>4 DEF ImagesOK
<1>7. CASE UNCHANGED <<src, rec, art, reg>>
  BY <1>7 DEF ImagesOK
<1>. QED
  BY <1>3, <1>4, <1>5, <1>6, <1>7 DEF Step, ReadSource, Verify, LoadNext, Fail,
     ReuseRegistered, KeyPanic, RejectArtifact, CompileFails, SkipStore, StoreFails

LEMMA ImagesStep ==
    ASSUME StackInv, ImagesOK, [Next]_vars
    PROVE  ImagesOK'
<1>1. ASSUME NEW p \in Process, CloseStore(p) \/ Crash(p) PROVE ImagesOK'
  BY <1>1, RegistryImages DEF CloseStore, Crash
<1>2. ASSUME NEW f \in File, Edit(f) PROVE ImagesOK'
  <2>1. UNCHANGED <<rec, art, reg>> /\ src' \in [File -> Source]
    BY <1>2 DEF Edit, ImagesOK, Source
  <2>. QED
    BY <2>1 DEF ImagesOK
<1>3. CASE UNCHANGED <<src, rec, art, reg>>
  BY <1>3 DEF ImagesOK
<1>. QED
  BY <1>1, <1>2, <1>3, StepImages DEF Next, Begin, vars

-----------------------------------------------------------------------------
RestOK ==
    /\ packages \in [Process -> SUBSET File]
    /\ loading \in [Process -> Seq(File)]
    /\ panicked \subseteq Process
    /\ counts \in [edit : 0 .. MaxEdit, crash : 0 .. MaxCrash, store : 0 .. MaxStoreFail]

LEMMA RestStep ==
    ASSUME StackInv, ImagesOK, RestOK, [Next]_vars
    PROVE  RestOK'
<1>1. ASSUME NEW p \in Process, loading[p] # <<>> PROVE Top(p) \in File
  BY <1>1, TopInFlight DEF StackInv
<1>2. counts' \in [edit : 0 .. MaxEdit, crash : 0 .. MaxCrash, store : 0 .. MaxStoreFail]
  <2>1. CASE counts' = counts
    BY <2>1 DEF RestOK
  <2>2. ASSUME NEW p \in Process, StoreFails(p) \/ Crash(p)
        PROVE  counts' \in [edit : 0 .. MaxEdit, crash : 0 .. MaxCrash, store : 0 .. MaxStoreFail]
    <3>1. counts \in [edit : 0 .. MaxEdit, crash : 0 .. MaxCrash, store : 0 .. MaxStoreFail]
      BY DEF RestOK
    <3>2. \/ counts.store < MaxStoreFail /\ counts' = [counts EXCEPT !.store = @ + 1]
          \/ counts.crash < MaxCrash /\ counts' = [counts EXCEPT !.crash = @ + 1]
      BY <2>2 DEF StoreFails, Crash
    <3>. QED
      BY <3>1, <3>2
  <2>3. ASSUME NEW f \in File, Edit(f)
        PROVE  counts' \in [edit : 0 .. MaxEdit, crash : 0 .. MaxCrash, store : 0 .. MaxStoreFail]
    BY <2>3 DEF RestOK, Edit
  <2>. QED
    BY <2>1, <2>2, <2>3 DEF Next, vars, Step, Begin, ReadSource, Verify, LoadNext, Fail,
       ReuseRegistered, KeyPanic, LoadArtifact, RejectArtifact, CompileFails, Compile,
       SkipStore, StoreArtifact, Publish, CloseStore
<1>3. packages' \in [Process -> SUBSET File] /\ panicked' \subseteq Process
  <2>1. ASSUME NEW p \in Process, loading[p] # <<>>, Done(p)
        PROVE  packages' \in [Process -> SUBSET File]
    BY <1>1, <2>1 DEF Done, RestOK
  <2>2. ASSUME NEW p \in Process, packages' = [packages EXCEPT ![p] = {}]
        PROVE  packages' \in [Process -> SUBSET File]
    BY <2>2 DEF RestOK
  <2>3. \/ packages' = packages
        \/ \E p \in Process : \/ loading[p] # <<>> /\ Done(p)
                              \/ packages' = [packages EXCEPT ![p] = {}]
    BY DEF Next, vars, Step, Begin, ReadSource, Verify, LoadNext, Fail,
       ReuseRegistered, KeyPanic, LoadArtifact, RejectArtifact, CompileFails, Compile,
       SkipStore, StoreArtifact, StoreFails, Publish, CloseStore, Crash, Edit, Reusing, At
  <2>4. panicked' = panicked \/ \E p \in Process : panicked' = panicked \cup {p}
    BY DEF Next, vars, Step, Begin, ReadSource, Verify, LoadNext, Fail,
       ReuseRegistered, KeyPanic, LoadArtifact, RejectArtifact, CompileFails, Compile,
       SkipStore, StoreArtifact, StoreFails, Publish, CloseStore, Crash, Edit
  <2>. QED
    BY <2>1, <2>2, <2>3, <2>4 DEF RestOK
<1>4. loading' \in [Process -> Seq(File)]
  <2>1. \A p \in Process : loading'[p] \in Seq(File)
    BY StackStep DEF StackInv, StackOf
  <2>2. \/ loading' = loading
        \/ \E p \in Process : \E s : loading' = [loading EXCEPT ![p] = s]
    BY DEF Next, vars, Step, Begin, ReadSource, Verify, LoadNext, Fail, Push, Becomes, Done,
       Compiles, Reuses, ReuseRegistered, KeyPanic, LoadArtifact, RejectArtifact,
       CompileFails, Compile, SkipStore, StoreArtifact, StoreFails, Publish, CloseStore,
       Crash, Edit
  <2>3. loading \in [Process -> Seq(File)]
    BY DEF RestOK
  <2>4. loading' = [p \in Process |-> loading'[p]]
    BY <2>2, <2>3
  <2>. HIDE DEF RestOK
  <2>. QED
    BY <2>1, <2>4
<1>. QED
  BY <1>2, <1>3, <1>4 DEF RestOK

TInv == StackInv /\ ImagesOK /\ RestOK

LEMMA TypeInvariant == Spec => []TInv
<1>1. Init => TInv
  <2>. SUFFICES ASSUME Init PROVE TInv
    OBVIOUS
  <2>1. ASSUME NEW p \in Process PROVE StackOf(p)
    <3>1. loading[p] = <<>> /\ frame[p] = NoFrames
      BY DEF Init
    <3>2. loading[p] \in Seq(File) /\ Len(loading[p]) = 0
      BY <3>1, EmptySeq
    <3>3. /\ 1 .. Len(loading[p]) = {} /\ 1 .. Len(loading[p]) - 1 = {}
          /\ DOMAIN frame[p] = File /\ \A f \in File : frame[p][f] = NoFrame
      BY <3>1, <3>2 DEF NoFrames
    <3>4. FrameOK(NoFrame) /\ NoFrame.at = "none"
      BY NoFramesOK DEF NoFrame
    <3>. QED
      BY <3>2, <3>3, <3>4 DEF StackOf, OnStack, Distinct, Wanted
  <2>2. StackInv
    BY <2>1 DEF Init, StackInv
  <2>3. ImagesOK
    BY DEF Init, ImagesOK, Nothing
  <2>4. RestOK
    BY EmptySeq DEF Init, RestOK
  <2>. QED
    BY <2>2, <2>3, <2>4 DEF TInv
<1>2. TInv /\ [Next]_vars => TInv'
  BY StackStep, ImagesStep, RestStep DEF TInv
<1>. QED
  BY <1>1, <1>2, PTL DEF Spec

\* The state is well typed; in particular a frame is in use exactly while its
\* file is on the stack of loads, and only what is wanted can have failed.
THEOREM TypeCorrect == Spec => []TypeOK
<1>1. TInv => TypeOK
  <2>. SUFFICES ASSUME TInv PROVE TypeOK
    OBVIOUS
  <2>. USE DEF TInv
  <2>1. loading \in [Process -> Seq(File)]
    BY DEF RestOK
  <2>2. ASSUME NEW p \in Process, NEW f \in File
        PROVE  /\ FrameOK(frame[p][f])
               /\ frame[p][f].at # "none" <=> \E i \in 1 .. Len(loading[p]) : loading[p][i] = f
    BY DEF StackInv, StackOf, OnStack
  <2>3. ASSUME NEW p \in Process, NEW f \in File
        PROVE  LET fr == frame[p][f] IN
               /\ fr.at # "none" <=> \E i \in 1 .. Len(loading[p]) : loading[p][i] = f
               /\ fr.at \in {"none", "read", "verify", "deps", "imports", "store", "publish",
                             "failed"}
               /\ fr.text \in Version \cup {None}
               /\ fr.id # None => Tree(fr.id)
               /\ fr.want \subseteq File /\ fr.failed \subseteq fr.want
    BY <2>2 DEF FrameOK, Places
  <2>. QED
    BY <2>1, <2>3 DEF ImagesOK, RestOK, TypeOK
<1>. QED
  BY <1>1, TypeInvariant, PTL

-----------------------------------------------------------------------------
(* What a load answers.                                                    *)

\* Where the answer is promised: nothing is edited under an open store and no
\* library is linked (no record has a library's hash), imports are one deep (an
\* importer of an importer may be loaded over a recompiled import), and what is
\* imported is always published.
Promised ==
    /\ ~EditWhileOpen /\ Linked = {}
    /\ \A f \in File, v \in Version : \A g \in Imports[f, v] : \A w \in Version :
          Imports[g, w] = {} /\ <<g, w>> \notin Uncached

\* None is not a record of the index, an artifact or a compiled package.
NoneIsNoRecord ==
    /\ \A t, d, i : None # [text |-> t, deps |-> d, id |-> i]
    /\ \A i, c : None # [id |-> i, code |-> c]
    /\ \A t, l, o : None # [text |-> t, lib |-> l, on |-> o]

\* What the sources as they are compile to.
LeafTree(v) == [text |-> v, lib |-> None, on |-> [g \in {} |-> None]]
Want(f) == Imports[f, src[f].text]
ColdTree(f) == [text |-> src[f].text, lib |-> None,
                on |-> [g \in Want(f) |-> LeafTree(src[g].text)]]

Sound(f) == <<f, src[f].text>> \notin Broken
Storable(f) == <<f, src[f].text>> \notin Uncached
Current(f) == Matches(f, src[f].text)
Kept(f) == counts.crash = 0 /\ counts.store = 0 =>
              art[f] # None /\ art[f].id = ColdTree(f)

\* A record is of a text that compiled, with the imports of that text; the
\* identity of a file without imports is its text.
RecOf(f) ==
    rec[f] # None =>
        /\ rec[f].deps = Imports[f, rec[f].text]
        /\ <<f, rec[f].text>> \notin Broken
        /\ rec[f].deps = {} => rec[f].id = LeafTree(rec[f].text)

HonestOf(f) == art[f] # None => art[f].id = art[f].code

\* A registered module says what it is, and it is right if that is what the
\* sources compile to.
RegOf(p, f) == reg[p][f] # None => reg[p][f].id = reg[p][f].code
Right(p, f) == reg[p][f] # None /\ reg[p][f].id = ColdTree(f) /\ reg[p][f].code = ColdTree(f)

\* A loaded package is registered with its imports, and published; its artifact
\* is on disk unless it was in the registry already.
PackOf(p, f) ==
    f \in packages[p] =>
        /\ Right(p, f) /\ Sound(f) /\ Want(f) \subseteq packages[p]
        /\ Storable(f) => Current(f) /\ (p \notin Shared => Kept(f))

\* A load in flight works on the sources as they are; one that reuses verified
\* the identity they compile to.
LoadOf(p, f) ==
    /\ frame[p][f].at \notin {"none", "read"} => frame[p][f].text = src[f].text
    /\ frame[p][f].at \in {"deps", "imports", "store", "publish"} =>
          frame[p][f].want = Want(f)
    /\ frame[p][f].at = "deps" =>
          frame[p][f].id = ColdTree(f) /\ Current(f) /\ Sound(f)
    /\ frame[p][f].at \in {"store", "publish"} =>
          Want(f) \subseteq packages[p] /\ Sound(f) /\ Right(p, f)
    /\ frame[p][f].at = "publish" => Storable(f) /\ Kept(f)

PInv ==
    \A f \in File :
        /\ src[f].lib = None
        /\ RecOf(f) /\ HonestOf(f)
        /\ \A p \in Process : RegOf(p, f) /\ PackOf(p, f) /\ LoadOf(p, f)

AInv == TInv /\ IInv /\ PInv

\* The innermost load, with what the invariants say of it.
LEMMA TopLoad ==
    ASSUME AInv, NEW p \in Process, loading[p] # <<>>
    PROVE  /\ Top(p) \in File /\ Top(p) \notin packages[p]
           /\ Me(p) = frame[p][Top(p)] /\ FrameOK(Me(p)) /\ Me(p).at # "none"
           /\ LoadOf(p, Top(p)) /\ RegOf(p, Top(p))
<1>1. StackOf(p) /\ Orderly(p)
  BY DEF AInv, TInv, StackInv, IInv
<1>2. Top(p) \in File /\ Me(p) = frame[p][Top(p)] /\ FrameOK(Me(p)) /\ Me(p).at # "none"
  BY <1>1, TopInFlight
<1>. QED
  BY <1>1, <1>2 DEF Orderly, AInv, PInv

\* What is imported has no imports, and is published.
LEMMA ImportsAreLeaves ==
    ASSUME AInv, Promised, NEW f \in File, NEW g \in Want(f)
    PROVE  /\ g \in File /\ g # f /\ Want(g) = {} /\ Storable(g)
           /\ ColdTree(g) = LeafTree(src[g].text)
<1>1. /\ src \in [File -> Source] /\ src[f].text \in Version
  BY DEF AInv, TInv, ImagesOK, Source
<1>2. g \in File
  BY <1>1 DEF Want
<1>3. src[g].text \in Version
  BY <1>1, <1>2 DEF Source
<1>4. Want(g) = {} /\ Storable(g)
  BY <1>1, <1>2, <1>3 DEF Promised, Want, Storable
<1>5. ColdTree(g) = LeafTree(src[g].text)
  BY <1>4 DEF ColdTree, LeafTree
<1>. QED
  BY <1>2, <1>4, <1>5

\* The records of the imports of a file say what they compile to.
LEMMA FoldIsCold ==
    ASSUME AInv, Promised, NEW f \in File, \A g \in Want(f) : Current(g)
    PROVE  Fold(src[f].text, None, Want(f)) = ColdTree(f)
<1>1. ASSUME NEW g \in Want(f) PROVE RecordedId(g) = LeafTree(src[g].text)
  <2>1. g \in File /\ Want(g) = {}
    BY ImportsAreLeaves
  <2>2. rec[g] # None /\ rec[g].text = src[g].text
    BY <1>1 DEF Current, Matches
  <2>3. RecOf(g)
    BY <2>1 DEF AInv, PInv
  <2>. QED
    BY <2>1, <2>2, <2>3 DEF RecOf, RecordedId, Want
<1>. QED
  BY <1>1 DEF Fold, ColdTree

-----------------------------------------------------------------------------
(* While the sources stay as they are, what is published of them stays.    *)

LEMMA CurrentStays ==
    ASSUME AInv, NoneIsNoRecord, [Next]_vars, src' = src, NEW f \in File, Current(f)
    PROVE  Current(f)'
<1>1. ASSUME NEW p \in Process, Publish(p) PROVE Current(f)'
  <2>1. /\ loading[p] # <<>> /\ Me(p).at = "publish"
        /\ rec' = [rec EXCEPT ![Top(p)] = Record(p)]
    BY <1>1 DEF Publish, At
  <2>2. /\ Top(p) \in File /\ Me(p) = frame[p][Top(p)] /\ LoadOf(p, Top(p))
    BY <2>1, TopLoad
  <2>3. Me(p).text = src[Top(p)].text
    BY <2>1, <2>2 DEF LoadOf
  <2>4. Record(p) # None /\ Record(p).text = src[Top(p)].text
    BY <2>3 DEF Record, NoneIsNoRecord
  <2>5. DOMAIN rec = File
    BY DEF AInv, TInv, ImagesOK
  <2>. QED
    BY <2>1, <2>4, <2>5 DEF Current, Matches
<1>2. CASE rec' = rec
  BY <1>2 DEF Current, Matches
<1>. QED
  BY <1>1, <1>2 DEF Next, vars, Step, Begin, ReadSource, Verify, LoadNext, Fail,
     ReuseRegistered, KeyPanic, LoadArtifact, RejectArtifact, CompileFails, Compile,
     SkipStore, StoreArtifact, StoreFails, CloseStore, Crash, Edit

LEMMA FaultsGrow ==
    ASSUME RestOK, [Next]_vars
    PROVE  /\ counts'.crash = 0 => counts.crash = 0
           /\ counts'.store = 0 => counts.store = 0
<1>1. counts \in [edit : Nat, crash : Nat, store : Nat]
  BY DEF RestOK
<1>2. \/ counts' = counts
      \/ counts' = [counts EXCEPT !.store = @ + 1]
      \/ counts' = [counts EXCEPT !.crash = @ + 1]
      \/ counts' = [counts EXCEPT !.edit = @ + 1]
  BY DEF Next, vars, Step, Begin, ReadSource, Verify, LoadNext, Fail, ReuseRegistered,
     KeyPanic, LoadArtifact, RejectArtifact, CompileFails, Compile, SkipStore,
     StoreArtifact, StoreFails, Publish, CloseStore, Crash, Edit
<1>. QED
  BY <1>1, <1>2

LEMMA KeptStays ==
    ASSUME AInv, [Next]_vars, src' = src, NEW f \in File, Kept(f)
    PROVE  Kept(f)'
<1>0. /\ ColdTree(f)' = ColdTree(f)
      /\ counts'.crash = 0 /\ counts'.store = 0 => counts.crash = 0 /\ counts.store = 0
  BY FaultsGrow DEF AInv, TInv, ColdTree, Want
<1>1. ASSUME NEW p \in Process, StoreArtifact(p) PROVE Kept(f)'
  <2>1. /\ loading[p] # <<>> /\ Me(p).at = "store"
        /\ art' = [art EXCEPT ![Top(p)] = reg[p][Top(p)]]
    BY <1>1 DEF StoreArtifact, At
  <2>2. /\ Top(p) \in File /\ Me(p) = frame[p][Top(p)] /\ LoadOf(p, Top(p))
        /\ RegOf(p, Top(p))
    BY <2>1, TopLoad
  <2>3. reg[p][Top(p)] # None /\ reg[p][Top(p)].id = ColdTree(Top(p))
    BY <2>1, <2>2 DEF LoadOf, Right
  <2>4. DOMAIN art = File
    BY DEF AInv, TInv, ImagesOK
  <2>5. CASE f = Top(p)
    <3>1. art'[f] = reg[p][f]
      BY <2>1, <2>4, <2>5
    <3>. QED
      BY <1>0, <2>3, <2>5, <3>1 DEF Kept
  <2>6. CASE f # Top(p)
    <3>1. art'[f] = art[f]
      BY <2>1, <2>4, <2>6
    <3>. QED
      BY <1>0, <3>1 DEF Kept
  <2>. QED
    BY <2>5, <2>6
<1>2. CASE art' = art
  BY <1>0, <1>2 DEF Kept
<1>. QED
  BY <1>1, <1>2 DEF Next, vars, Step, Begin, ReadSource, Verify, LoadNext, Fail,
     ReuseRegistered, KeyPanic, LoadArtifact, RejectArtifact, CompileFails, Compile,
     SkipStore, StoreFails, Publish, CloseStore, Crash, Edit

\* A process and a file of which nothing but the packages grew.
LEMMA PartsStay ==
    ASSUME AInv, NoneIsNoRecord, [Next]_vars, src' = src, NEW q \in Process, NEW f \in File,
           packages[q] \subseteq packages'[q]
    PROVE  /\ f \in packages[q] /\ reg'[q][f] = reg[q][f] => PackOf(q, f)'
           /\ reg'[q][f] = reg[q][f] => RegOf(q, f)'
           /\ frame'[q][f] = frame[q][f] /\ reg'[q][f] = reg[q][f] => LoadOf(q, f)'
<1>1. /\ ColdTree(f)' = ColdTree(f) /\ Want(f)' = Want(f)
      /\ Sound(f)' = Sound(f) /\ Storable(f)' = Storable(f)
  BY DEF ColdTree, Want, Sound, Storable
<1>2. (Current(f) => Current(f)') /\ (Kept(f) => Kept(f)')
  BY CurrentStays, KeptStays
<1>3. PackOf(q, f) /\ RegOf(q, f) /\ LoadOf(q, f)
  BY DEF AInv, PInv
<1>a. ASSUME reg'[q][f] = reg[q][f], Right(q, f) PROVE Right(q, f)'
  BY <1>1, <1>a DEF Right
<1>4. ASSUME f \in packages[q], reg'[q][f] = reg[q][f] PROVE PackOf(q, f)'
  BY <1>1, <1>2, <1>3, <1>4, <1>a DEF PackOf
<1>5. ASSUME reg'[q][f] = reg[q][f] PROVE RegOf(q, f)'
  BY <1>3, <1>5 DEF RegOf
<1>6. ASSUME frame'[q][f] = frame[q][f], reg'[q][f] = reg[q][f] PROVE LoadOf(q, f)'
  BY <1>1, <1>2, <1>3, <1>6, <1>a DEF LoadOf
<1>. QED
  BY <1>4, <1>5, <1>6

LocalInv == \A f \in File, q \in Process : RegOf(q, f) /\ PackOf(q, f) /\ LoadOf(q, f)

\* A step of one process that touches one file of its store.
LEMMA OneFile ==
    ASSUME AInv, NoneIsNoRecord, [Next]_vars, src' = src,
           NEW p \in Process, NEW f \in File, f \notin packages[p],
           \A q \in Process : q # p =>
              frame'[q] = frame[q] /\ reg'[q] = reg[q] /\ packages'[q] = packages[q],
           packages[p] \subseteq packages'[p], packages'[p] \subseteq packages[p] \cup {f},
           \A g \in File : g # f =>
              reg'[p][g] = reg[p][g] /\ (frame'[p][g] = frame[p][g] \/ LoadOf(p, g)'),
           RegOf(p, f)', f \in packages'[p] => PackOf(p, f)', LoadOf(p, f)'
    PROVE  LocalInv'
<1>. SUFFICES ASSUME NEW q \in Process, NEW g \in File
              PROVE  RegOf(q, g)' /\ PackOf(q, g)' /\ LoadOf(q, g)'
  BY DEF LocalInv
<1>1. CASE q # p
  <2>1. /\ packages'[q] = packages[q] /\ frame'[q][g] = frame[q][g] /\ reg'[q][g] = reg[q][g]
    BY <1>1
  <2>2. g \notin packages'[q] => PackOf(q, g)'
    BY DEF PackOf
  <2>. QED
    BY <2>1, <2>2, PartsStay
<1>2. CASE q = p /\ g # f
  <2>1. g \in packages'[p] => g \in packages[p]
    BY <1>2
  <2>2. g \notin packages'[p] => PackOf(p, g)'
    BY DEF PackOf
  <2>. QED
    BY <1>2, <2>1, <2>2, PartsStay
<1>3. CASE q = p /\ g = f
  <2>1. g \notin packages'[p] => PackOf(p, g)'
    BY DEF PackOf
  <2>. QED
    BY <1>3, <2>1
<1>. QED
  BY <1>1, <1>2, <1>3

-----------------------------------------------------------------------------
(* The end of a store.                                                     *)

LEMMA EmptyStore ==
    ASSUME NEW p \in Process, NEW f \in File,
           packages'[p] = {}, frame'[p][f].at = "none",
           reg'[p][f] = None \/ (RegOf(p, f) /\ reg'[p][f] = reg[p][f])
    PROVE  RegOf(p, f)' /\ PackOf(p, f)' /\ LoadOf(p, f)'
  BY DEF RegOf, PackOf, LoadOf

\* A store without loads has no frames in use.
LEMMA ClosedIsEmpty ==
    ASSUME AInv, NEW p \in Process, loading[p] = <<>>, NEW f \in File
    PROVE  frame[p][f].at = "none"
<1>1. StackOf(p)
  BY DEF AInv, TInv, StackInv
<1>2. Len(loading[p]) = 0
  BY EmptySeq
<1>. QED
  BY <1>1, <1>2 DEF StackOf, OnStack

\* A store that is dropped, or whose process is killed or dies.
LEMMA DroppedStore ==
    ASSUME AInv, NoneIsNoRecord, [Next]_vars, NEW p \in Process,
           CloseStore(p) \/ Crash(p) \/ KeyPanic(p)
    PROVE  LocalInv'
<1>0. UNCHANGED src
  BY DEF CloseStore, Crash, KeyPanic
<1>1. DOMAIN packages = Process /\ DOMAIN reg = Process /\ DOMAIN frame = Process
  BY DEF AInv, IInv
<1>2. /\ packages' = [packages EXCEPT ![p] = {}]
      /\ reg' = [reg EXCEPT ![p] = Nothing] \/ reg' = reg
      /\ frame' = [frame EXCEPT ![p] = NoFrames] \/ (frame' = frame /\ loading[p] = <<>>)
  BY DEF CloseStore, Crash, KeyPanic
<1>3. /\ packages'[p] = {} /\ (reg'[p] = Nothing \/ reg'[p] = reg[p])
      /\ \A q \in Process : q # p =>
            packages'[q] = packages[q] /\ reg'[q] = reg[q] /\ frame'[q] = frame[q]
  BY <1>1, <1>2
<1>. SUFFICES ASSUME NEW q \in Process, NEW f \in File
              PROVE  RegOf(q, f)' /\ PackOf(q, f)' /\ LoadOf(q, f)'
  BY DEF LocalInv
<1>4. CASE q = p
  <2>1. reg'[p][f] = None \/ (RegOf(p, f) /\ reg'[p][f] = reg[p][f])
    BY <1>3 DEF Nothing, AInv, PInv
  <2>2. frame'[p][f].at = "none"
    <3>1. CASE frame' = [frame EXCEPT ![p] = NoFrames]
      BY <1>1, <3>1 DEF NoFrames, NoFrame
    <3>2. CASE frame' = frame /\ loading[p] = <<>>
      BY <3>2, ClosedIsEmpty
    <3>. QED
      BY <1>2, <3>1, <3>2
  <2>. QED
    BY <1>3, <1>4, <2>1, <2>2, EmptyStore
<1>5. CASE q # p
  <2>1. packages'[q] = packages[q] /\ reg'[q][f] = reg[q][f] /\ frame'[q][f] = frame[q][f]
    BY <1>3, <1>5
  <2>2. f \notin packages'[q] => PackOf(q, f)'
    BY DEF PackOf
  <2>. QED
    BY <1>0, <2>1, <2>2, PartsStay
<1>. QED
  BY <1>4, <1>5

-----------------------------------------------------------------------------
(* The steps of a load.                                                    *)

LEMMA BecomesFrames ==
    ASSUME AInv, NEW p \in Process, NEW fr, loading[p] # <<>>, Becomes(p, fr)
    PROVE  /\ frame'[p][Top(p)] = fr
           /\ \A g \in File : g # Top(p) => frame'[p][g] = frame[p][g]
           /\ \A q \in Process : q # p => frame'[q] = frame[q]
<1>1. frame' = [frame EXCEPT ![p] = [frame[p] EXCEPT ![Top(p)] = fr]]
  BY DEF Becomes
<1>2. DOMAIN frame = Process /\ DOMAIN frame[p] = File /\ Top(p) \in File
  BY TopLoad DEF AInv, TInv, StackInv, StackOf
<1>3. frame'[p] = [frame[p] EXCEPT ![Top(p)] = fr]
  BY <1>1, <1>2
<1>. QED
  BY <1>1, <1>2, <1>3

LEMMA DoneFrames ==
    ASSUME AInv, NEW p \in Process, loading[p] # <<>>, Done(p)
    PROVE  /\ frame'[p][Top(p)] = NoFrame
           /\ \A g \in File : g # Top(p) => frame'[p][g] = frame[p][g]
           /\ packages'[p] = packages[p] \cup {Top(p)}
           /\ \A q \in Process : q # p => frame'[q] = frame[q] /\ packages'[q] = packages[q]
<1>1. /\ frame' = [frame EXCEPT ![p] = [frame[p] EXCEPT ![Top(p)] = NoFrame]]
      /\ packages' = [packages EXCEPT ![p] = @ \cup {Top(p)}]
  BY DEF Done
<1>2. DOMAIN frame = Process /\ DOMAIN frame[p] = File /\ Top(p) \in File
  BY TopLoad DEF AInv, TInv, StackInv, StackOf
<1>3. frame'[p] = [frame[p] EXCEPT ![Top(p)] = NoFrame]
  BY <1>1, <1>2
<1>4. DOMAIN packages = Process
  BY DEF AInv, IInv
<1>. QED
  BY <1>1, <1>2, <1>3, <1>4

\* The innermost load goes on, and nothing else of its store changes.
LEMMA GoesOn ==
    ASSUME AInv, NoneIsNoRecord, [Next]_vars, UNCHANGED <<src, packages, reg>>,
           NEW p \in Process, NEW fr, loading[p] # <<>>, Becomes(p, fr),
           NEW f \in File, f = Top(p), frame'[p][f] = fr => LoadOf(p, f)'
    PROVE  LocalInv'
<1>1. f \notin packages[p]
  BY TopLoad
<1>2. RegOf(p, f)'
  BY PartsStay
<1>3. f \in packages'[p] => PackOf(p, f)'
  BY <1>1
<1>. QED
  BY <1>1, <1>2, <1>3, BecomesFrames, OneFile

\* The innermost load succeeds.
LEMMA Succeeds ==
    ASSUME AInv, NoneIsNoRecord, [Next]_vars, src' = src,
           NEW p \in Process, loading[p] # <<>>, Done(p), NEW f \in File, f = Top(p),
           \A q \in Process : q # p => reg'[q] = reg[q],
           \A g \in File : g # f => reg'[p][g] = reg[p][g],
           RegOf(p, f)', PackOf(p, f)'
    PROVE  LocalInv'
<1>1. f \notin packages[p]
  BY TopLoad
<1>2. LoadOf(p, f)'
  BY DoneFrames DEF LoadOf, NoFrame
<1>. QED
  BY <1>1, <1>2, DoneFrames, OneFile

\* A load begins.
LEMMA Begins ==
    ASSUME AInv, NoneIsNoRecord, [Next]_vars, UNCHANGED <<src, packages, reg>>,
           NEW p \in Process, NEW f \in File \ packages[p], Push(p, f)
    PROVE  LocalInv'
<1>1. frame' = [frame EXCEPT ![p] = [frame[p] EXCEPT ![f] = NewFrame]]
  BY DEF Push
<1>2. DOMAIN frame = Process /\ DOMAIN frame[p] = File
  BY DEF AInv, TInv, StackInv, StackOf
<1>3. frame'[p] = [frame[p] EXCEPT ![f] = NewFrame]
  BY <1>1, <1>2
<1>4. LoadOf(p, f)'
  BY <1>2, <1>3 DEF LoadOf, NewFrame
<1>5. RegOf(p, f)'
  BY PartsStay
<1>. QED
  BY <1>1, <1>2, <1>3, <1>4, <1>5, OneFile

\* A load that is told of a failure.
LEMMA ToldLoad ==
    ASSUME AInv, NoneIsNoRecord, [Next]_vars, UNCHANGED <<src, packages, reg>>,
           NEW p \in Process, NEW f \in File, NEW g \in frame[p][f].want,
           frame'[p][f] = Told(frame[p][f], g)
    PROVE  LoadOf(p, f)'
<1>1. FrameOK(frame[p][f]) /\ LoadOf(p, f)
  BY DEF AInv, PInv, TInv, StackInv, StackOf
<1>2. /\ frame'[p][f].want = frame[p][f].want
      /\ frame'[p][f].at \in {"failed", frame[p][f].at}
      /\ frame'[p][f].text = frame[p][f].text /\ frame'[p][f].id = frame[p][f].id
  BY <1>1, ToldOK DEF Told, FrameOK
<1>3. CASE frame'[p][f].at = "failed" /\ frame[p][f].at # "failed"
  <2>1. frame[p][f].at = "deps"
    BY <1>1, <1>3 DEF Told
  <2>. QED
    BY <1>1, <1>2, <1>3, <2>1 DEF LoadOf
<1>4. CASE frame'[p][f].at = frame[p][f].at
  <2>1. /\ Want(f)' = Want(f) /\ ColdTree(f)' = ColdTree(f)
        /\ Sound(f)' = Sound(f) /\ Storable(f)' = Storable(f)
    BY DEF ColdTree, Want, Sound, Storable
  <2>2. (Current(f) => Current(f)') /\ (Kept(f) => Kept(f)')
    BY CurrentStays, KeptStays
  <2>3. Right(p, f) => Right(p, f)'
    BY <2>1 DEF Right
  <2>. QED
    BY <1>1, <1>2, <1>4, <2>1, <2>2, <2>3 DEF LoadOf
<1>. QED
  BY <1>2, <1>3, <1>4

\* The walk of verify: the records of a file and of what it imports are of the
\* sources as they are.
LEMMA UpToDateIsCurrent ==
    ASSUME AInv, Promised, NEW f \in File, UpToDate(f, src[f].text)
    PROVE  /\ rec[f] # None /\ rec[f].deps = Want(f) /\ Current(f) /\ Sound(f)
           /\ \A g \in Want(f) : Current(g)
<1>1. rec[f] # None /\ rec[f].text = src[f].text
  BY DEF UpToDate, Matches
<1>2. RecOf(f)
  BY DEF AInv, PInv
<1>3. rec[f].deps = Want(f) /\ Current(f) /\ Sound(f)
  BY <1>1, <1>2 DEF RecOf, Want, Current, Matches, Sound
<1>4. ASSUME NEW g \in Want(f) PROVE Current(g)
  <2>1. g # f
    BY ImportsAreLeaves
  <2>. QED
    BY <1>3, <2>1 DEF UpToDate, Current
<1>. QED
  BY <1>1, <1>3, <1>4

LEMMA LoadStep ==
    ASSUME AInv, Promised, NoneIsNoRecord, [Next]_vars, NEW p \in Process,
           \/ Step(p) \/ StoreFails(p) \/ \E f \in File : Begin(p, f)
    PROVE  LocalInv'
<1>0. src' = src
  BY DEF Step, Begin, ReadSource, Verify, LoadNext, Fail, ReuseRegistered, KeyPanic,
     LoadArtifact, RejectArtifact, CompileFails, Compile, SkipStore, StoreArtifact,
     StoreFails, Publish
<1>1. ASSUME loading[p] # <<>>
      PROVE  /\ Top(p) \in File /\ Top(p) \notin packages[p]
             /\ Me(p) = frame[p][Top(p)] /\ FrameOK(Me(p)) /\ LoadOf(p, Top(p))
             /\ RegOf(p, Top(p))
  BY <1>1, TopLoad
<1>2. ASSUME NEW f \in File
      PROVE  /\ Want(f)' = Want(f) /\ ColdTree(f)' = ColdTree(f)
             /\ Sound(f)' = Sound(f) /\ Storable(f)' = Storable(f)
             /\ Current(f) => Current(f)'
             /\ Kept(f) => Kept(f)'
  BY <1>0, CurrentStays, KeptStays DEF ColdTree, Want, Sound, Storable
<1>3. ASSUME NEW f \in File, Begin(p, f) PROVE LocalInv'
  BY <1>0, <1>3, Begins DEF Begin
<1>4. CASE ReadSource(p)
  <2>1. /\ loading[p] # <<>> /\ UNCHANGED <<packages, reg>>
        /\ Becomes(p, [Me(p) EXCEPT !.at = "verify", !.text = src[Top(p)].text])
    BY <1>4 DEF ReadSource, At
  <2>2. PICK f \in File : f = Top(p)
    BY <1>1, <2>1
  <2>3. PICK fr : /\ Becomes(p, fr)
                  /\ fr = [Me(p) EXCEPT !.at = "verify", !.text = src[Top(p)].text]
    BY <2>1
  <2>4. fr.at = "verify" /\ fr.text = src[f].text
    BY <1>1, <2>1, <2>2, <2>3 DEF FrameOK
  <2>5. ASSUME frame'[p][f] = fr PROVE LoadOf(p, f)'
    BY <1>0, <2>4, <2>5 DEF LoadOf
  <2>. QED
    BY <1>0, <2>1, <2>2, <2>3, <2>5, GoesOn
<1>a. ASSUME loading[p] # <<>>, Me(p).at \in {"verify", "deps"}, Compiles(p),
             UNCHANGED <<packages, reg>>
      PROVE  LocalInv'
  <2>2. PICK f \in File : f = Top(p)
    BY <1>1, <1>a
  <2>3. PICK fr : /\ Becomes(p, fr)
                  /\ fr = [Me(p) EXCEPT !.at = "imports", !.want = Imports[Top(p), Me(p).text]]
    BY <1>a DEF Compiles
  <2>4. Me(p).text = src[f].text
    BY <1>1, <1>a, <2>2 DEF LoadOf
  <2>5. fr.at = "imports" /\ fr.text = src[f].text /\ fr.want = Want(f)
    BY <1>1, <1>a, <2>2, <2>3, <2>4 DEF FrameOK, Want
  <2>6. ASSUME frame'[p][f] = fr PROVE LoadOf(p, f)'
    BY <1>0, <1>2, <2>5, <2>6 DEF LoadOf
  <2>. QED
    BY <1>0, <1>a, <2>2, <2>3, <2>6, GoesOn
<1>5. CASE Verify(p)
  <2>1. /\ loading[p] # <<>> /\ Me(p).at = "verify" /\ UNCHANGED <<packages, reg>>
    BY <1>5 DEF Verify, At
  <2>2. PICK f \in File : f = Top(p)
    BY <1>1, <2>1
  <2>3. Me(p).text = src[f].text
    BY <1>1, <2>1, <2>2 DEF LoadOf
  <2>4. CASE Compiles(p)
    BY <1>a, <2>1, <2>4
  <2>5. CASE UpToDate(f, src[f].text) /\ Reuses(p)
    <3>1. PICK fr : /\ Becomes(p, fr)
                    /\ fr = [Me(p) EXCEPT !.at = "deps", !.want = rec[Top(p)].deps,
                                          !.id = Fold(Me(p).text, None, rec[Top(p)].deps)]
      BY <2>5 DEF Reuses
    <3>2. rec[f].deps = Want(f) /\ Current(f) /\ Sound(f) /\ \A g \in Want(f) : Current(g)
      BY <2>5, UpToDateIsCurrent
    <3>3. Fold(src[f].text, None, Want(f)) = ColdTree(f)
      BY <3>2, FoldIsCold
    <3>4. /\ fr.at = "deps" /\ fr.text = src[f].text /\ fr.want = Want(f)
          /\ fr.id = ColdTree(f)
      BY <1>1, <2>1, <2>2, <2>3, <3>1, <3>2, <3>3 DEF FrameOK
    <3>5. ASSUME frame'[p][f] = fr PROVE LoadOf(p, f)'
      BY <1>0, <1>2, <3>2, <3>4, <3>5 DEF LoadOf
    <3>. QED
      BY <1>0, <2>1, <2>2, <3>1, <3>5, GoesOn
  <2>. QED
    BY <1>5, <2>2, <2>3, <2>4, <2>5 DEF Verify
<1>6. CASE LoadNext(p)
  <2>1. loading[p] # <<>> /\ UNCHANGED <<packages, reg>>
    BY <1>6 DEF LoadNext, At
  <2>2. PICK g \in Me(p).want \ (packages[p] \cup Me(p).failed) :
           IF frame[p][g].at # "none" THEN Becomes(p, Told(Me(p), g)) ELSE Push(p, g)
    BY <1>6 DEF LoadNext
  <2>3. g \in File \ packages[p]
    BY <1>1, <2>1, <2>2 DEF FrameOK
  <2>4. CASE Becomes(p, Told(Me(p), g))
    <3>1. PICK f \in File : f = Top(p)
      BY <1>1, <2>1
    <3>2. PICK fr : Becomes(p, fr) /\ fr = Told(frame[p][f], g)
      BY <1>1, <2>1, <2>4, <3>1
    <3>3. g \in frame[p][f].want
      BY <1>1, <2>1, <2>2, <3>1
    <3>4. ASSUME frame'[p][f] = fr PROVE LoadOf(p, f)'
      BY <1>0, <2>1, <3>2, <3>3, <3>4, ToldLoad
    <3>. QED
      BY <1>0, <2>1, <3>1, <3>2, <3>4, GoesOn
  <2>5. CASE Push(p, g)
    BY <1>0, <2>1, <2>3, <2>5, Begins
  <2>. QED
    BY <2>2, <2>4, <2>5
<1>7. CASE Fail(p)
  <2>1. loading[p] # <<>> /\ UNCHANGED <<packages, reg>>
    BY <1>7 DEF Fail, At
  <2>2. PICK f \in File : f = Top(p)
    BY <1>1, <2>1
  <2>3. /\ frame'[p][f] = NoFrame
        /\ \A q \in Process : q # p => frame'[q] = frame[q]
        /\ \A g \in File : g # f =>
              \/ frame'[p][g] = frame[p][g]
              \/ frame'[p][g] = Told(frame[p][g], f) /\ f \in frame[p][g].want
    BY <1>7, <2>2, FailFrames DEF AInv, TInv
  <2>4. ASSUME NEW g \in File, g # f PROVE frame'[p][g] = frame[p][g] \/ LoadOf(p, g)'
    BY <1>0, <2>1, <2>3, <2>4, ToldLoad
  <2>5. LoadOf(p, f)'
    BY <2>3 DEF LoadOf, NoFrame
  <2>6. RegOf(p, f)' /\ f \notin packages[p]
    BY <1>0, <1>1, <2>1, <2>2, PartsStay
  <2>. QED
    BY <1>0, <2>1, <2>3, <2>4, <2>5, <2>6, OneFile
<1>8. CASE ReuseRegistered(p)
  <2>1. /\ loading[p] # <<>> /\ Me(p).at = "deps" /\ Settled(p) /\ Done(p) /\ reg' = reg
        /\ reg[p][Top(p)] # None /\ reg[p][Top(p)].id = Me(p).id
    BY <1>8 DEF ReuseRegistered, Reusing, At
  <2>2. PICK f \in File : f = Top(p)
    BY <1>1, <2>1
  <2>3. /\ Me(p).id = ColdTree(f) /\ Me(p).want = Want(f) /\ Me(p).failed = {}
        /\ Current(f) /\ Sound(f)
    BY <1>1, <2>1, <2>2 DEF LoadOf, FrameOK
  <2>4. Right(p, f)'
    BY <1>1, <1>2, <2>1, <2>2, <2>3 DEF RegOf, Right
  <2>5. Want(f) \subseteq packages'[p]
    BY <2>1, <2>3, DoneFrames DEF Settled
  <2>6. p \in Shared
    BY <1>8, OnlySharedKeeps DEF AInv
  <2>7. PackOf(p, f)'
    BY <1>2, <2>3, <2>4, <2>5, <2>6 DEF PackOf
  <2>8. RegOf(p, f)'
    BY <1>1, <2>1, <2>2 DEF RegOf
  <2>. QED
    BY <1>0, <2>1, <2>2, <2>7, <2>8, Succeeds
<1>9. CASE KeyPanic(p)
  BY <1>9, DroppedStore
<1>10. CASE LoadArtifact(p)
  <2>1. /\ loading[p] # <<>> /\ Me(p).at = "deps" /\ Settled(p) /\ Done(p)
        /\ HeaderMatches(Top(p), Me(p).id) /\ art' = art /\ counts' = counts
        /\ reg' = [reg EXCEPT ![p] = [@ EXCEPT ![Top(p)] = art[Top(p)]]]
    BY <1>10 DEF LoadArtifact, Reusing, At
  <2>2. PICK f \in File : f = Top(p)
    BY <1>1, <2>1
  <2>3. /\ reg'[p][f] = art[f] /\ \A q \in Process : q # p => reg'[q] = reg[q]
        /\ \A g \in File : g # f => reg'[p][g] = reg[p][g]
    BY <2>1, <2>2 DEF AInv, TInv, ImagesOK
  <2>4. /\ Me(p).id = ColdTree(f) /\ Me(p).want = Want(f) /\ Me(p).failed = {}
        /\ Current(f) /\ Sound(f)
    BY <1>1, <2>1, <2>2 DEF LoadOf, FrameOK
  <2>5. art[f] # None /\ art[f].id = ColdTree(f) /\ art[f].code = ColdTree(f)
    BY <2>1, <2>2, <2>4 DEF HeaderMatches, AInv, PInv, HonestOf
  <2>6. RegOf(p, f)' /\ Right(p, f)'
    BY <1>2, <2>3, <2>5 DEF RegOf, Right
  <2>7. Kept(f)'
    <3>1. Kept(f)
      BY <2>5 DEF Kept
    <3>. QED
      BY <1>2, <3>1
  <2>8. Want(f) \subseteq packages'[p]
    BY <2>1, <2>4, DoneFrames DEF Settled
  <2>9. PackOf(p, f)'
    BY <1>2, <2>4, <2>6, <2>7, <2>8 DEF PackOf
  <2>. QED
    BY <1>0, <2>1, <2>2, <2>3, <2>6, <2>9, Succeeds
<1>11. CASE RejectArtifact(p)
  BY <1>11, <1>a DEF RejectArtifact, Reusing, At
<1>12. CASE CompileFails(p)
  <2>1. /\ loading[p] # <<>> /\ Me(p).at = "imports" /\ UNCHANGED <<packages, reg>>
        /\ Becomes(p, [Me(p) EXCEPT !.at = "failed"])
    BY <1>12 DEF CompileFails, Buildable, At
  <2>2. PICK f \in File : f = Top(p)
    BY <1>1, <2>1
  <2>3. PICK fr : Becomes(p, fr) /\ fr = [Me(p) EXCEPT !.at = "failed"]
    BY <2>1
  <2>4. fr.at = "failed" /\ fr.text = src[f].text
    BY <1>1, <2>1, <2>2, <2>3 DEF FrameOK, LoadOf
  <2>5. ASSUME frame'[p][f] = fr PROVE LoadOf(p, f)'
    BY <1>0, <2>4, <2>5 DEF LoadOf
  <2>. QED
    BY <1>0, <2>1, <2>2, <2>3, <2>5, GoesOn
<1>13. CASE Compile(p)
  <2>1. /\ loading[p] # <<>> /\ Me(p).at = "imports" /\ Settled(p) /\ Me(p).failed = {}
        /\ ~Breaks(p) /\ packages' = packages
        /\ reg' = [reg EXCEPT ![p] = [@ EXCEPT ![Top(p)] = Frozen(p)]]
        /\ Becomes(p, [Me(p) EXCEPT !.at = "store"])
    BY <1>13 DEF Compile, Buildable, At
  <2>2. PICK f \in File : f = Top(p)
    BY <1>1, <2>1
  <2>3. /\ reg'[p][f] = Frozen(p) /\ \A q \in Process : q # p => reg'[q] = reg[q]
        /\ \A g \in File : g # f => reg'[p][g] = reg[p][g]
    BY <2>1, <2>2 DEF AInv, TInv, ImagesOK
  <2>4. /\ Me(p).text = src[f].text /\ Me(p).want = Want(f) /\ Sound(f)
        /\ Want(f) \subseteq packages[p] /\ src[f].lib = None
    BY <1>1, <2>1, <2>2 DEF LoadOf, Settled, Breaks, Sound, AInv, PInv
  <2>5. ASSUME NEW g \in Want(f)
        PROVE  Current(g) /\ reg[p][g].code = LeafTree(src[g].text)
    <3>1. g \in File /\ Storable(g) /\ ColdTree(g) = LeafTree(src[g].text)
      BY ImportsAreLeaves
    <3>. QED
      BY <2>4, <3>1 DEF AInv, PInv, PackOf, Right
  <2>6. Frozen(p).id = ColdTree(f)
    BY <2>2, <2>4, <2>5, FoldIsCold DEF Frozen
  <2>7. Frozen(p).code = ColdTree(f)
    BY <2>2, <2>4, <2>5 DEF Frozen, ColdTree
  <2>8. Frozen(p) # None
    BY DEF Frozen, NoneIsNoRecord
  <2>9. RegOf(p, f)' /\ Right(p, f)'
    BY <1>2, <2>3, <2>6, <2>7, <2>8 DEF RegOf, Right
  <2>10. PICK fr : Becomes(p, fr) /\ fr = [Me(p) EXCEPT !.at = "store"]
    BY <2>1
  <2>11. fr.at = "store" /\ fr.text = src[f].text /\ fr.want = Want(f)
    BY <1>1, <2>1, <2>4, <2>10 DEF FrameOK
  <2>12. frame'[p][f] = fr
    BY <2>1, <2>2, <2>10, BecomesFrames
  <2>13. LoadOf(p, f)'
    BY <1>0, <1>2, <2>1, <2>4, <2>9, <2>11, <2>12 DEF LoadOf
  <2>14. f \notin packages[p]
    BY <1>1, <2>1, <2>2
  <2>. QED
    BY <1>0, <2>1, <2>2, <2>3, <2>9, <2>10, <2>13, <2>14, BecomesFrames, OneFile
<1>14. CASE SkipStore(p)
  <2>1. /\ loading[p] # <<>> /\ Me(p).at = "store" /\ ~Cacheable(p) /\ Done(p) /\ reg' = reg
    BY <1>14 DEF SkipStore, At
  <2>2. PICK f \in File : f = Top(p)
    BY <1>1, <2>1
  <2>3. /\ Want(f) \subseteq packages[p] /\ Sound(f) /\ Right(p, f)
        /\ Me(p).text = src[f].text
    BY <1>1, <2>1, <2>2 DEF LoadOf
  <2>4. ~Storable(f)
    BY <2>1, <2>2, <2>3 DEF Cacheable, Storable
  <2>5. RegOf(p, f)' /\ Right(p, f)'
    BY <1>1, <1>2, <2>1, <2>2, <2>3 DEF RegOf, Right
  <2>6. PackOf(p, f)'
    BY <1>2, <2>1, <2>3, <2>4, <2>5, DoneFrames DEF PackOf
  <2>. QED
    BY <1>0, <2>1, <2>2, <2>5, <2>6, Succeeds
<1>15. CASE StoreArtifact(p) \/ StoreFails(p)
  <2>1. /\ loading[p] # <<>> /\ Me(p).at = "store" /\ Cacheable(p)
        /\ UNCHANGED <<packages, reg>> /\ Becomes(p, [Me(p) EXCEPT !.at = "publish"])
    BY <1>15 DEF StoreArtifact, StoreFails, At
  <2>2. PICK f \in File : f = Top(p)
    BY <1>1, <2>1
  <2>3. PICK fr : Becomes(p, fr) /\ fr = [Me(p) EXCEPT !.at = "publish"]
    BY <2>1
  <2>4. /\ fr.at = "publish" /\ fr.text = src[f].text /\ fr.want = Want(f)
        /\ Want(f) \subseteq packages[p] /\ Sound(f) /\ Right(p, f)
        /\ Storable(f)
    BY <1>1, <2>1, <2>2, <2>3 DEF FrameOK, LoadOf, Cacheable, Storable
  <2>5. Kept(f)'
    <3>1. CASE StoreArtifact(p)
      <4>1. art'[f] = reg[p][f]
        BY <2>2, <3>1 DEF StoreArtifact, AInv, TInv, ImagesOK
      <4>2. art'[f] # None /\ art'[f].id = ColdTree(f)
        BY <2>4, <4>1 DEF Right
      <4>. QED
        BY <1>2, <4>2 DEF Kept
    <3>2. CASE StoreFails(p)
      <4>1. counts'.store = counts.store + 1 /\ counts.store \in Nat
        BY <3>2 DEF StoreFails, AInv, TInv, RestOK
      <4>. QED
        BY <4>1 DEF Kept
    <3>. QED
      BY <1>15, <3>1, <3>2
  <2>6. Right(p, f)'
    BY <1>2, <2>1, <2>4 DEF Right
  <2>7. ASSUME frame'[p][f] = fr PROVE LoadOf(p, f)'
    BY <1>0, <1>2, <2>1, <2>4, <2>5, <2>6, <2>7 DEF LoadOf
  <2>. QED
    BY <1>0, <2>1, <2>2, <2>3, <2>7, GoesOn
<1>16. CASE Publish(p)
  <2>1. /\ loading[p] # <<>> /\ Me(p).at = "publish" /\ Done(p) /\ reg' = reg
        /\ rec' = [rec EXCEPT ![Top(p)] = Record(p)]
    BY <1>16 DEF Publish, At
  <2>2. PICK f \in File : f = Top(p)
    BY <1>1, <2>1
  <2>3. /\ Want(f) \subseteq packages[p] /\ Sound(f) /\ Right(p, f)
        /\ Me(p).text = src[f].text /\ Kept(f)
    BY <1>1, <2>1, <2>2 DEF LoadOf
  <2>4. Current(f)'
    <3>1. rec'[f] = Record(p)
      BY <2>1, <2>2 DEF AInv, TInv, ImagesOK
    <3>2. Record(p) # None /\ Record(p).text = src[f].text
      BY <2>3 DEF Record, NoneIsNoRecord
    <3>. QED
      BY <1>0, <3>1, <3>2 DEF Current, Matches
  <2>5. RegOf(p, f)' /\ Right(p, f)'
    BY <1>1, <1>2, <2>1, <2>2, <2>3 DEF RegOf, Right
  <2>6. PackOf(p, f)'
    <3>1. Sound(f)' /\ Kept(f)' /\ Want(f)' \subseteq packages'[p]
      BY <1>2, <2>1, <2>3, DoneFrames
    <3>. QED
      BY <2>4, <2>5, <3>1 DEF PackOf
  <2>. QED
    BY <1>0, <2>1, <2>2, <2>5, <2>6, Succeeds
<1>. QED
  BY <1>3, <1>4, <1>5, <1>6, <1>7, <1>8, <1>9, <1>10, <1>11, <1>12, <1>13, <1>14, <1>15,
     <1>16 DEF Step

\* An edit finds every store closed.
LEMMA EditStep ==
    ASSUME AInv, Promised, NEW f \in File, Edit(f)
    PROVE  LocalInv' /\ \A g \in File : src'[g].lib = None
<1>1. /\ \A p \in Process : Closed(p)
      /\ UNCHANGED <<rec, art, reg, packages, loading, frame>>
      /\ \E v \in Version : src' = [src EXCEPT ![f] = [@ EXCEPT !.text = v]]
  BY DEF Edit, Promised
<1>2. PICK v \in Version : src' = [src EXCEPT ![f] = [src[f] EXCEPT !.text = v]]
  BY <1>1
<1>3. \A g \in File : src'[g].lib = src[g].lib
  BY <1>2 DEF AInv, TInv, ImagesOK, Source
<1>4. \A g \in File : src'[g].lib = None
  BY <1>3 DEF AInv, PInv
<1>5. ASSUME NEW p \in Process, NEW g \in File
      PROVE  RegOf(p, g)' /\ PackOf(p, g)' /\ LoadOf(p, g)'
  <2>1. packages[p] = {} /\ loading[p] = <<>>
    BY <1>1 DEF Closed
  <2>2. frame[p][g].at = "none" /\ RegOf(p, g)
    BY <2>1, ClosedIsEmpty DEF AInv, PInv
  <2>. QED
    BY <1>1, <2>1, <2>2, EmptyStore
<1>. QED
  BY <1>4, <1>5 DEF LocalInv

\* What is published is right.
LEMMA PublishedStep ==
    ASSUME AInv, Promised, [Next]_vars, NEW f \in File
    PROVE  RecOf(f)' /\ HonestOf(f)'
<1>0. RecOf(f) /\ HonestOf(f)
  BY DEF AInv, PInv
<1>1. RecOf(f)'
  <2>1. ASSUME NEW p \in Process, Publish(p) PROVE RecOf(f)'
    <3>1. /\ loading[p] # <<>> /\ Me(p).at = "publish"
          /\ rec' = [rec EXCEPT ![Top(p)] = Record(p)]
      BY <2>1 DEF Publish, At
    <3>2. /\ Top(p) \in File /\ Me(p) = frame[p][Top(p)] /\ LoadOf(p, Top(p))
      BY <3>1, TopLoad
    <3>3. /\ Record(p).text = src[Top(p)].text /\ Record(p).deps = Want(Top(p))
          /\ Sound(Top(p))
      BY <3>1, <3>2 DEF LoadOf, Record
    <3>4. Record(p).deps = {} => Record(p).id = LeafTree(Record(p).text)
      BY DEF Record, Fold, LeafTree
    <3>5. f # Top(p) => rec'[f] = rec[f]
      BY <3>1
    <3>6. f = Top(p) => rec'[f] = Record(p)
      BY <3>1, <3>2 DEF AInv, TInv, ImagesOK
    <3>. QED
      BY <1>0, <3>3, <3>4, <3>5, <3>6 DEF RecOf, Want, Sound
  <2>2. CASE rec' = rec
    BY <1>0, <2>2 DEF RecOf
  <2>. QED
    BY <2>1, <2>2 DEF Next, vars, Step, Begin, ReadSource, Verify, LoadNext, Fail,
       ReuseRegistered, KeyPanic, LoadArtifact, RejectArtifact, CompileFails, Compile,
       SkipStore, StoreArtifact, StoreFails, CloseStore, Crash, Edit
<1>2. HonestOf(f)'
  <2>1. ASSUME NEW p \in Process, StoreArtifact(p) PROVE HonestOf(f)'
    <3>1. /\ loading[p] # <<>> /\ art' = [art EXCEPT ![Top(p)] = reg[p][Top(p)]]
      BY <2>1 DEF StoreArtifact, At
    <3>2. Top(p) \in File /\ RegOf(p, Top(p))
      BY <3>1, TopLoad
    <3>3. f # Top(p) => art'[f] = art[f]
      BY <3>1
    <3>4. f = Top(p) => art'[f] = reg[p][f]
      BY <3>1, <3>2 DEF AInv, TInv, ImagesOK
    <3>. QED
      BY <1>0, <3>2, <3>3, <3>4 DEF HonestOf, RegOf
  <2>2. CASE art' = art
    BY <1>0, <2>2 DEF HonestOf
  <2>. QED
    BY <2>1, <2>2 DEF Next, vars, Step, Begin, ReadSource, Verify, LoadNext, Fail,
       ReuseRegistered, KeyPanic, LoadArtifact, RejectArtifact, CompileFails, Compile,
       SkipStore, StoreFails, Publish, CloseStore, Crash, Edit
<1>. QED
  BY <1>1, <1>2

LEMMA PInvStep ==
    ASSUME AInv, Promised, NoneIsNoRecord, [Next]_vars
    PROVE  PInv'
<1>1. LocalInv' /\ \A g \in File : src'[g].lib = None
  <2>1. ASSUME UNCHANGED src PROVE \A g \in File : src'[g].lib = None
    BY <2>1 DEF AInv, PInv
  <2>2. ASSUME NEW p \in Process,
               \/ Step(p) \/ StoreFails(p) \/ CloseStore(p) \/ Crash(p)
               \/ \E f \in File : Begin(p, f)
        PROVE  UNCHANGED src /\ LocalInv'
    <3>1. UNCHANGED src
      BY <2>2 DEF Step, Begin, ReadSource, Verify, LoadNext, Fail, ReuseRegistered, KeyPanic,
         LoadArtifact, RejectArtifact, CompileFails, Compile, SkipStore, StoreArtifact,
         StoreFails, Publish, CloseStore, Crash
    <3>. QED
      BY <2>2, <3>1, LoadStep, DroppedStore
  <2>3. CASE vars' = vars
    <3>1. UNCHANGED <<src, reg, packages, frame>>
      BY <2>3 DEF vars
    <3>2. ASSUME NEW q \in Process, NEW f \in File
          PROVE  RegOf(q, f)' /\ PackOf(q, f)' /\ LoadOf(q, f)'
      <4>1. f \notin packages'[q] => PackOf(q, f)'
        BY DEF PackOf
      <4>. QED
        BY <3>1, <4>1, PartsStay
    <3>. QED
      BY <2>1, <3>1, <3>2 DEF LocalInv
  <2>. QED
    BY <2>1, <2>2, <2>3, EditStep DEF Next
<1>. QED
  BY <1>1, PublishedStep DEF PInv, LocalInv

LEMMA PromiseInvariant ==
    ASSUME Promised, NoneIsNoRecord
    PROVE  Spec => []AInv
<1>1. Init => PInv
  <2>. SUFFICES ASSUME Init PROVE PInv
    OBVIOUS
  <2>1. \A f \in File : src[f].lib = None
    BY DEF Init, Promised, Source
  <2>2. \A f \in File : rec[f] = None /\ art[f] = None
    BY DEF Init, Nothing
  <2>3. ASSUME NEW p \in Process, NEW f \in File
        PROVE  packages[p] = {} /\ reg[p][f] = None /\ frame[p][f].at = "none"
    BY DEF Init, Nothing, NoFrames, NoFrame
  <2>. QED
    BY <2>1, <2>2, <2>3 DEF PInv, RecOf, HonestOf, RegOf, PackOf, LoadOf
<1>2. TInv /\ IInv /\ PInv /\ [Next]_vars => PInv'
  BY PInvStep DEF AInv
<1>4. Init => IInv
  BY DEF Init, IInv, Typed, Orderly, NoFrames, NoFrame, Nothing, Framed
<1>5. IInv /\ [Next]_vars => IInv'
  BY IInvStep
<1>. QED
  BY <1>1, <1>2, <1>4, <1>5, TypeInvariant, PTL DEF Spec, AInv

-----------------------------------------------------------------------------
\* A loaded package refers to the very modules its process holds for its
\* imports, whoever compiled it, with kills and refused writes between any two
\* steps of any process (load_artifact, build_package).
THEOREM ReferencesResolve ==
    ASSUME Promised, NoneIsNoRecord
    PROVE  Spec => []RefsResolve
<1>1. AInv => RefsResolve
  <2>. SUFFICES ASSUME AInv, NEW p \in Process, NEW f \in packages[p], NEW g \in packages[p],
                       Refers(reg[p][f], g)
                PROVE  reg[p][f].code.on[g] = reg[p][g].code
    BY DEF RefsResolve
  <2>1. f \in File /\ g \in File
    BY DEF AInv, TInv, RestOK
  <2>2. reg[p][f].code = ColdTree(f) /\ reg[p][g].code = ColdTree(g)
    BY <2>1 DEF AInv, PInv, Right, PackOf
  <2>3. g \in Want(f)
    BY <2>2 DEF Refers, ColdTree
  <2>4. ColdTree(g) = LeafTree(src[g].text)
    BY <2>1, <2>3, ImportsAreLeaves
  <2>. QED
    BY <2>2, <2>3, <2>4 DEF ColdTree
<1>. QED
  BY <1>1, PromiseInvariant, PTL

\* An artifact's identity is its content: comparing identities, which is all a
\* load does, compares artifacts (artifact_identity, load_artifact).
THEOREM HeadersHonest ==
    ASSUME Promised, NoneIsNoRecord
    PROVE  Spec => []HeadersAreHonest
<1>1. AInv => HeadersAreHonest
  BY DEF AInv, PInv, HonestOf, HeadersAreHonest
<1>. QED
  BY <1>1, PromiseInvariant, PTL

\* What one process has loaded the next one reuses, until a process is killed
\* or a write refused: the record is verified and its identity is the artifact's
\* (publish, verify, try_reuse).
THEOREM ReuseFollows ==
    ASSUME Promised, NoneIsNoRecord
    PROVE  Spec => []NextRunReuses
<1>1. AInv => NextRunReuses
  <2>. SUFFICES ASSUME AInv, counts.crash = 0, counts.store = 0,
                       NEW p \in Process \ Shared, NEW f \in packages[p], Storable(f)
                PROVE  /\ UpToDate(f, src[f].text)
                       /\ HeaderMatches(f, Fold(src[f].text, None, rec[f].deps))
    BY DEF NextRunReuses, Storable
  <2>1. f \in File /\ PackOf(p, f)
    BY DEF AInv, TInv, RestOK, PInv
  <2>2. Current(f) /\ Kept(f) /\ Want(f) \subseteq packages[p]
    BY <2>1 DEF PackOf
  <2>3. rec[f].deps = Want(f)
    BY <2>1, <2>2 DEF Current, Matches, AInv, PInv, RecOf, Want
  <2>4. ASSUME NEW g \in Want(f)
        PROVE  g \in File \ {f} /\ Current(g) /\ rec[g].deps = {}
    <3>1. g \in File /\ g # f /\ Want(g) = {} /\ Storable(g)
      BY <2>1, ImportsAreLeaves
    <3>2. Current(g)
      BY <2>2, <3>1 DEF AInv, PInv, PackOf
    <3>. QED
      BY <3>1, <3>2 DEF Current, Matches, AInv, PInv, RecOf, Want
  <2>5. UpToDate(f, src[f].text)
    <3>1. Want(f) \in SUBSET (File \ {f})
      BY <2>4
    <3>. QED
      BY <2>2, <2>3, <2>4, <3>1 DEF UpToDate, Current
  <2>6. Fold(src[f].text, None, Want(f)) = ColdTree(f)
    BY <2>1, <2>4, FoldIsCold
  <2>. QED
    BY <2>2, <2>3, <2>5, <2>6 DEF HeaderMatches, Kept
<1>. QED
  BY <1>1, PromiseInvariant, PTL

-----------------------------------------------------------------------------
(* The refinement of ColdCompile.  Where imports are one deep the recursive *)
(* definition of a cold compile has a solution that can be written down.   *)

\* Only what a file imports matters to its compile.
LEMMA BuiltOver ==
    ASSUME NEW s, NEW f, NEW a, NEW b, \A g \in Imports[f, s[f].text] : a[g] = b[g]
    PROVE  Promise!Built(s, f, a) = Promise!Built(s, f, b)
  BY DEF Promise!Built

Unroll(s, c) ==
    [busy \in SUBSET File |->
        [f \in File |-> IF f \in busy THEN None
                        ELSE Promise!Built(s, f, c[busy \cup {f}])]]

LEMMA ColdIsUnrolled ==
    ASSUME NEW s, \E c : c = Unroll(s, c)
    PROVE  \E c : c = Unroll(s, c) /\ Promise!Cold(s) = c[{}]
<1>. DEFINE C == CHOOSE c : c = Unroll(s, c)
<1>1. C = Unroll(s, C)
  OBVIOUS
<1>2. Promise!Cold(s) = C[{}]
  BY DEF Promise!Cold, Unroll
<1>. QED
  BY <1>1, <1>2

LEMMA ColdExists ==
    ASSUME Promised, NEW s \in [File -> Source]
    PROVE  \E c : c = Unroll(s, c)
<1>. DEFINE Leaves(busy) == [g \in File |-> IF g \in busy THEN None
                                            ELSE Promise!Built(s, g, Nothing)]
            c == [busy \in SUBSET File |->
                     [f \in File |-> IF f \in busy THEN None
                                     ELSE Promise!Built(s, f, Leaves(busy \cup {f}))]]
<1>1. \A f \in File : s[f].text \in Version
  BY DEF Source
<1>2. ASSUME NEW busy \in SUBSET File, NEW f \in File
      PROVE  Promise!Built(s, f, Leaves(busy \cup {f}))
               = Promise!Built(s, f, c[busy \cup {f}])
  <2>. DEFINE b == busy \cup {f}
  <2>1. ASSUME NEW g \in Imports[f, s[f].text]
        PROVE  Leaves(b)[g] = c[b][g]
    <3>1. g \in File /\ b \in SUBSET File
      BY <1>1
    <3>2. Imports[g, s[g].text] = {}
      BY <1>1, <3>1 DEF Promised
    <3>3. Promise!Built(s, g, Nothing) = Promise!Built(s, g, Leaves(b \cup {g}))
      BY <3>2, BuiltOver
    <3>4. Leaves(b)[g] = IF g \in b THEN None ELSE Promise!Built(s, g, Nothing)
      BY <3>1
    <3>5. c[b][g] = IF g \in b THEN None ELSE Promise!Built(s, g, Leaves(b \cup {g}))
      BY <3>1
    <3>. QED
      BY <3>3, <3>4, <3>5
  <2>. HIDE DEF Leaves, c
  <2>. QED
    BY <2>1, BuiltOver
<1>3. c = Unroll(s, c)
  <2>. HIDE DEF c
  <2>1. c = [busy \in SUBSET File |->
               [f \in File |-> IF f \in busy THEN None
                               ELSE Promise!Built(s, f, Leaves(busy \cup {f}))]]
    BY DEF c
  <2>. HIDE DEF Leaves
  <2>. QED
    BY <1>2, <2>1 DEF Unroll
<1>. QED
  BY <1>3

\* A cold compile of a file that compiles, with its imports.
LEMMA ColdIs ==
    ASSUME AInv, Promised, NoneIsNoRecord, NEW f \in File, Sound(f),
           \A g \in Want(f) : Sound(g)
    PROVE  Promise!Cold(src)[f] = ColdTree(f) /\ ColdTree(f) # None
<1>1. src \in [File -> Source] /\ \A g \in File : src[g].lib = None
  BY DEF AInv, TInv, ImagesOK, PInv
<1>2. PICK c : c = Unroll(src, c) /\ Promise!Cold(src) = c[{}]
  BY <1>1, ColdExists, ColdIsUnrolled
<1>3. ASSUME NEW busy \in SUBSET File, NEW g \in File, g \notin busy
      PROVE  c[busy][g] = Promise!Built(src, g, c[busy \cup {g}])
  <2>1. c[busy] = [h \in File |-> IF h \in busy THEN None
                                  ELSE Promise!Built(src, h, c[busy \cup {h}])]
    BY <1>2 DEF Unroll
  <2>. QED
    BY <1>3, <2>1
<1>4. ASSUME NEW g \in Want(f) PROVE c[{f}][g] = LeafTree(src[g].text)
  <2>1. g \in File /\ g # f /\ Want(g) = {} /\ ColdTree(g) = LeafTree(src[g].text)
    BY ImportsAreLeaves
  <2>2. c[{f}][g] = Promise!Built(src, g, c[{f} \cup {g}])
    BY <1>3, <2>1
  <2>3. \A d : Promise!Built(src, g, d) = ColdTree(g)
    BY <1>1, <1>4, <2>1 DEF Promise!Built, Sound, Want, ColdTree
  <2>. QED
    BY <2>1, <2>2, <2>3
<1>5. \A g \in Want(f) : c[{f}][g] # None
  BY <1>4 DEF LeafTree, NoneIsNoRecord
<1>6. Promise!Built(src, f, c[{f}]) = ColdTree(f)
  BY <1>1, <1>4, <1>5 DEF Promise!Built, Sound, Want, ColdTree
<1>7. c[{}][f] = Promise!Built(src, f, c[{f}])
  <2>1. {} \cup {f} = {f}
    OBVIOUS
  <2>2. c[{}][f] = Promise!Built(src, f, c[{} \cup {f}])
    BY <1>3
  <2>. QED
    BY <2>1, <2>2
<1>8. ColdTree(f) # None
  BY DEF ColdTree, NoneIsNoRecord
<1>. QED
  BY <1>2, <1>6, <1>7, <1>8

\* What the store of p answers for f.
Answer(p, f) == IF f \in packages[p] THEN reg[p][f].code ELSE None

\* A load that succeeds answers what a cold compile would, and is the only one
\* whose answer changes.
LEMMA DoneLoads ==
    ASSUME AInv, AInv', LocalInv', Promised, NoneIsNoRecord, UNCHANGED src,
           NEW p \in Process, loading[p] # <<>>, Done(p), NEW f \in File, f = Top(p),
           \A q \in Process : q # p => reg'[q] = reg[q],
           \A g \in File : g # f => reg'[p][g] = reg[p][g]
    PROVE  Promise!Load(p, f)
<1>1. /\ packages'[p] = packages[p] \cup {f} /\ f \notin packages[p]
      /\ \A q \in Process : q # p => packages'[q] = packages[q]
  BY DoneFrames, TopLoad
<1>2. PackOf(p, f)' /\ RegOf(p, f)' /\ \A g \in File : PackOf(p, g)'
  BY DEF LocalInv
<1>3. /\ Sound(f) /\ Want(f) \subseteq packages'[p] /\ reg'[p][f].code = ColdTree(f)
  BY <1>1, <1>2 DEF PackOf, Right, Sound, Want, ColdTree
<1>4. ASSUME NEW g \in Want(f) PROVE Sound(g)
  <2>1. g \in File /\ PackOf(p, g)'
    BY <1>2, ImportsAreLeaves
  <2>. QED
    BY <1>3, <2>1 DEF PackOf, Sound
<1>5. Promise!Cold(src)[f] = ColdTree(f) /\ ColdTree(f) # None
  BY <1>3, <1>4, ColdIs
<1>6. ASSUME NEW q \in Process, NEW g \in File
      PROVE  Answer(q, g)' = IF q = p /\ g = f THEN ColdTree(f) ELSE Answer(q, g)
  BY <1>1, <1>3 DEF Answer
<1>7. [q \in Process |-> [g \in File |-> Answer(q, g)]]'
        = [[q \in Process |-> [g \in File |-> Answer(q, g)]]
              EXCEPT ![p] = [[g \in File |-> Answer(p, g)] EXCEPT ![f] = ColdTree(f)]]
  <2>1. [g \in File |-> Answer(p, g)]'
          = [[g \in File |-> Answer(p, g)] EXCEPT ![f] = ColdTree(f)]
    BY <1>6
  <2>2. ASSUME NEW q \in Process, q # p
        PROVE  [g \in File |-> Answer(q, g)]' = [g \in File |-> Answer(q, g)]
    BY <1>6, <2>2
  <2>. QED
    BY <2>1, <2>2
<1>. QED
  BY <1>5, <1>7 DEF Promise!Load, Answer

\* No answer changes.
LEMMA NoAnswerChanges ==
    ASSUME AInv, UNCHANGED <<src, packages>>,
           \A q \in Process : \A g \in packages[q] : reg'[q][g] = reg[q][g]
    PROVE  UNCHANGED Promise!vars
<1>1. ASSUME NEW q \in Process, NEW g \in File PROVE Answer(q, g)' = Answer(q, g)
  BY DEF Answer
<1>2. [q \in Process |-> [g \in File |-> Answer(q, g)]]'
        = [q \in Process |-> [g \in File |-> Answer(q, g)]]
  BY <1>1
<1>. QED
  BY <1>2 DEF Promise!vars, Answer

\* The store of p is dropped, or its process dies.
LEMMA DroppedForgets ==
    ASSUME AInv, NEW p \in Process, CloseStore(p) \/ Crash(p) \/ KeyPanic(p)
    PROVE  Promise!Forget(p)
<1>1. /\ UNCHANGED src /\ packages' = [packages EXCEPT ![p] = {}]
      /\ reg' = [reg EXCEPT ![p] = Nothing] \/ reg' = reg
  BY DEF CloseStore, Crash, KeyPanic
<1>2. DOMAIN packages = Process /\ DOMAIN reg = Process
  BY DEF AInv, IInv
<1>3. ASSUME NEW q \in Process, NEW g \in File
      PROVE  Answer(q, g)' = IF q = p THEN None ELSE Answer(q, g)
  BY <1>1, <1>2 DEF Answer
<1>4. [q \in Process |-> [g \in File |-> Answer(q, g)]]'
        = [[q \in Process |-> [g \in File |-> Answer(q, g)]]
              EXCEPT ![p] = [g \in File |-> None]]
  BY <1>3
<1>. QED
  BY <1>1, <1>4 DEF Promise!Forget, Promise!Nothing, Answer

LEMMA RefinementStep ==
    ASSUME AInv, AInv', Promised, NoneIsNoRecord, [Next]_vars
    PROVE  [Promise!Next]_(Promise!vars)
<1>0. LocalInv'
  BY DEF AInv, PInv, LocalInv
<1>2. ASSUME NEW p \in Process, LoadArtifact(p) PROVE Promise!Next
  <2>1. /\ loading[p] # <<>> /\ Done(p) /\ UNCHANGED src
        /\ reg' = [reg EXCEPT ![p] = [@ EXCEPT ![Top(p)] = art[Top(p)]]]
    BY <1>2 DEF LoadArtifact, Reusing, At
  <2>2. PICK f \in File : f = Top(p)
    BY <2>1, TopLoad
  <2>3. /\ \A q \in Process : q # p => reg'[q] = reg[q]
        /\ \A g \in File : g # f => reg'[p][g] = reg[p][g]
    BY <2>1, <2>2 DEF AInv, TInv, ImagesOK
  <2>4. Promise!Load(p, f)
    BY <1>0, <2>1, <2>2, <2>3, DoneLoads
  <2>. QED
    BY <2>4 DEF Promise!Next
<1>3. ASSUME NEW p \in Process, ReuseRegistered(p) \/ SkipStore(p) \/ Publish(p)
      PROVE  Promise!Next
  <2>1. loading[p] # <<>> /\ Done(p) /\ UNCHANGED <<src, reg>>
    BY <1>3 DEF ReuseRegistered, Reusing, SkipStore, Publish, At
  <2>2. PICK f \in File : f = Top(p)
    BY <2>1, TopLoad
  <2>3. Promise!Load(p, f)
    BY <1>0, <2>1, <2>2, DoneLoads
  <2>. QED
    BY <2>3 DEF Promise!Next
<1>5. ASSUME NEW p \in Process, Compile(p) PROVE UNCHANGED Promise!vars
  <2>1. /\ loading[p] # <<>> /\ UNCHANGED <<src, packages>>
        /\ reg' = [reg EXCEPT ![p] = [@ EXCEPT ![Top(p)] = Frozen(p)]]
    BY <1>5 DEF Compile, Buildable, At
  <2>2. Top(p) \notin packages[p]
    BY <2>1, TopLoad
  <2>3. \A q \in Process : \A g \in packages[q] : reg'[q][g] = reg[q][g]
    BY <2>1, <2>2 DEF AInv, TInv, ImagesOK
  <2>. QED
    BY <2>1, <2>3, NoAnswerChanges
<1>6. ASSUME NEW p \in Process, CloseStore(p) \/ Crash(p) \/ KeyPanic(p)
      PROVE  Promise!Next
  BY <1>6, DroppedForgets DEF Promise!Next
<1>7. ASSUME NEW f \in File, Edit(f) PROVE Promise!Next
  <2>1. /\ UNCHANGED <<reg, packages>>
        /\ \E s \in Source : src' = [src EXCEPT ![f] = s]
    BY <1>7 DEF Edit, AInv, TInv, ImagesOK, Source
  <2>2. Promise!Edit
    BY <2>1 DEF Promise!Edit, Promise!Source, Source
  <2>. QED
    BY <2>2 DEF Promise!Next
<1>8. CASE UNCHANGED <<src, packages, reg>>
  BY <1>8, NoAnswerChanges
<1>. QED
  BY <1>2, <1>3, <1>5, <1>6, <1>7, <1>8 DEF Next, vars, Step, Begin, ReadSource,
     Verify, LoadNext, Fail, RejectArtifact, CompileFails, StoreArtifact, StoreFails

\* The artifact store implements a compiler without a cache: whatever any
\* process has loaded is what a cold compile of the sources would give, whoever
\* compiled it and whatever was killed or refused since (try_reuse,
\* build_package).
THEOREM ImplementsCold ==
    ASSUME Promised, NoneIsNoRecord
    PROVE  Spec => ImplementsColdCompile
<1>1. Init => Promise!Init
  BY DEF Init, Promise!Init, Promise!Nothing, Promise!Source, Source
<1>2. AInv /\ AInv' /\ [Next]_vars => [Promise!Next]_(Promise!vars)
  BY RefinementStep
<1>. QED
  BY <1>1, <1>2, PromiseInvariant, PTL DEF Spec, ImplementsColdCompile, Promise!Spec

\* A process that dies of a module its registry kept dies of one that the sources
\* do not compile to any more: the panic is never a false alarm (try_reuse).
THEOREM PanicsOfOldModules ==
    ASSUME Promised, NoneIsNoRecord
    PROVE  Spec => PanicsAreOfOldModules
<1>1. ASSUME AInv, [Next]_vars, NEW p \in panicked' \ panicked
      PROVE  reg[p][Top(p)].code # Promise!Cold(src)[Top(p)]
  <2>1. p \in Process /\ KeyPanic(p)
    BY <1>1 DEF Next, vars, Step, Begin, ReadSource, Verify, LoadNext, Fail,
       ReuseRegistered, KeyPanic, LoadArtifact, RejectArtifact, CompileFails, Compile,
       SkipStore, StoreArtifact, StoreFails, Publish, CloseStore, Crash, Edit
  <2>2. /\ loading[p] # <<>> /\ Me(p).at = "deps" /\ Settled(p)
        /\ reg[p][Top(p)] # None /\ reg[p][Top(p)].id # Me(p).id
    BY <2>1 DEF KeyPanic, Reusing, At
  <2>3. PICK f \in File : f = Top(p)
    BY <1>1, <2>1, <2>2, TopLoad
  <2>4. /\ Me(p).id = ColdTree(f) /\ Me(p).want = Want(f) /\ Me(p).failed = {} /\ Sound(f)
        /\ RegOf(p, f)
    BY <1>1, <2>1, <2>2, <2>3, TopLoad DEF LoadOf, FrameOK
  <2>5. ASSUME NEW g \in Want(f) PROVE Sound(g)
    <3>1. g \in File /\ g \in packages[p]
      BY <1>1, <2>2, <2>4, ImportsAreLeaves DEF Settled
    <3>. QED
      BY <1>1, <2>1, <3>1 DEF AInv, PInv, PackOf
  <2>6. Promise!Cold(src)[f] = ColdTree(f)
    BY <1>1, <2>4, <2>5, ColdIs
  <2>. QED
    BY <2>2, <2>3, <2>4, <2>6 DEF RegOf
<1>2. AInv /\ [Next]_vars =>
        [\A p \in panicked' \ panicked :
            reg[p][Top(p)].code # Promise!Cold(src)[Top(p)]]_vars
  BY <1>1
<1>. QED
  BY <1>2, PromiseInvariant, PTL DEF Spec, PanicsAreOfOldModules
=============================================================================
