-------------------------- MODULE CompositorProofs --------------------------
(***************************************************************************)
(* Proofs about the two models of the plugin on the compositor's main       *)
(* thread, each on its own.                                                 *)
(*                                                                         *)
(* PluginExport, for any number of commits, pipelines, resizes and GL       *)
(* failures: its types, that a pipeline copies whole pictures although no   *)
(* lock keeps the compositor out of the slots, and that each path publishes *)
(* in order.                                                                *)
(*                                                                         *)
(* PluginGuard, for every threshold of the breaker and any number of        *)
(* events: its types, with them that the window is drawn over at most once  *)
(* a frame, and that an unloaded plugin leaves nothing behind.              *)
(***************************************************************************)
EXTENDS PluginExport, PluginGuard, FiniteSetTheorems, TLAPS

USE BoundsAssumption

----------------------------------------------------------------------------
(* PluginExport: the inductive invariant                                    *)

\* What was published last is no newer than the surface.
PublishedInv == pub \in [commit : None..commit, size : 0..2, via : {"none", "copy", "zero-copy"}]

\* A read on its way is no older than the picture the copying path published last.
ReadOrder ==
  \A i \in Slots : pend[i].on =>
    pend[i].commit <= commit /\ (pub.via = "copy" => pub.commit <= pend[i].commit)

\* The same of the renders of the zero-copy path, which are in the order they
\* were issued.
RenderOrder ==
  /\ \A i \in 1..Len(zPend) :
       zPend[i].commit <= commit /\ (pub.via = "zero-copy" => pub.commit <= zPend[i].commit)
  /\ \A i, j \in 1..Len(zPend) : i <= j => zPend[i].commit <= zPend[j].commit

\* The slot of frame n holds a picture of the size in the header.
Whole(n) == slot[SlotOf(n)].commit # None /\ slot[SlotOf(n)].size = dims[SlotOf(n)]

\* Until a numbered render is dropped the numbers of the renders on their way are
\* those after exp_seq, so that none goes to its slot; those the GPU has not
\* finished are the last of them; and on the copying path there are none.
NumberInv == ~skipped =>
  /\ zcOk /\ (mpc = "copy" => zPend = <<>>)
  /\ \A i \in 1..Len(zPend) : zPend[i].seq = expSeq + i
  /\ IF zPend = <<>> THEN zSeq <= expSeq ELSE zSeq = expSeq + Len(zPend)
  /\ Len(gpu) <= Len(zPend)
  /\ \A j \in 1..Len(gpu) : gpu[j] = zPend[Len(zPend) - Len(gpu) + j]

\* Then a render that has finished and the newest frame are whole, and the slot
\* that is being copied is as it was as long as it is the newest.
NewestInv == ~skipped =>
  /\ \A i \in 1..Len(zPend) - Len(gpu) :
       slot[SlotOf(expSeq + i)] = [commit |-> zPend[i].commit, size |-> zPend[i].size]
  /\ expSeq # 0 => Whole(expSeq)
  /\ rd # 0 => rd <= expSeq /\ (rd = expSeq => slot[SlotOf(rd)] = seen)

\* Until anything is rendered the last three frames are whole, and the slot that is
\* being copied stays as it was until it is their turn again.
CopyInv == zSeq = 0 =>
  /\ zPend = <<>> /\ gpu = <<>>
  /\ \A n \in 1..expSeq : expSeq < n + 3 => Whole(n)
  /\ rd # 0 => rd <= expSeq /\ (expSeq < rd + 3 => slot[SlotOf(rd)] = seen)

OrderInv == PublishedInv /\ ReadOrder /\ RenderOrder
SlotInv == NumberInv /\ NewestInv /\ CopyInv
IInv == TypeOK /\ OrderInv /\ SlotInv

----------------------------------------------------------------------------
(* PluginExport: lemmas on its operators                                    *)

\* Frames share a slot only if they are three apart.
LEMMA SlotsApart ==
  ASSUME NEW n \in Nat
  PROVE  SlotOf(n) \in Slots /\ SlotOf(n + 1) # SlotOf(n) /\ SlotOf(n + 2) # SlotOf(n)
BY DEF SlotOf, Slots

LEMMA Appended ==
  ASSUME NEW S, NEW q \in Seq(S), NEW x \in S
  PROVE  /\ Append(q, x) \in Seq(S) /\ Len(Append(q, x)) = Len(q) + 1
         /\ \A i \in 1..Len(q) : Append(q, x)[i] = q[i]
         /\ Append(q, x)[Len(q) + 1] = x
OBVIOUS

LEMMA Taken ==
  ASSUME NEW S, NEW q \in Seq(S), q # <<>>
  PROVE  /\ Head(q) = q[1] /\ Head(q) \in S /\ Len(q) >= 1
         /\ Tail(q) \in Seq(S) /\ Len(Tail(q)) = Len(q) - 1
         /\ \A i \in 1..Len(q) - 1 : Tail(q)[i] = q[i + 1]
OBVIOUS

LEMMA MaxOfTwo ==
  ASSUME NEW a \in Int, NEW b \in Int
  PROVE  Max({a, b}) \in {a, b} /\ Max({a, b}) >= a /\ Max({a, b}) >= b
<1>1. \E x \in {a, b} : \A y \in {a, b} : x >= y
  <2>1. CASE a >= b
    BY <2>1
  <2>2. CASE b >= a
    BY <2>2
  <2> QED
    BY <2>1, <2>2
<1>2. Max({a, b}) \in {a, b} /\ \A y \in {a, b} : Max({a, b}) >= y
  BY <1>1, Zenon DEF Max
<1> QED
  BY <1>2

LEMMA MinOfTwo ==
  ASSUME NEW a \in Int, NEW b \in Int
  PROVE  Min({a, b}) \in {a, b} /\ Min({a, b}) <= a /\ Min({a, b}) <= b
<1>1. \E x \in {a, b} : \A y \in {a, b} : x <= y
  <2>1. CASE a <= b
    BY <2>1
  <2>2. CASE b <= a
    BY <2>2
  <2> QED
    BY <2>1, <2>2
<1>2. Min({a, b}) \in {a, b} /\ \A y \in {a, b} : Min({a, b}) <= y
  BY <1>1, Zenon DEF Min
<1> QED
  BY <1>2

\* The slots that hold anything worth looking for have a least one.
LEMMA LeastSlot ==
  ASSUME NEW S \in SUBSET Slots, S # {}
  PROVE  Min(S) \in S
<1>1. \E x \in S : \A y \in S : x <= y
  <2>1. CASE 0 \in S
    BY <2>1 DEF Slots
  <2>2. CASE 0 \notin S /\ 1 \in S
    BY <2>2 DEF Slots
  <2>3. CASE 0 \notin S /\ 1 \notin S
    <3>1. \A x \in S : x = 2
      BY <2>3 DEF Slots
    <3> QED
      BY <3>1
  <2> QED
    BY <2>1, <2>2, <2>3
<1> QED
  BY <1>1, Zenon DEF Min

\* Best() finds a read that is on, if any has waited long enough.
LEMMA BestIsOn ==
  ASSUME NEW reads \in [Slots -> Reads], Best(reads) # None
  PROVE  Best(reads) \in Slots /\ reads[Best(reads)].on
<1> DEFINE old == {i \in Slots : reads[i].on /\ reads[i].age = 2}
           newest == {i \in old : \A j \in old : reads[j].commit <= reads[i].commit}
<1>1. old # {} /\ Best(reads) = Min(newest)
  BY Zenon DEF Best
<1>2. \A i \in Slots : reads[i].commit \in Int
  BY DEF Reads
<1>3. newest # {}
  <2>1. PICK a \in old : TRUE
    BY <1>1
  <2>2. PICK b \in old : /\ reads[b].commit >= reads[a].commit
                           /\ \A j \in old : j <= 1 => reads[j].commit <= reads[b].commit
    BY <2>1, <1>2 DEF Slots
  <2>3. CASE 2 \in old /\ reads[2].commit > reads[b].commit
    BY <2>2, <2>3, <1>2 DEF Slots
  <2>4. CASE ~(2 \in old /\ reads[2].commit > reads[b].commit)
    BY <2>2, <2>4, <1>2 DEF Slots
  <2> QED
    BY <2>3, <2>4
<1>4. Min(newest) \in newest
  BY <1>3, LeastSlot
<1> QED
  BY <1>1, <1>4

\* The renders on their way after an exportZc(): the last of those before.
LEMMA StillOnTheirWay ==
  ASSUME RendersOK
  PROVE  /\ Current \in {<<>>, zPend} /\ Current \in Seq(Renders) /\ Len(Current) <= 2
         /\ Finished \in 0..Len(Current)
         /\ OnItsWay \in Seq(Renders) /\ Len(OnItsWay) = Len(Current) - Finished
         /\ \A i \in 1..Len(OnItsWay) : OnItsWay[i] = Current[Finished + i]
<1>1. /\ Current \in {<<>>, zPend} /\ Current \in Seq(Renders) /\ Len(Current) <= 2
  BY DEF Current, RendersOK
<1>2. Finished \in 0..Len(Current)
  <2> DEFINE F == {i \in DOMAIN Current : \A j \in DOMAIN gpu : gpu[j].seq # Current[i].seq}
  <2>1. DOMAIN Current = 1..Len(Current) /\ Len(Current) \in Nat
    BY <1>1
  <2>2. F \in SUBSET (1..Len(Current))
    BY <2>1
  <2>3. IsFiniteSet(1..Len(Current)) /\ Cardinality(1..Len(Current)) = Len(Current)
    <3> DEFINE n == Len(Current)
    <3> HIDE DEF n
    <3>1. n \in Nat
      BY <2>1 DEF n
    <3>2. IsFiniteSet(1..n) /\ Cardinality(1..n) = IF 1 > n THEN 0 ELSE n - 1 + 1
      BY <3>1, FS_Interval
    <3> QED
      BY <3>1, <3>2 DEF n
  <2>4. IsFiniteSet(F) /\ Cardinality(F) <= Len(Current)
    BY <2>2, <2>3, FS_Subset
  <2>5. Cardinality(F) \in Nat
    BY <2>4, FS_CardinalityType
  <2> QED
    BY <2>1, <2>4, <2>5 DEF Finished
<1>3. /\ OnItsWay \in Seq(Renders) /\ Len(OnItsWay) = Len(Current) - Finished
      /\ \A i \in 1..Len(OnItsWay) : OnItsWay[i] = Current[Finished + i]
  <2> DEFINE n == Finished
  <2> HIDE DEF n
  <2>1. Current \in Seq(Renders) /\ n \in 0..Len(Current)
    BY <1>1, <1>2 DEF n
  <2>2. /\ SubSeq(Current, n + 1, Len(Current)) \in Seq(Renders)
        /\ Len(SubSeq(Current, n + 1, Len(Current))) = Len(Current) - n
        /\ \A i \in 1..Len(Current) - n : SubSeq(Current, n + 1, Len(Current))[i] = Current[n + i]
    BY <2>1
  <2> QED
    BY <2>2 DEF OnItsWay, n
<1> QED
  BY <1>1, <1>2, <1>3

\* As long as none was dropped, those the GPU still has to do are not finished.
LEMMA FinishedFirst ==
  ASSUME TypeOK, NumberInv, ~skipped, Current = zPend
  PROVE  Finished = Len(zPend) - Len(gpu)
<1> DEFINE k == Len(zPend) - Len(gpu)
           F == {i \in DOMAIN Current : \A j \in DOMAIN gpu : gpu[j].seq # Current[i].seq}
<1>1. /\ Len(zPend) \in Nat /\ Len(gpu) \in Nat /\ k \in Nat /\ expSeq \in Nat
      /\ DOMAIN Current = 1..Len(zPend) /\ DOMAIN gpu = 1..Len(gpu)
  BY DEF TypeOK, RendersOK, HeaderOK, NumberInv
<1>2. \A i \in 1..Len(zPend) : Current[i].seq = expSeq + i
  BY DEF NumberInv
<1>3. \A j \in 1..Len(gpu) : k + j \in 1..Len(zPend) /\ gpu[j].seq = expSeq + k + j
  <2> SUFFICES ASSUME NEW j \in 1..Len(gpu)
               PROVE  k + j \in 1..Len(zPend) /\ gpu[j].seq = expSeq + k + j
    OBVIOUS
  <2>1. gpu[j] = zPend[k + j]
    BY DEF NumberInv
  <2>2. k + j \in 1..Len(zPend)
    BY <1>1
  <2>3. Current[k + j].seq = expSeq + (k + j)
    BY <1>2, <2>2
  <2> QED
    BY <2>1, <2>2, <2>3, <1>1
<1>4. F = 1..k
  <2>1. ASSUME NEW i \in 1..k PROVE i \in F
    BY <1>1, <1>2, <1>3
  <2>2. ASSUME NEW i \in F PROVE i \in 1..k
    <3>1. i \in 1..Len(zPend) /\ \A j \in 1..Len(gpu) : gpu[j].seq # Current[i].seq
      BY <1>1
    <3>2. CASE i > k
      <4>1. i - k \in 1..Len(gpu)
        BY <3>1, <3>2, <1>1
      <4>2. gpu[i - k].seq = expSeq + k + (i - k)
        BY <4>1, <1>3
      <4>3. gpu[i - k].seq = Current[i].seq
        BY <4>2, <3>1, <1>1, <1>2
      <4> QED
        BY <4>1, <4>3, <3>1
    <3> QED
      BY <3>1, <3>2, <1>1
  <2> QED
    BY <2>1, <2>2
<1>5. Cardinality(1..k) = k
  BY <1>1, FS_Interval
<1> QED
  BY <1>4, <1>5 DEF Finished

----------------------------------------------------------------------------
(* PluginExport: types                                                      *)

\* A part stays as long as the variables it speaks of do.
LEMMA Untouched ==
  /\ WindowOK /\ UNCHANGED <<surface, wishes>> => WindowOK'
  /\ HeaderOK /\ UNCHANGED header => HeaderOK'
  /\ PipelineOK /\ UNCHANGED <<bridge, pipeline>> => PipelineOK'
  /\ DrawOK /\ UNCHANGED <<commit, repaint, change, inFlight>> => DrawOK'
  /\ RendersOK /\ UNCHANGED zcopy => RendersOK'
  /\ ReadsOK /\ UNCHANGED ring => ReadsOK'
<1>1. WindowOK /\ UNCHANGED <<surface, wishes>> => WindowOK'
  BY DEF WindowOK, surface, wishes
<1>2. HeaderOK /\ UNCHANGED header => HeaderOK'
  BY DEF HeaderOK, header
<1>3. PipelineOK /\ UNCHANGED <<bridge, pipeline>> => PipelineOK'
  BY DEF PipelineOK, bridge, pipeline
<1>4. DrawOK /\ UNCHANGED <<commit, repaint, change, inFlight>> => DrawOK'
  BY DEF DrawOK, repaint, change
<1>5. RendersOK /\ UNCHANGED zcopy => RendersOK'
  BY DEF RendersOK, zcopy
<1>6. ReadsOK /\ UNCHANGED ring => ReadsOK'
  BY DEF ReadsOK, ring
<1> QED
  BY <1>1, <1>2, <1>3, <1>4, <1>5, <1>6

\* Pictures are drawn in a size the window can have.
LEMMA Sizes ==
  ASSUME WindowOK
  PROVE  ExportSize \in 1..2
BY DEF WindowOK, ExportSize

\* The number of the next render is above the last one's and above exp_seq.
LEMMA NextNumber ==
  ASSUME zSeq \in Nat, expSeq' \in Nat
  PROVE  /\ NextSeq \in Nat /\ NextSeq > zSeq /\ NextSeq > expSeq'
         /\ NextSeq \in {zSeq + 1, expSeq' + 1}
<1>1. Max({zSeq, expSeq'}) \in {zSeq, expSeq'}
      /\ Max({zSeq, expSeq'}) >= zSeq /\ Max({zSeq, expSeq'}) >= expSeq'
  <2>1. zSeq \in Int /\ expSeq' \in Int
    OBVIOUS
  <2> QED
    BY <2>1, MaxOfTwo
<1> QED
  BY <1>1 DEF NextSeq

\* A render that is published is one of those waited for.
LEMMA Publishing ==
  ASSUME TypeOK, PublishNewest
  PROVE  expSeq' \in Nat /\ dims' \in [Slots -> 0..2]
<1>1. CASE Finished = 0
  BY <1>1 DEF PublishNewest, TypeOK, HeaderOK
<1>2. CASE Finished # 0
  <2> DEFINE p == Current[Finished]
  <2>1. p \in Renders
    BY <1>2, StillOnTheirWay DEF TypeOK
  <2>2. expSeq' = p.seq /\ dims' = [dims EXCEPT ![SlotOf(p.seq)] = p.size]
    BY <1>2 DEF PublishNewest
  <2>3. p.seq \in Nat /\ p.size \in 0..2 /\ SlotOf(p.seq) \in Slots
    BY <2>1, SlotsApart DEF Renders
  <2> QED
    BY <2>2, <2>3 DEF TypeOK, HeaderOK
<1> QED
  BY <1>1, <1>2

LEMMA TornIsOne == Torn \in Pictures
BY DEF Torn, Pictures, None

\* A render that is begun: its slot is torn until the GPU has finished it.
LEMMA Rendering ==
  ASSUME TypeOK, mpc # "idle", expSeq' \in Nat, Render
  PROVE  /\ due' = FALSE /\ zSeq' \in Nat /\ slot' \in [Slots -> Pictures]
         /\ gpu' \in Seq(Renders)
         /\ [seq |-> zSeq', commit |-> commit, size |-> size] \in Renders
<1>1. zSeq' \in Nat /\ due' = FALSE
  BY NextNumber DEF Render, TypeOK, RendersOK
<1>2. [seq |-> zSeq', commit |-> commit, size |-> size] \in Renders
  BY <1>1 DEF Renders, TypeOK, WindowOK, DrawOK
<1>3. gpu' \in Seq(Renders)
  BY <1>2, Appended DEF Render, TypeOK, RendersOK
<1>4. slot' \in [Slots -> Pictures]
  BY TornIsOne DEF Render, TypeOK, HeaderOK
<1> QED
  BY <1>1, <1>2, <1>3, <1>4

\* A read that is begun, in buffers of the size of the picture.
LEMMA Reading ==
  ASSUME TypeOK, mpc # "idle"
  PROVE  /\ BeginRead \in [Slots -> Reads]
         /\ \A i \in Slots : BeginRead[i].on =>
              /\ BeginRead[i].size = IF WantRead THEN size ELSE pboSize
              /\ BeginRead[i] = pend[i] \/ BeginRead[i].commit = commit
<1>1. NoRead \in Reads /\ ~NoRead.on
  BY DEF NoRead, Reads, TypeOK, WindowOK
<1>2. CASE WantRead
  <2> DEFINE read == [on |-> TRUE, age |-> 0, commit |-> commit, size |-> size,
                      behind |-> Len(gpu)]
  <2>1. read \in Reads /\ read.size = size /\ read.commit = commit
    BY DEF Reads, TypeOK, WindowOK, DrawOK, RendersOK
  <2>2. /\ Kept \in [Slots -> Reads]
        /\ \A i \in Slots : Kept[i].on => Kept[i].size = size /\ Kept[i] = pend[i]
    BY <1>1 DEF Kept, Empty, TypeOK, ReadsOK
  <2>3. Index \in Slots
    BY DEF Index, TypeOK, ReadsOK, Slots
  <2>4. BeginRead = [Kept EXCEPT ![Index] = read]
    BY <1>2 DEF BeginRead
  <2>5. BeginRead \in [Slots -> Reads]
    BY <2>1, <2>2, <2>4
  <2>6. \A i \in Slots : BeginRead[i] = IF i = Index THEN read ELSE Kept[i]
    BY <2>2, <2>4
  <2> QED
    BY <1>2, <2>1, <2>2, <2>5, <2>6
<1>3. CASE ~WantRead
  BY <1>3 DEF BeginRead, TypeOK, ReadsOK
<1> QED
  BY <1>2, <1>3

\* The reads that stay after a delivery are as they were, but older, and newer than
\* the one that was delivered.
LEMMA Staying ==
  ASSUME NEW reads \in [Slots -> Reads], NEW best \in Slots \cup {None}
  PROVE  /\ Aged(Rest(reads, best)) \in [Slots -> Reads]
         /\ \A i \in Slots : Aged(Rest(reads, best))[i].on =>
              /\ reads[i].on
              /\ Aged(Rest(reads, best))[i].size = reads[i].size
              /\ Aged(Rest(reads, best))[i].commit = reads[i].commit
              /\ best # None => reads[i].commit > reads[best].commit
<1> DEFINE rest == Rest(reads, best)
<1>1. /\ rest \in [Slots -> Reads]
      /\ \A i \in Slots : rest[i].on =>
           /\ reads[i].on /\ rest[i].size = reads[i].size /\ rest[i].commit = reads[i].commit
           /\ best # None => reads[i].commit > reads[best].commit
  <2>1. CASE best = None
    BY <2>1 DEF Rest
  <2>2. CASE best # None
    <3>1. rest = [i \in Slots |->
                   [reads[i] EXCEPT !.on = reads[i].on /\ reads[i].commit > reads[best].commit]]
      BY <2>2 DEF Rest
    <3>2. \A i \in Slots :
            /\ [reads[i] EXCEPT !.on =
                  reads[i].on /\ reads[i].commit > reads[best].commit] \in Reads
            /\ rest[i].on <=> reads[i].on /\ reads[i].commit > reads[best].commit
            /\ rest[i].size = reads[i].size /\ rest[i].commit = reads[i].commit
      <4> SUFFICES ASSUME NEW i \in Slots
                   PROVE  /\ [reads[i] EXCEPT !.on =
                                reads[i].on /\ reads[i].commit > reads[best].commit] \in Reads
                          /\ rest[i].on <=> reads[i].on /\ reads[i].commit > reads[best].commit
                          /\ rest[i].size = reads[i].size /\ rest[i].commit = reads[i].commit
        OBVIOUS
      <4>1. reads[i] \in Reads
        OBVIOUS
      <4> DEFINE newer == reads[i].on /\ reads[i].commit > reads[best].commit
      <4>2. rest[i] = [reads[i] EXCEPT !.on = newer]
        BY <3>1
      <4>3. newer \in BOOLEAN
        BY <4>1 DEF Reads
      <4> HIDE DEF newer
      <4>4. /\ [reads[i] EXCEPT !.on = newer] \in Reads
            /\ [reads[i] EXCEPT !.on = newer].on = newer
            /\ [reads[i] EXCEPT !.on = newer].size = reads[i].size
            /\ [reads[i] EXCEPT !.on = newer].commit = reads[i].commit
        BY <4>1, <4>3 DEF Reads
      <4> QED
        BY <4>2, <4>4 DEF newer
    <3>3. rest = [i \in Slots |-> rest[i]] /\ \A i \in Slots : rest[i] \in Reads
      BY <3>1, <3>2
    <3> HIDE DEF rest
    <3>4. rest \in [Slots -> Reads]
      BY <3>3
    <3> QED
      BY <2>2, <3>2, <3>4
  <2> QED
    BY <2>1, <2>2
<1> HIDE DEF rest
<1> DEFINE aged == Aged(rest)
<1>2. NoRead \in Reads /\ ~NoRead.on
  BY DEF NoRead, Reads
<1>3. ASSUME NEW i \in Slots, rest[i].on
      PROVE  /\ [rest[i] EXCEPT !.age = Min({rest[i].age + 1, 2})] \in Reads
             /\ aged[i] = [rest[i] EXCEPT !.age = Min({rest[i].age + 1, 2})]
             /\ aged[i].size = rest[i].size /\ aged[i].commit = rest[i].commit
  <2>1. rest[i] \in Reads /\ rest[i].age \in 0..2
    BY <1>1 DEF Reads
  <2>2. Min({rest[i].age + 1, 2}) \in 0..2
    <3> DEFINE a == rest[i].age + 1
    <3>1. a \in Int /\ a >= 1
      BY <2>1
    <3> HIDE DEF a
    <3>2. Min({a, 2}) \in {a, 2} /\ Min({a, 2}) <= 2
      BY <3>1, MinOfTwo
    <3>3. Min({a, 2}) \in 0..2
      BY <3>1, <3>2
    <3> QED
      BY <3>3 DEF a
  <2>3. aged[i] = [rest[i] EXCEPT !.age = Min({rest[i].age + 1, 2})]
    BY <1>3 DEF Aged
  <2> HIDE DEF aged
  <2> QED
    BY <2>1, <2>2, <2>3 DEF Reads
<1>4. ASSUME NEW i \in Slots, ~rest[i].on
      PROVE  aged[i] = NoRead
  BY <1>4 DEF Aged
<1>5. aged = [i \in Slots |-> aged[i]]
  BY DEF Aged
<1> HIDE DEF aged
<1>6. aged \in [Slots -> Reads]
  BY <1>2, <1>3, <1>4, <1>5
<1>7. \A i \in Slots : aged[i].on => rest[i].on
  BY <1>2, <1>4
<1> QED
  BY <1>1, <1>3, <1>6, <1>7 DEF aged, rest

\* What the window, the pipeline, the bridge thread and the timer do keeps the types.
LEMMA TypesAround ==
  ASSUME TypeOK, Window \/ Pipeline \/ BridgeThread \/ Timer \/ Due
  PROVE  TypeOK'
<1> USE DEF TypeOK
<1>1. CASE Commit
  <2>1. WindowOK'
    BY <1>1 DEF Commit, WindowOK, wishes
  <2>2. DrawOK'
    BY <1>1 DEF Commit, WindowOK, DrawOK, change, None
  <2> QED
    BY <1>1, <2>1, <2>2, Untouched DEF Commit, history
<1>2. CASE SetWant
  <2>1. WindowOK'
    BY <1>2 DEF SetWant, WindowOK, surface
  <2> QED
    BY <1>2, <2>1, Untouched DEF SetWant, surface, history
<1>3. CASE Connect
  <2>1. PipelineOK'
    BY <1>3, TornIsOne DEF Connect, PipelineOK
  <2> QED
    BY <1>3, <2>1, Untouched DEF Connect, surface, history
<1>4. CASE Declare
  <2>1. WindowOK' /\ PipelineOK'
    BY <1>4 DEF Declare, WindowOK, PipelineOK, surface, bridge
  <2> QED
    BY <1>4, <2>1, Untouched DEF Declare, surface, history
<1>5. CASE Leave
  <2>1. PipelineOK'
    BY <1>5, TornIsOne DEF Leave, PipelineOK, bridge
  <2> QED
    BY <1>5, <2>1, Untouched DEF Leave, surface, history
<1>6. CASE BeginCopy
  <2>1. expSeq \in Nat /\ slot[SlotOf(expSeq)] \in Pictures
    BY SlotsApart DEF HeaderOK
  <2>2. PipelineOK'
    BY <1>6, <2>1, TornIsOne DEF BeginCopy, PipelineOK, bridge
  <2> QED
    BY <1>6, <2>2, Untouched DEF BeginCopy, surface, history
<1>7. CASE EndCopy
  <2>1. PipelineOK'
    BY <1>7, TornIsOne DEF EndCopy, PipelineOK, bridge
  <2> QED
    BY <1>7, <2>1, Untouched DEF EndCopy, surface, history
<1>8. CASE Replace
  <2>1. WindowOK' /\ PipelineOK'
    BY <1>8 DEF Replace, WindowOK, PipelineOK, surface, pipeline
  <2> QED
    BY <1>8, <2>1, Untouched DEF Replace, surface, history
<1>9. CASE Install
  <2>1. PipelineOK' /\ DrawOK'
    BY <1>9 DEF Install, PipelineOK, DrawOK, surface, pipeline, repaint
  <2> QED
    BY <1>9, <2>1, Untouched DEF Install, surface, history
<1>10. CASE Hangup
  <2>1. PipelineOK'
    BY <1>10 DEF Hangup, PipelineOK, pipeline
  <2> QED
    BY <1>10, <2>1, Untouched DEF Hangup, surface, history
<1>11. CASE Timer
  <2>1. DrawOK'
    BY <1>11 DEF Timer, DrawOK, surface, change
  <2> QED
    BY <1>11, <2>1, Untouched DEF Timer, surface, history
<1>12. CASE Due
  <2>1. DrawOK'
    BY <1>12 DEF Due, DrawOK, surface, change
  <2> QED
    BY <1>12, <2>1, Untouched DEF Due, surface, history
<1> QED
  BY <1>1, <1>2, <1>3, <1>4, <1>5, <1>6, <1>7, <1>8, <1>9, <1>10, <1>11, <1>12
     DEF Window, Pipeline, BridgeThread

\* So does the zero-copy path.
LEMMA TypesZeroCopy ==
  ASSUME TypeOK, ZeroCopy \/ ZeroCopyFails
  PROVE  TypeOK'
<1>1. expSeq' \in Nat /\ dims' \in [Slots -> 0..2]
  BY Publishing DEF ZeroCopy, ZeroCopyFails
<1>2. /\ WindowOK' /\ PipelineOK' /\ ReadsOK'
      /\ size' = size /\ commit' = commit /\ damaged' = damaged /\ newConn' = newConn
  BY Untouched DEF ZeroCopy, ZeroCopyFails, TypeOK, surface
<1>3. CASE ZeroCopy
  <2>1. /\ OnItsWay \in Seq(Renders) /\ Len(OnItsWay) <= 2
    BY StillOnTheirWay DEF TypeOK
  <2>2. CASE WantRender
    <3> DEFINE r == [seq |-> zSeq', commit |-> commit, size |-> size]
    <3>1. Render /\ lastRead' = commit /\ zPend' = Append(OnItsWay, r) /\ spoilt' = FALSE
      BY <1>3, <2>2 DEF ZeroCopy
    <3>2. /\ due' = FALSE /\ zSeq' \in Nat /\ slot' \in [Slots -> Pictures]
          /\ gpu' \in Seq(Renders) /\ r \in Renders
      BY <1>1, <1>3, <3>1, Rendering DEF ZeroCopy
    <3>3. zPend' \in Seq(Renders) /\ Len(zPend') <= 2
      BY <2>1, <2>2, <3>1, <3>2, Appended DEF WantRender
    <3>4. HeaderOK' /\ RendersOK'
      BY <1>1, <1>3, <3>2, <3>3 DEF HeaderOK, RendersOK, ZeroCopy, TypeOK
    <3>5. DrawOK'
      <4>1. commit \in None..commit
        BY DEF TypeOK, WindowOK, None
      <4>2. inFlight' \in BOOLEAN /\ mpc' = "idle"
        BY <1>3, Zenon DEF ZeroCopy
      <4> QED
        BY <1>2, <3>1, <3>2, <4>1, <4>2 DEF DrawOK, TypeOK
    <3>6. skipped' \in BOOLEAN /\ spoilt' \in BOOLEAN
      BY <1>3, <3>1 DEF ZeroCopy, TypeOK
    <3> QED
      BY <1>2, <3>4, <3>5, <3>6 DEF TypeOK
  <2>3. CASE ~WantRender
    <3>1. zPend' = OnItsWay /\ UNCHANGED <<due, zSeq, gpu, slot, lastRead, spoilt>>
      BY <1>3, <2>3 DEF ZeroCopy
    <3>2. HeaderOK' /\ RendersOK'
      BY <1>1, <1>3, <2>1, <3>1 DEF HeaderOK, RendersOK, ZeroCopy, TypeOK
    <3>3. DrawOK'
      BY <1>2, <1>3, <3>1 DEF DrawOK, ZeroCopy, TypeOK
    <3>4. skipped' \in BOOLEAN /\ spoilt' \in BOOLEAN
      BY <1>3, <3>1 DEF ZeroCopy, TypeOK
    <3> QED
      BY <1>2, <3>2, <3>3, <3>4 DEF TypeOK
  <2> QED
    BY <2>2, <2>3
<1>4. CASE ZeroCopyFails
  <2>1. /\ due' = FALSE /\ zSeq' \in Nat /\ slot' \in [Slots -> Pictures]
        /\ gpu' \in Seq(Renders)
    <3>1. CASE Render
      BY <1>1, <1>4, <3>1, Rendering DEF ZeroCopyFails
    <3>2. CASE ~Render
      BY <1>1, <1>4, <3>2, NextNumber DEF ZeroCopyFails, TypeOK, HeaderOK, RendersOK
    <3> QED
      BY <3>1, <3>2
  <2>2. zPend' \in Seq(Renders) /\ Len(zPend') <= 2
    BY <1>4 DEF ZeroCopyFails
  <2>3. HeaderOK' /\ RendersOK'
    BY <1>1, <1>4, <2>1, <2>2 DEF HeaderOK, RendersOK, ZeroCopyFails
  <2>4. DrawOK'
    <3>1. lastRead' \in None..commit
      BY <1>4 DEF ZeroCopyFails, TypeOK, WindowOK, None
    <3>2. mpc # "idle" /\ mpc' = "copy" /\ inFlight' = inFlight
      BY <1>4 DEF ZeroCopyFails
    <3> QED
      BY <1>2, <2>1, <3>1, <3>2 DEF DrawOK, TypeOK
  <2> QED
    BY <1>2, <1>4, <2>3, <2>4 DEF TypeOK, ZeroCopyFails
<1> QED
  BY <1>3, <1>4

\* And the copying path.
LEMMA TypesCopy ==
  ASSUME TypeOK, Copy
  PROVE  TypeOK'
<1> DEFINE reads == BeginRead
           best == Best(reads)
<1>1. /\ WindowOK' /\ PipelineOK' /\ RendersOK'
      /\ size' = size /\ commit' = commit /\ damaged' = damaged /\ newConn' = newConn
  BY Untouched DEF Copy, TypeOK, surface
<1>2. /\ reads \in [Slots -> Reads]
      /\ \A i \in Slots : reads[i].on => reads[i].size = IF WantRead THEN size ELSE pboSize
  BY Reading DEF Copy
<1>3. best \in Slots \cup {None}
  BY <1>2, BestIsOn
<1>4. ReadsOK'
  <2>1. pend' = Aged(Rest(reads, best))
    BY DEF Copy
  <2>2. pboSize' = (IF WantRead THEN size ELSE pboSize) /\ pboSize' \in 0..2
    BY DEF Copy, TypeOK, DrawOK, ReadsOK
  <2>3. /\ pend' \in [Slots -> Reads]
        /\ \A i \in Slots : pend'[i].on => reads[i].on /\ pend'[i].size = reads[i].size
    BY <1>2, <1>3, <2>1, Staying
  <2>4. pboIdx' \in Slots
    <3>1. Index \in Slots
      BY DEF Index, TypeOK, ReadsOK, Slots
    <3> QED
      BY <3>1 DEF Copy, TypeOK, ReadsOK, Slots
  <2> QED
    BY <1>2, <2>2, <2>3, <2>4 DEF ReadsOK
<1>5. HeaderOK'
  <2>1. CASE best = None
    BY <2>1 DEF Copy, header, TypeOK, HeaderOK
  <2>2. CASE best # None
    <3> DEFINE read == reads[best]
    <3>1. read \in Reads
      BY <1>2, <1>3, <2>2
    <3>2. [commit |-> read.commit, size |-> read.size] \in Pictures /\ read.size \in 0..2
      BY <3>1 DEF Reads, Pictures, TypeOK, WindowOK, None
    <3>3. /\ expSeq' = expSeq + 1
          /\ slot' = [slot EXCEPT ![SlotOf(NextExp)] = [commit |-> read.commit, size |-> read.size]]
          /\ dims' = [dims EXCEPT ![SlotOf(expSeq + 1)] = read.size]
      BY <2>2 DEF Copy, Deliver
    <3> HIDE DEF read
    <3>4. expSeq' \in Nat /\ dims' \in [Slots -> 0..2]
      <4>1. expSeq \in Nat /\ dims \in [Slots -> 0..2]
        BY DEF TypeOK, HeaderOK
      <4>2. expSeq' \in Nat
        BY <3>3, <4>1
      <4>3. dims' \in [Slots -> 0..2]
        BY <3>2, <3>3, <4>1
      <4> QED
        BY <4>2, <4>3
    <3>5. slot' \in [Slots -> Pictures]
      BY <3>2, <3>3 DEF TypeOK, HeaderOK
    <3> QED
      BY <3>4, <3>5 DEF HeaderOK
  <2> QED
    BY <2>1, <2>2
<1>6. DrawOK'
  <2>1. inFlight' \in BOOLEAN
    BY Zenon DEF Copy
  <2>2. due' \in BOOLEAN
    BY Zenon DEF Copy
  <2>3. lastRead' \in None..commit
    BY DEF Copy, TypeOK, DrawOK, WindowOK, None
  <2> QED
    BY <1>1, <2>1, <2>2, <2>3 DEF Copy, DrawOK, TypeOK
<1>7. skipped' \in BOOLEAN /\ spoilt' \in BOOLEAN
  BY Zenon DEF Copy, TypeOK
<1> QED
  BY <1>1, <1>4, <1>5, <1>6, <1>7 DEF TypeOK

\* And the rest of a draw, and the GPU.
LEMMA TypesDraw ==
  ASSUME TypeOK, BeginDraw \/ Choose \/ CopyEmptied \/ CopyFails \/ GpuDone
  PROVE  TypeOK'
<1>1. CASE BeginDraw
  <2>1. DrawOK'
    <3>1. size' \in 0..2 /\ (mpc' # "idle" => size' # 0)
      BY <1>1, Sizes DEF BeginDraw, TypeOK, DrawOK
    <3>2. lastRead' \in None..commit
      BY <1>1 DEF BeginDraw, TypeOK, DrawOK, WindowOK, None
    <3>3. /\ damaged' \in BOOLEAN /\ due' \in BOOLEAN /\ newConn' \in BOOLEAN
          /\ inFlight' \in BOOLEAN /\ mpc' \in {"idle", "choose", "zero-copy", "copy"}
      BY <1>1 DEF BeginDraw, TypeOK, DrawOK
    <3> QED
      BY <1>1, <3>1, <3>2, <3>3 DEF BeginDraw, DrawOK, surface
  <2> QED
    BY <1>1, <2>1, Untouched DEF BeginDraw, TypeOK, surface, history
<1>2. CASE Choose
  <2>1. DrawOK'
    BY <1>2 DEF Choose, TypeOK, DrawOK, surface, change
  <2>2. RendersOK'
    <3>1. zPend' = zPend \/ zPend' = <<>>
      BY <1>2 DEF Choose
    <3>2. <<>> \in Seq(Renders) /\ Len(<<>>) <= 2
      OBVIOUS
    <3>3. zPend' \in Seq(Renders) /\ Len(zPend') <= 2
      BY <3>1, <3>2, Zenon DEF TypeOK, RendersOK
    <3> QED
      BY <1>2, <3>3 DEF Choose, TypeOK, RendersOK
  <2>3. skipped' \in BOOLEAN /\ spoilt' \in BOOLEAN
    BY <1>2, Zenon DEF Choose, TypeOK
  <2> QED
    BY <1>2, <2>1, <2>2, <2>3, Untouched DEF Choose, TypeOK, surface
<1>3. CASE CopyEmptied
  <2>1. DrawOK'
    BY <1>3 DEF CopyEmptied, TypeOK, DrawOK, surface, change
  <2>2. ReadsOK'
    <3>1. NoRead \in Reads /\ ~NoRead.on
      BY DEF NoRead, Reads, TypeOK, WindowOK
    <3>2. Empty \in [Slots -> Reads] /\ \A i \in Slots : ~Empty[i].on
      BY <3>1 DEF Empty
    <3> QED
      BY <1>3, <3>2 DEF CopyEmptied, TypeOK, DrawOK, ReadsOK, Slots
  <2> QED
    BY <1>3, <2>1, <2>2, Untouched DEF CopyEmptied, TypeOK, surface, history
<1>4. CASE CopyFails
  <2>1. lastRead' \in None..commit
    BY <1>4 DEF CopyFails, TypeOK, DrawOK, WindowOK, None
  <2>2. due' \in BOOLEAN
    BY <1>4 DEF CopyFails, TypeOK, DrawOK
  <2>3. DrawOK'
    BY <1>4, <2>1, <2>2 DEF CopyFails, TypeOK, DrawOK, surface
  <2> QED
    BY <1>4, <2>3, Untouched DEF CopyFails, TypeOK, surface
<1>5. CASE GpuDone
  <2>1. Head(gpu) \in Renders /\ gpu' \in Seq(Renders)
    BY <1>5, Taken DEF GpuDone, TypeOK, RendersOK
  <2>2. HeaderOK'
    <3>1. [commit |-> Head(gpu).commit, size |-> Head(gpu).size] \in Pictures
      BY <2>1 DEF Renders, Pictures, TypeOK, WindowOK, None
    <3> QED
      BY <1>5, <3>1 DEF GpuDone, TypeOK, HeaderOK
  <2>3. RendersOK'
    BY <1>5, <2>1 DEF GpuDone, TypeOK, RendersOK
  <2>4. ReadsOK'
    <3>1. ASSUME NEW i \in Slots
          PROVE  /\ [pend[i] EXCEPT !.behind = Max({pend[i].behind - 1, 0})] \in Reads
                 /\ [pend[i] EXCEPT !.behind = Max({pend[i].behind - 1, 0})].on = pend[i].on
                 /\ [pend[i] EXCEPT !.behind = Max({pend[i].behind - 1, 0})].size = pend[i].size
      <4>1. pend[i] \in Reads /\ pend[i].behind \in Nat
        BY DEF TypeOK, ReadsOK, Reads
      <4> DEFINE a == pend[i].behind - 1
      <4>2. a \in Int
        BY <4>1
      <4> HIDE DEF a
      <4>3. Max({a, 0}) \in Nat
        BY <4>2, MaxOfTwo
      <4> QED
        BY <4>1, <4>3 DEF a, Reads
    <3>2. pend' = [i \in Slots |-> [pend[i] EXCEPT !.behind = Max({pend[i].behind - 1, 0})]]
      BY <1>5 DEF GpuDone
    <3>3. pboIdx' = pboIdx /\ pboSize' = pboSize
      BY <1>5 DEF GpuDone
    <3> QED
      BY <3>1, <3>2, <3>3 DEF TypeOK, ReadsOK
  <2> QED
    BY <1>5, <2>2, <2>3, <2>4, Untouched DEF GpuDone, TypeOK, surface, history
<1> QED
  BY <1>1, <1>2, <1>3, <1>4, <1>5

LEMMA Types == TypeOK /\ [Next]_vars => TypeOK'
<1>1. TypeOK /\ UNCHANGED vars => TypeOK'
  BY Untouched DEF vars, surface, history, TypeOK
<1> QED
  BY <1>1, TypesAround, TypesZeroCopy, TypesCopy, TypesDraw DEF Next, Draw

----------------------------------------------------------------------------
(* PluginExport: the order of the pictures                                  *)

InOrderStep == pub' # pub /\ pub'.via = pub.via => pub'.commit >= pub.commit

\* The renders still on their way are those before, without the first ones.
LEMMA OnItsWayOrdered ==
  ASSUME TypeOK, RenderOrder
  PROVE  /\ \A i \in 1..Len(OnItsWay) : OnItsWay[i].commit <= commit
         /\ \A i, j \in 1..Len(OnItsWay) : i <= j => OnItsWay[i].commit <= OnItsWay[j].commit
         /\ Finished # 0 =>
              \A i \in 1..Len(OnItsWay) : Current[Finished].commit <= OnItsWay[i].commit
         /\ Finished = 0 /\ pub.via = "zero-copy" =>
              \A i \in 1..Len(OnItsWay) : pub.commit <= OnItsWay[i].commit
<1> DEFINE n == Finished
           w == OnItsWay
<1>1. /\ Current \in {<<>>, zPend} /\ Len(Current) \in Nat /\ n \in 0..Len(Current)
      /\ Len(w) = Len(Current) - n
      /\ \A i \in 1..Len(w) : w[i] = Current[n + i]
  BY StillOnTheirWay DEF TypeOK
<1> HIDE DEF n, w
<1>2. CASE Current = <<>>
  <2>1. Len(w) = 0 /\ n = 0
    BY <1>1, <1>2
  <2> QED
    BY <2>1 DEF n, w
<1>3. CASE Current = zPend
  <2>1. \A i \in 1..Len(w) : n + i \in 1..Len(zPend) /\ w[i] = zPend[n + i]
    BY <1>1, <1>3
  <2>2. \A i \in 1..Len(w) : w[i].commit <= commit
    BY <2>1 DEF RenderOrder
  <2>3. ASSUME NEW i \in 1..Len(w), NEW j \in 1..Len(w), i <= j
        PROVE  w[i].commit <= w[j].commit
    <3>1. n + i \in 1..Len(zPend) /\ n + j \in 1..Len(zPend) /\ n + i <= n + j
      BY <1>1, <2>1, <2>3
    <3>2. zPend[n + i].commit <= zPend[n + j].commit
      BY <3>1 DEF RenderOrder
    <3> QED
      BY <2>1, <3>2
  <2>4. ASSUME n # 0, NEW i \in 1..Len(w)
        PROVE  Current[n].commit <= w[i].commit
    <3>1. n \in 1..Len(zPend) /\ n + i \in 1..Len(zPend) /\ n <= n + i
      BY <1>1, <1>3, <2>1, <2>4
    <3>2. zPend[n].commit <= zPend[n + i].commit
      BY <3>1 DEF RenderOrder
    <3> QED
      BY <1>3, <2>1, <3>2
  <2>5. ASSUME n = 0, pub.via = "zero-copy", NEW i \in 1..Len(w)
        PROVE  pub.commit <= w[i].commit
    <3>1. i \in 1..Len(zPend) /\ w[i] = zPend[i]
      BY <1>1, <2>1, <2>5
    <3> QED
      BY <2>5, <3>1 DEF RenderOrder
  <2> QED
    BY <2>2, <2>3, <2>4, <2>5 DEF n, w
<1> QED
  BY <1>1, <1>2, <1>3

\* Publishing the newest finished render keeps the order: it is no older than the
\* picture published last, and those after it are no older than it.
LEMMA PublishInOrder ==
  ASSUME TypeOK, OrderInv, PublishNewest, commit' = commit
  PROVE  /\ PublishedInv' /\ InOrderStep
         /\ pub' = pub \/ pub'.via = "zero-copy"
         /\ pub'.via = "zero-copy" =>
              \A i \in 1..Len(OnItsWay) : pub'.commit <= OnItsWay[i].commit
<1>1. CASE Finished = 0
  <2>1. pub' = pub
    BY <1>1 DEF PublishNewest
  <2>2. PublishedInv' /\ InOrderStep
    BY <2>1, Zenon DEF OrderInv, PublishedInv, InOrderStep
  <2>3. pub.via = "zero-copy" => \A i \in 1..Len(OnItsWay) : pub.commit <= OnItsWay[i].commit
    BY <1>1, OnItsWayOrdered, Zenon DEF OrderInv
  <2> QED
    BY <2>1, <2>2, <2>3, Zenon
<1>2. CASE Finished # 0
  <2> DEFINE p == Current[Finished]
  <2>1. /\ Current \in {<<>>, zPend} /\ Finished \in 1..Len(Current) /\ p \in Renders
    BY <1>2, StillOnTheirWay DEF TypeOK
  <2>2. Current = zPend
    BY <2>1
  <2>3. p.commit <= commit /\ (pub.via = "zero-copy" => pub.commit <= p.commit)
    BY <2>1, <2>2 DEF OrderInv, RenderOrder
  <2>4. pub' = [commit |-> p.commit, size |-> p.size, via |-> "zero-copy"]
    BY <1>2 DEF PublishNewest, Published
  <2>5. p.commit \in None..commit /\ p.size \in 0..2 /\ p.commit \in Int /\ pub.commit \in Int
    BY <2>1, <2>3 DEF Renders, TypeOK, WindowOK, None, OrderInv, PublishedInv
  <2>6. \A i \in 1..Len(OnItsWay) : p.commit <= OnItsWay[i].commit
    BY <1>2, OnItsWayOrdered, Zenon DEF OrderInv
  <2> HIDE DEF p
  <2>7. PublishedInv'
    BY <2>4, <2>5 DEF PublishedInv
  <2>8. InOrderStep
    BY <2>3, <2>4, <2>5 DEF InOrderStep
  <2>9. pub'.via = "zero-copy" /\ pub'.commit = p.commit
    BY <2>4
  <2> QED
    BY <2>6, <2>7, <2>8, <2>9, Zenon
<1> QED
  BY <1>1, <1>2

\* The zero-copy path.
LEMMA OrderZeroCopy ==
  ASSUME TypeOK, OrderInv, ZeroCopy \/ ZeroCopyFails
  PROVE  OrderInv' /\ InOrderStep
<1>1. PublishNewest /\ commit' = commit /\ pend' = pend
  BY DEF ZeroCopy, ZeroCopyFails, surface, ring
<1>2. /\ PublishedInv' /\ InOrderStep
      /\ pub' = pub \/ pub'.via = "zero-copy"
      /\ pub'.via = "zero-copy" =>
           \A i \in 1..Len(OnItsWay) : pub'.commit <= OnItsWay[i].commit
  BY <1>1, PublishInOrder
<1>3. ReadOrder'
  <2>1. pub'.via = "copy" => pub' = pub
    BY <1>2
  <2> QED
    BY <1>1, <2>1 DEF ReadOrder, OrderInv
<1>4. RenderOrder'
  <2>1. CASE ZeroCopyFails
    <3>1. Len(zPend') = 0
      BY <2>1 DEF ZeroCopyFails
    <3> QED
      BY <3>1 DEF RenderOrder
  <2>2. CASE ZeroCopy
    <3> DEFINE w == OnItsWay
    <3>1. /\ w \in Seq(Renders)
          /\ \A i \in 1..Len(w) : w[i].commit <= commit
          /\ \A i, j \in 1..Len(w) : i <= j => w[i].commit <= w[j].commit
      BY StillOnTheirWay, OnItsWayOrdered DEF TypeOK, OrderInv
    <3>2. pub'.via = "zero-copy" => \A i \in 1..Len(w) : pub'.commit <= w[i].commit
      BY <1>2
    <3>3. commit \in Int /\ pub'.commit <= commit
      BY <1>1, <1>2 DEF TypeOK, WindowOK, PublishedInv, None
    <3> HIDE DEF w
    <3>4. CASE WantRender
      <4> DEFINE r == [seq |-> zSeq', commit |-> commit, size |-> size]
      <4>1. Render /\ zPend' = Append(w, r)
        BY <2>2, <3>4 DEF ZeroCopy, w
      <4>2. r \in Renders /\ r.commit = commit
        <5>1. expSeq' \in Nat
          BY <1>1, Publishing
        <5> QED
          BY <2>2, <4>1, <5>1, Rendering DEF ZeroCopy
      <4> HIDE DEF r
      <4>3. /\ Len(zPend') = Len(w) + 1 /\ Len(w) \in Nat
            /\ \A i \in 1..Len(w) : zPend'[i] = w[i]
            /\ zPend'[Len(w) + 1] = r
        BY <3>1, <4>1, <4>2, Appended
      <4>4. \A i \in 1..Len(zPend') : i \in 1..Len(w) \/ i = Len(w) + 1
        BY <4>3
      <4>5. \A i \in 1..Len(zPend') :
              /\ zPend'[i].commit <= commit
              /\ pub'.via = "zero-copy" => pub'.commit <= zPend'[i].commit
        BY <3>1, <3>2, <3>3, <4>2, <4>3, <4>4
      <4>6. \A i, j \in 1..Len(zPend') : i <= j => zPend'[i].commit <= zPend'[j].commit
        <5> SUFFICES ASSUME NEW i \in 1..Len(zPend'), NEW j \in 1..Len(zPend'), i <= j
                     PROVE  zPend'[i].commit <= zPend'[j].commit
          OBVIOUS
        <5>1. CASE j = Len(w) + 1
          BY <4>2, <4>3, <4>5, <5>1
        <5>2. CASE j # Len(w) + 1
          <6>1. i \in 1..Len(w) /\ j \in 1..Len(w)
            BY <4>3, <5>2
          <6> QED
            BY <3>1, <4>3, <6>1
        <5> QED
          BY <5>1, <5>2
      <4> QED
        BY <1>1, <4>5, <4>6 DEF RenderOrder
    <3>5. CASE ~WantRender
      <4>1. zPend' = w
        BY <2>2, <3>5 DEF ZeroCopy, w
      <4> QED
        BY <1>1, <3>1, <3>2, <4>1 DEF RenderOrder
    <3> QED
      BY <3>4, <3>5
  <2> QED
    BY <2>1, <2>2
<1> QED
  BY <1>2, <1>3, <1>4 DEF OrderInv

\* The copying path: the reads that stay are newer than the one that is delivered.
LEMMA OrderCopy ==
  ASSUME TypeOK, OrderInv, Copy
  PROVE  OrderInv' /\ InOrderStep
<1> DEFINE reads == BeginRead
           best == Best(reads)
<1>1. commit' = commit /\ zPend' = zPend /\ pend' = Aged(Rest(reads, best))
  BY DEF Copy, surface, zcopy
<1>2. /\ reads \in [Slots -> Reads]
      /\ \A i \in Slots : reads[i].on => reads[i] = pend[i] \/ reads[i].commit = commit
  BY Reading DEF Copy
<1>3. best # None => best \in Slots /\ reads[best].on
  BY <1>2, BestIsOn
<1>4. \A i \in Slots : pend'[i].on =>
        /\ reads[i].on /\ pend'[i].commit = reads[i].commit
        /\ best # None => reads[i].commit > reads[best].commit
  <2>1. best \in Slots \cup {None}
    BY <1>3
  <2> QED
    BY <1>1, <1>2, <2>1, Staying
<1>5. best = None => pub' = pub
  BY DEF Copy
<1>6. best # None => pub' = [commit |-> reads[best].commit, size |-> reads[best].size,
                             via |-> "copy"]
  BY DEF Copy, Deliver, Published
<1> HIDE DEF reads, best
<1>7. commit \in Int /\ pub.commit \in Int /\ pub.commit <= commit
  BY DEF TypeOK, WindowOK, OrderInv, PublishedInv, None
<1>8. \A i \in Slots : reads[i].on =>
        reads[i].commit <= commit /\ (pub.via = "copy" => pub.commit <= reads[i].commit)
  BY <1>2, <1>7 DEF OrderInv, ReadOrder
<1>9. \A i \in Slots : reads[i].commit \in Int /\ reads[i].commit \in None..MaxCommits
                       /\ reads[i].size \in 0..2
  BY <1>2 DEF Reads, None, TypeOK, WindowOK
<1>10. CASE best = None
  <2>1. PublishedInv' /\ RenderOrder' /\ InOrderStep
    BY <1>1, <1>5, <1>10 DEF OrderInv, PublishedInv, RenderOrder, InOrderStep
  <2>2. ReadOrder'
    BY <1>1, <1>4, <1>5, <1>8, <1>10 DEF ReadOrder
  <2> QED
    BY <2>1, <2>2 DEF OrderInv
<1>11. CASE best # None
  <2> DEFINE read == reads[best]
  <2>1. /\ read.commit \in Int /\ read.commit \in None..commit /\ read.size \in 0..2
        /\ pub.via = "copy" => pub.commit <= read.commit
    BY <1>3, <1>7, <1>8, <1>9, <1>11 DEF None
  <2>2. pub' = [commit |-> read.commit, size |-> read.size, via |-> "copy"]
    BY <1>6, <1>11
  <2>3. \A i \in Slots : pend'[i].on =>
          pend'[i].commit <= commit /\ read.commit <= pend'[i].commit
    BY <1>4, <1>8, <1>9, <1>11, <2>1
  <2> HIDE DEF read
  <2>4. PublishedInv' /\ InOrderStep
    BY <1>1, <1>7, <2>1, <2>2 DEF PublishedInv, InOrderStep
  <2>5. ReadOrder'
    BY <1>1, <2>2, <2>3 DEF ReadOrder
  <2>6. RenderOrder'
    BY <1>1, <2>2 DEF RenderOrder, OrderInv
  <2> QED
    BY <2>4, <2>5, <2>6 DEF OrderInv
<1> QED
  BY <1>10, <1>11

\* Every other step publishes nothing and begins nothing.
LEMMA Order ==
  ASSUME TypeOK, OrderInv, [Next]_vars
  PROVE  OrderInv' /\ InOrderStep
<1>1. CASE ZeroCopy \/ ZeroCopyFails
  BY <1>1, OrderZeroCopy
<1>2. CASE Copy
  BY <1>2, OrderCopy
<1>3. ASSUME pub' = pub, UNCHANGED <<commit, pend, zPend>>
      PROVE  OrderInv' /\ InOrderStep
  BY <1>3 DEF OrderInv, PublishedInv, ReadOrder, RenderOrder, InOrderStep
<1>4. CASE Commit
  <2>1. commit \in Int /\ commit' = commit + 1 /\ pub' = pub /\ pend' = pend /\ zPend' = zPend
    BY <1>4 DEF Commit, TypeOK, WindowOK, history, ring, zcopy
  <2>2. PublishedInv' /\ InOrderStep
    BY <2>1 DEF OrderInv, PublishedInv, InOrderStep, None
  <2>3. \A i \in Slots : pend[i].commit \in Int
    BY DEF TypeOK, ReadsOK, Reads
  <2>4. \A i \in 1..Len(zPend) : zPend[i].commit \in Int
    <3>1. \A i \in 1..Len(zPend) : zPend[i] \in Renders
      BY DEF TypeOK, RendersOK
    <3>2. \A r \in Renders : r.commit \in Int
      BY DEF Renders
    <3> QED
      BY <3>1, <3>2
  <2>5. ReadOrder'
    BY <2>1, <2>3 DEF OrderInv, ReadOrder
  <2>6. RenderOrder'
    BY <2>1, <2>4 DEF OrderInv, RenderOrder
  <2> QED
    BY <2>2, <2>5, <2>6 DEF OrderInv
<1>5. CASE Choose
  <2>1. commit' = commit /\ pub' = pub /\ pend' = pend
    BY <1>5 DEF Choose, surface, ring
  <2>2. zPend' = zPend \/ Len(zPend') = 0
    BY <1>5 DEF Choose
  <2>3. RenderOrder'
    BY <2>1, <2>2 DEF OrderInv, RenderOrder
  <2>4. PublishedInv' /\ ReadOrder' /\ InOrderStep
    BY <2>1 DEF OrderInv, PublishedInv, ReadOrder, InOrderStep
  <2> QED
    BY <2>3, <2>4 DEF OrderInv
<1>6. CASE CopyEmptied
  <2>1. commit' = commit /\ pub' = pub /\ zPend' = zPend /\ \A i \in Slots : ~pend'[i].on
    BY <1>6 DEF CopyEmptied, surface, history, zcopy, Empty, NoRead
  <2> QED
    BY <2>1 DEF OrderInv, PublishedInv, ReadOrder, RenderOrder, InOrderStep
<1>7. CASE GpuDone
  <2>1. commit' = commit /\ pub' = pub /\ zPend' = zPend
    BY <1>7 DEF GpuDone, surface, history
  <2>2. \A i \in Slots : pend'[i].on = pend[i].on /\ pend'[i].commit = pend[i].commit
    BY <1>7 DEF GpuDone, TypeOK, ReadsOK, Reads
  <2> QED
    BY <2>1, <2>2 DEF OrderInv, PublishedInv, ReadOrder, RenderOrder, InOrderStep
<1>8. CASE SetWant \/ Connect \/ Declare \/ Leave \/ BeginCopy \/ EndCopy
  BY <1>3, <1>8 DEF SetWant, Connect, Declare, Leave, BeginCopy, EndCopy, surface, ring, zcopy,
                    history
<1>9. CASE BridgeThread \/ Timer \/ Due
  BY <1>3, <1>9 DEF BridgeThread, Replace, Install, Hangup, Timer, Due, surface, ring, zcopy,
                    history
<1>10. CASE BeginDraw \/ CopyFails
  BY <1>3, <1>10 DEF BeginDraw, CopyFails, surface, ring, zcopy, history
<1>11. CASE UNCHANGED vars
  BY <1>3, <1>11 DEF vars, surface, ring, zcopy, history
<1> QED
  BY <1>1, <1>2, <1>4, <1>5, <1>6, <1>7, <1>8, <1>9, <1>10, <1>11
     DEF Next, Window, Pipeline, Draw

----------------------------------------------------------------------------
(* PluginExport: the slots                                                  *)

\* The pipeline ends or comes; a draw begins or ends without touching a slot.
LEMMA SlotsLeftAlone ==
  ASSUME SlotInv, UNCHANGED <<skipped, zcOk, zPend, expSeq, zSeq, gpu, slot, dims>>,
         mpc' = mpc \/ mpc' # "copy",
         (rd' = rd /\ seen' = seen) \/ rd' = 0
  PROVE  SlotInv'
<1>1. NumberInv'
  BY DEF SlotInv, NumberInv
<1>2. NewestInv'
  BY DEF SlotInv, NewestInv, Whole, SlotOf
<1>3. CopyInv'
  BY DEF SlotInv, CopyInv, Whole, SlotOf
<1> QED
  BY <1>1, <1>2, <1>3 DEF SlotInv

\* A copy begins with a slot that is whole.
LEMMA SlotsBeginCopy ==
  ASSUME TypeOK, SlotInv, BeginCopy
  PROVE  SlotInv'
<1>1. /\ UNCHANGED <<skipped, zcOk, zPend, expSeq, zSeq, gpu, slot, dims, mpc>>
      /\ rd' = expSeq
      /\ seen' = IF slot[SlotOf(expSeq)].size = dims[SlotOf(expSeq)]
                 THEN slot[SlotOf(expSeq)] ELSE Torn
  BY DEF BeginCopy, header, repaint, zcopy, history
<1>2. expSeq \in Nat
  BY DEF TypeOK, HeaderOK
<1>3. NumberInv'
  BY <1>1 DEF SlotInv, NumberInv
<1>4. Whole(expSeq) => seen' = slot[SlotOf(expSeq)]
  BY <1>1 DEF Whole
<1>5. NewestInv'
  BY <1>1, <1>2, <1>4 DEF SlotInv, NewestInv, Whole, SlotOf
<1>6. CopyInv'
  <2> SUFFICES ASSUME zSeq' = 0 PROVE CopyInv'
    BY DEF CopyInv
  <2>1. expSeq # 0 => Whole(expSeq)
    BY <1>1, <1>2 DEF SlotInv, CopyInv
  <2>2. /\ zPend' = <<>> /\ gpu' = <<>>
        /\ \A n \in 1..expSeq' : expSeq' < n + 3 => Whole(n)'
    BY <1>1 DEF SlotInv, CopyInv, Whole, SlotOf
  <2>3. rd' # 0 => slot'[SlotOf(rd')] = seen'
    BY <1>1, <1>4, <2>1 DEF SlotOf
  <2> QED
    BY <1>1, <1>2, <2>2, <2>3 DEF CopyInv
<1> QED
  BY <1>3, <1>5, <1>6 DEF SlotInv

\* The choice of the copying path drops nothing, or is recorded.
LEMMA SlotsChoose ==
  ASSUME SlotInv, Choose
  PROVE  SlotInv'
<1>1. /\ UNCHANGED <<zcOk, expSeq, zSeq, gpu, slot, dims, rd, seen>>
      /\ zPend' \in {zPend, <<>>}
      /\ ~skipped' => ~skipped /\ zPend' = zPend
      /\ mpc' = "copy" => ~(flag /\ zcOk) /\ zPend' = IF flag THEN zPend ELSE <<>>
  BY DEF Choose, header, pipeline
<1>2. NumberInv'
  <2> SUFFICES ASSUME ~skipped' PROVE NumberInv'
    BY DEF NumberInv
  <2>1. zcOk /\ ~skipped /\ zPend' = zPend
    BY <1>1 DEF SlotInv, NumberInv
  <2>2. mpc' = "copy" => zPend' = <<>>
    BY <1>1, <2>1
  <2> QED
    BY <1>1, <2>1, <2>2 DEF SlotInv, NumberInv
<1>3. NewestInv'
  BY <1>1 DEF SlotInv, NewestInv, Whole, SlotOf
<1>4. CopyInv'
  BY <1>1 DEF SlotInv, CopyInv, Whole, SlotOf
<1> QED
  BY <1>2, <1>3, <1>4 DEF SlotInv

\* The GPU finishes the first render it has not done: not in the slot of exp_seq.
LEMMA SlotsGpuDone ==
  ASSUME TypeOK, SlotInv, GpuDone
  PROVE  SlotInv'
<1> DEFINE L == Len(zPend)
           G == Len(gpu)
           k == L - G + 1
<1>1. /\ UNCHANGED <<skipped, zcOk, zPend, expSeq, zSeq, dims, rd, seen, mpc>>
      /\ gpu' = Tail(gpu) /\ gpu # <<>>
      /\ slot' = [slot EXCEPT ![SlotOf(Head(gpu).seq)] =
                    [commit |-> Head(gpu).commit, size |-> Head(gpu).size]]
  BY DEF GpuDone, repaint, history, pipeline
<1>2. /\ gpu \in Seq(Renders) /\ zPend \in Seq(Renders) /\ L \in Nat /\ L <= 2 /\ expSeq \in Nat
      /\ slot \in [Slots -> Pictures]
  BY DEF TypeOK, RendersOK, HeaderOK
<1>3. /\ G \in Nat /\ G >= 1 /\ Head(gpu) = gpu[1] /\ Len(gpu') = G - 1
      /\ \A j \in 1..G - 1 : gpu'[j] = gpu[j + 1]
  BY <1>1, <1>2, Taken
<1>4. CopyInv'
  BY <1>1 DEF SlotInv, CopyInv
<1>5. ASSUME ~skipped'
      PROVE  NumberInv' /\ NewestInv'
  <2>1. /\ ~skipped /\ zcOk /\ (mpc = "copy" => zPend = <<>>)
        /\ \A i \in 1..L : zPend[i].seq = expSeq + i
        /\ IF zPend = <<>> THEN zSeq <= expSeq ELSE zSeq = expSeq + L
        /\ G <= L
        /\ \A j \in 1..G : gpu[j] = zPend[L - G + j]
    BY <1>1, <1>5 DEF SlotInv, NumberInv
  <2>2. k \in 1..L /\ k \in 1..2 /\ Head(gpu) = zPend[k] /\ Head(gpu).seq = expSeq + k
    <3>1. k \in 1..L /\ k \in 1..2
      BY <1>2, <1>3, <2>1
    <3>2. 1 \in 1..G
      BY <1>3
    <3>3. gpu[1] = zPend[L - G + 1]
      BY <2>1, <3>2
    <3>4. zPend[k].seq = expSeq + k
      BY <2>1, <3>1
    <3> QED
      BY <1>3, <3>1, <3>3, <3>4
  <2>3. /\ \A i \in 1..L - G :
             slot[SlotOf(expSeq + i)] = [commit |-> zPend[i].commit, size |-> zPend[i].size]
        /\ expSeq # 0 => Whole(expSeq)
        /\ rd # 0 => rd <= expSeq /\ (rd = expSeq => slot[SlotOf(rd)] = seen)
    BY <1>1, <1>5 DEF SlotInv, NewestInv
  <2>4. NumberInv'
    <3>1. \A j \in 1..G - 1 : gpu'[j] = zPend[L - (G - 1) + j]
      <4> SUFFICES ASSUME NEW j \in 1..G - 1 PROVE gpu'[j] = zPend[L - (G - 1) + j]
        OBVIOUS
      <4>1. gpu'[j] = gpu[j + 1] /\ j + 1 \in 1..G
        BY <1>3
      <4>2. gpu[j + 1] = zPend[L - G + (j + 1)] /\ L - G + (j + 1) = L - (G - 1) + j
        BY <1>2, <1>3, <2>1, <4>1
      <4> QED
        BY <4>1, <4>2
    <3> HIDE DEF k
    <3>2. Len(gpu') = G - 1 /\ G - 1 <= L
      BY <1>2, <1>3, <2>1
    <3> QED
      BY <1>1, <2>1, <3>1, <3>2 DEF NumberInv
  <2>5. NewestInv'
    <3>1. \A i \in 0..1 : i < k => SlotOf(expSeq + i) # SlotOf(expSeq + k)
      <4>1. SlotOf(expSeq + 1) # SlotOf(expSeq) /\ SlotOf(expSeq + 2) # SlotOf(expSeq)
        BY <1>2, SlotsApart
      <4>2. SlotOf((expSeq + 1) + 1) # SlotOf(expSeq + 1)
        BY <1>2, SlotsApart
      <4>3. expSeq + 0 = expSeq /\ (expSeq + 1) + 1 = expSeq + 2
        BY <1>2
      <4> QED
        BY <2>2, <4>1, <4>2, <4>3
    <3>2. SlotOf(expSeq + k) \in Slots
      BY <1>2, <2>2, SlotsApart
    <3>3. slot' = [slot EXCEPT ![SlotOf(expSeq + k)] =
                     [commit |-> zPend[k].commit, size |-> zPend[k].size]]
      BY <1>1, <2>2
    <3>4. slot'[SlotOf(expSeq + k)] = [commit |-> zPend[k].commit, size |-> zPend[k].size]
      BY <1>2, <3>2, <3>3
    <3>5. \A i \in 0..1 : i < k => slot'[SlotOf(expSeq + i)] = slot[SlotOf(expSeq + i)]
      BY <1>2, <3>1, <3>2, <3>3
    <3>6. slot'[SlotOf(expSeq)] = slot[SlotOf(expSeq)]
      <4>1. expSeq + 0 = expSeq /\ 0 \in 0..1 /\ 0 < k
        BY <1>2, <2>2
      <4> QED
        BY <3>5, <4>1
    <3>7. ASSUME NEW i \in 1..L - (G - 1)
          PROVE  slot'[SlotOf(expSeq + i)] = [commit |-> zPend[i].commit, size |-> zPend[i].size]
      <4>1. CASE i = k
        BY <3>4, <4>1
      <4>2. CASE i # k
        <5>1. i \in 1..L - G /\ i \in 0..1 /\ i < k
          BY <1>2, <1>3, <2>1, <2>2, <4>2
        <5> QED
          BY <2>3, <3>5, <5>1
      <4> QED
        BY <4>1, <4>2
    <3>8. expSeq # 0 => Whole(expSeq)'
      BY <1>1, <2>3, <3>6 DEF Whole, SlotOf
    <3>9. rd # 0 => rd <= expSeq /\ (rd = expSeq => slot'[SlotOf(rd)] = seen)
      BY <2>3, <3>6
    <3> HIDE DEF k
    <3> QED
      BY <1>1, <1>3, <3>7, <3>8, <3>9 DEF NewestInv, Whole, SlotOf
  <2> QED
    BY <2>4, <2>5
<1>6. skipped' => NumberInv' /\ NewestInv'
  BY DEF NumberInv, NewestInv
<1> QED
  BY <1>4, <1>5, <1>6 DEF SlotInv

\* A delivery goes to the slot after the newest: not to one of the last two.
LEMMA SlotsCopy ==
  ASSUME TypeOK, SlotInv, Copy
  PROVE  SlotInv'
<1> DEFINE reads == BeginRead
           best == Best(reads)
           picture == [commit |-> reads[best].commit, size |-> reads[best].size]
<1>1. /\ UNCHANGED <<skipped, zcOk, zPend, zSeq, gpu, rd, seen>> /\ mpc' # "copy" /\ mpc = "copy"
  BY DEF Copy, zcopy, pipeline
<1>2. expSeq \in Nat /\ slot \in [Slots -> Pictures] /\ dims \in [Slots -> 0..2]
  BY DEF TypeOK, HeaderOK
<1>3. CASE best = None
  <2>1. UNCHANGED <<expSeq, slot, dims>>
    BY <1>3 DEF Copy, header
  <2> QED
    BY <1>1, <2>1, SlotsLeftAlone
<1>4. CASE best # None
  <2>1. /\ expSeq' = expSeq + 1
        /\ slot' = [slot EXCEPT ![SlotOf(expSeq + 1)] = picture]
        /\ dims' = [dims EXCEPT ![SlotOf(expSeq + 1)] = picture.size]
    BY <1>4 DEF Copy, Deliver, NextExp
  <2>2. picture.commit # None
    <3>1. reads[best] \in Reads
      BY <1>4, Reading, BestIsOn DEF Copy
    <3> QED
      BY <3>1 DEF Reads, None, TypeOK, WindowOK
  <2> HIDE DEF reads, best, picture
  <2>3. SlotOf(expSeq + 1) \in Slots /\ expSeq + 1 \in Nat
    BY <1>2, SlotsApart
  <2>4. Whole(expSeq)'
    <3>1. slot'[SlotOf(expSeq + 1)] = picture /\ dims'[SlotOf(expSeq + 1)] = picture.size
      BY <1>2, <2>1, <2>3
    <3> QED
      BY <2>1, <2>2, <3>1 DEF Whole, SlotOf
  <2>5. ASSUME NEW n \in Nat, n \in {expSeq - 1, expSeq}
        PROVE  slot'[SlotOf(n)] = slot[SlotOf(n)] /\ (Whole(n) => Whole(n)')
    <3>1. SlotOf(n) # SlotOf(expSeq + 1)
      <4>1. n + 1 = expSeq + 1 \/ n + 2 = expSeq + 1
        BY <1>2, <2>5
      <4> QED
        BY <4>1, SlotsApart
    <3>2. slot'[SlotOf(n)] = slot[SlotOf(n)] /\ dims'[SlotOf(n)] = dims[SlotOf(n)]
      BY <1>2, <2>1, <2>3, <3>1, SlotsApart
    <3> QED
      BY <3>2 DEF Whole, SlotOf
  <2>6. ASSUME ~skipped
        PROVE  NumberInv' /\ NewestInv'
    <3>1. zcOk /\ zPend = <<>> /\ zSeq <= expSeq /\ Len(zPend) = 0
      BY <1>1, <2>6 DEF SlotInv, NumberInv
    <3>2. Len(gpu) = 0
      BY <2>6, <3>1 DEF SlotInv, NumberInv, TypeOK, RendersOK
    <3>3. rd # 0 => rd <= expSeq
      BY <2>6 DEF SlotInv, NewestInv
    <3>4. NumberInv'
      BY <1>1, <1>2, <2>1, <3>1, <3>2 DEF NumberInv, TypeOK, RendersOK
    <3>5. rd # 0 => rd <= expSeq' /\ rd # expSeq'
      BY <1>2, <2>1, <3>3 DEF TypeOK, PipelineOK
    <3> QED
      BY <1>1, <2>4, <3>1, <3>2, <3>4, <3>5 DEF NewestInv
  <2>7. skipped => NumberInv' /\ NewestInv'
    BY <1>1 DEF NumberInv, NewestInv
  <2>8. CopyInv'
    <3> SUFFICES ASSUME zSeq = 0 PROVE CopyInv'
      BY <1>1 DEF CopyInv
    <3>1. /\ zPend = <<>> /\ gpu = <<>>
          /\ \A n \in 1..expSeq : expSeq < n + 3 => Whole(n)
          /\ rd # 0 => rd <= expSeq /\ (expSeq < rd + 3 => slot[SlotOf(rd)] = seen)
      BY DEF SlotInv, CopyInv
    <3>2. ASSUME NEW n \in 1..expSeq', expSeq' < n + 3
          PROVE  Whole(n)'
      <4>1. n \in Nat /\ n \in {expSeq - 1, expSeq, expSeq + 1}
        BY <1>2, <2>1, <3>2
      <4>2. CASE n = expSeq + 1
        BY <2>1, <2>4, <4>2 DEF Whole, SlotOf
      <4>3. CASE n # expSeq + 1
        <5>1. n \in 1..expSeq /\ expSeq < n + 3
          BY <1>2, <4>1, <4>3
        <5> QED
          BY <2>5, <3>1, <4>1, <4>3, <5>1
      <4> QED
        BY <4>2, <4>3
    <3>3. ASSUME rd # 0
          PROVE  rd <= expSeq' /\ (expSeq' < rd + 3 => slot'[SlotOf(rd)] = seen)
      <4>1. rd \in Nat /\ rd <= expSeq
        BY <3>1, <3>3 DEF TypeOK, PipelineOK
      <4>2. ASSUME expSeq' < rd + 3
            PROVE  slot'[SlotOf(rd)] = seen
        <5>1. rd \in {expSeq - 1, expSeq} /\ expSeq < rd + 3
          BY <1>2, <2>1, <4>1, <4>2
        <5> QED
          BY <2>5, <3>1, <3>3, <4>1, <5>1
      <4> QED
        BY <1>2, <2>1, <4>1, <4>2
    <3> QED
      BY <1>1, <3>1, <3>2, <3>3 DEF CopyInv, Whole, SlotOf
  <2> QED
    BY <2>6, <2>7, <2>8 DEF SlotInv
<1> QED
  BY <1>3, <1>4

\* A render that fails is recorded as dropped.
LEMMA SlotsZeroCopyFails ==
  ASSUME TypeOK, ZeroCopyFails
  PROVE  SlotInv'
<1>1. skipped' = TRUE
  BY DEF ZeroCopyFails
<1>2. zSeq' # 0
  <2>1. expSeq' \in Nat
    BY Publishing DEF ZeroCopyFails
  <2>2. zSeq \in Nat
    BY DEF TypeOK, RendersOK
  <2>3. zSeq' = NextSeq
    BY DEF ZeroCopyFails, Render
  <2> QED
    BY <2>1, <2>2, <2>3, NextNumber
<1> QED
  BY <1>1, <1>2 DEF SlotInv, NumberInv, NewestInv, CopyInv

\* As long as none was dropped: what an exportZc() publishes is the last of the
\* finished renders, and those it leaves on their way are the GPU's.
LEMMA PublishedPart ==
  ASSUME TypeOK, NumberInv, ~skipped, Current = zPend, PublishNewest
  PROVE  /\ Finished = Len(zPend) - Len(gpu) /\ expSeq' = expSeq + Finished
         /\ OnItsWay = gpu
         /\ \A i \in 1..Len(gpu) : gpu[i].seq = expSeq' + i
         /\ Finished = 0 => dims' = dims
         /\ Finished # 0 => dims' = [dims EXCEPT ![SlotOf(expSeq')] = zPend[Finished].size]
<1> DEFINE n == Finished
           L == Len(zPend)
           G == Len(gpu)
<1>1. /\ zPend \in Seq(Renders) /\ gpu \in Seq(Renders) /\ L \in Nat /\ G \in Nat
      /\ expSeq \in Nat
  BY DEF TypeOK, RendersOK, HeaderOK
<1>2. n = L - G /\ n \in 0..L
  <2>1. Finished \in 0..Len(Current)
    BY StillOnTheirWay DEF TypeOK
  <2> QED
    BY <2>1, FinishedFirst
<1>3. /\ \A i \in 1..L : zPend[i].seq = expSeq + i
      /\ \A j \in 1..G : gpu[j] = zPend[L - G + j]
  BY DEF NumberInv
<1>4. n = 0 => expSeq' = expSeq /\ dims' = dims
  BY DEF PublishNewest
<1>5. n # 0 => /\ expSeq' = zPend[n].seq
               /\ dims' = [dims EXCEPT ![SlotOf(zPend[n].seq)] = zPend[n].size]
  BY DEF PublishNewest
<1>6. OnItsWay \in Seq(Renders) /\ Len(OnItsWay) = L - n
      /\ \A i \in 1..Len(OnItsWay) : OnItsWay[i] = zPend[n + i]
  BY StillOnTheirWay DEF TypeOK
<1> HIDE DEF n
<1>7. expSeq' = expSeq + n
  <2>1. CASE n = 0
    BY <1>1, <1>4, <2>1
  <2>2. CASE n # 0
    BY <1>2, <1>3, <1>5, <2>2
  <2> QED
    BY <2>1, <2>2
<1>8. OnItsWay = gpu
  <2>1. Len(OnItsWay) = G
    BY <1>1, <1>2, <1>6
  <2>2. \A i \in 1..G : OnItsWay[i] = gpu[i]
    BY <1>2, <1>3, <1>6, <2>1
  <2> QED
    BY <1>1, <1>6, <2>1, <2>2
<1>9. ASSUME NEW i \in 1..G PROVE gpu[i].seq = expSeq' + i
  <2>1. gpu[i] = zPend[L - G + i]
    BY <1>3
  <2>2. L - G + i \in 1..L
    BY <1>1, <1>2
  <2>3. zPend[L - G + i].seq = expSeq + (L - G + i)
    BY <1>3, <2>2
  <2> QED
    BY <1>1, <1>2, <1>7, <2>1, <2>3
<1>10. n # 0 => dims' = [dims EXCEPT ![SlotOf(expSeq')] = zPend[n].size]
  BY <1>5
<1> QED
  BY <1>2, <1>4, <1>7, <1>8, <1>9, <1>10 DEF n

\* A render goes to the first slot that neither exp_seq nor one on its way has.
LEMMA SlotsZeroCopy ==
  ASSUME TypeOK, SlotInv, ZeroCopy
  PROVE  SlotInv'
<1> DEFINE G == Len(gpu)
           n == Finished
           r == [seq |-> zSeq', commit |-> commit, size |-> size]
<1>1. /\ PublishNewest /\ mpc' = "idle" /\ mpc # "idle" /\ UNCHANGED <<zcOk, rd, seen>>
      /\ skipped' = (skipped \/ Current # zPend)
  BY DEF ZeroCopy, pipeline
<1>2. /\ zPend \in Seq(Renders) /\ gpu \in Seq(Renders) /\ G \in Nat /\ zSeq \in Nat
      /\ expSeq \in Nat /\ expSeq' \in Nat /\ dims' \in [Slots -> 0..2]
      /\ slot \in [Slots -> Pictures] /\ dims \in [Slots -> 0..2] /\ rd \in Nat
  BY <1>1, Publishing DEF TypeOK, RendersOK, HeaderOK, PipelineOK
<1>3. WantRender =>
        /\ zSeq' = NextSeq /\ zSeq' \in Nat /\ zSeq' # 0 /\ r \in Renders
        /\ gpu' = Append(gpu, r) /\ slot' = [slot EXCEPT ![SlotOf(zSeq')] = Torn]
        /\ zPend' = Append(OnItsWay, r) /\ Len(OnItsWay) < 2
  <2> SUFFICES ASSUME WantRender
               PROVE  /\ zSeq' = NextSeq /\ zSeq' \in Nat /\ zSeq' # 0 /\ r \in Renders
        /\ gpu' = Append(gpu, r) /\ slot' = [slot EXCEPT ![SlotOf(zSeq')] = Torn]
        /\ zPend' = Append(OnItsWay, r) /\ Len(OnItsWay) < 2
    OBVIOUS
  <2>1. Render /\ zPend' = Append(OnItsWay, r)
    BY DEF ZeroCopy
  <2>2. r \in Renders
    BY <1>1, <1>2, <2>1, Rendering
  <2>3. zSeq' = NextSeq /\ NextSeq > zSeq
    BY <1>2, <2>1, NextNumber DEF Render
  <2> QED
    BY <1>2, <2>1, <2>2, <2>3, NextNumber DEF Render, WantRender
<1>4. ~WantRender => zPend' = OnItsWay /\ UNCHANGED <<zSeq, gpu, slot>>
  BY DEF ZeroCopy
<1>5. CopyInv'
  <2> SUFFICES ASSUME zSeq' = 0 PROVE CopyInv'
    BY DEF CopyInv
  <2>1. ~WantRender /\ zSeq = 0
    BY <1>3, <1>4
  <2>2. zPend = <<>> /\ gpu = <<>>
    BY <2>1 DEF SlotInv, CopyInv
  <2>3. Current = <<>> /\ Finished = 0 /\ OnItsWay = <<>>
    <3>1. Current = <<>>
      BY <2>2 DEF Current
    <3>2. Finished = 0 /\ OnItsWay \in Seq(Renders) /\ Len(OnItsWay) = 0
      BY <3>1, StillOnTheirWay DEF TypeOK
    <3> QED
      BY <3>1, <3>2
  <2>4. expSeq' = expSeq /\ dims' = dims
    BY <1>1, <2>3 DEF PublishNewest
  <2>5. zPend' = <<>> /\ UNCHANGED <<zSeq, gpu, slot>>
    BY <1>4, <2>1, <2>3
  <2> QED
    BY <1>1, <2>1, <2>4, <2>5 DEF SlotInv, CopyInv, Whole, SlotOf
<1>6. ASSUME ~skipped'
      PROVE  NumberInv' /\ NewestInv'
  <2>1. ~skipped /\ Current = zPend
    BY <1>1, <1>6
  <2>2. /\ n = Len(zPend) - G /\ n \in 0..Len(zPend) /\ G <= Len(zPend)
        /\ expSeq' = expSeq + n
        /\ OnItsWay = gpu
        /\ \A i \in 1..G : gpu[i].seq = expSeq' + i
        /\ n = 0 => dims' = dims
        /\ n # 0 => dims' = [dims EXCEPT ![SlotOf(expSeq')] = zPend[n].size]
    <3>1. Finished \in 0..Len(zPend)
      BY <2>1, StillOnTheirWay DEF TypeOK
    <3>2. Len(gpu) <= Len(zPend)
      BY <2>1 DEF SlotInv, NumberInv
    <3> QED
      BY <1>1, <2>1, <3>1, <3>2, PublishedPart DEF SlotInv
  <2>3. /\ zcOk
        /\ IF zPend = <<>> THEN zSeq <= expSeq ELSE zSeq = expSeq + Len(zPend)
        /\ \A i \in 1..Len(zPend) - G :
             slot[SlotOf(expSeq + i)] = [commit |-> zPend[i].commit, size |-> zPend[i].size]
        /\ expSeq # 0 => Whole(expSeq)
        /\ rd # 0 => rd <= expSeq /\ (rd = expSeq => slot[SlotOf(rd)] = seen)
    BY <2>1 DEF SlotInv, NumberInv, NewestInv
  <2> HIDE DEF n
  <2>4. zPend' = gpu'
    BY <1>3, <1>4, <2>2
  <2>5. gpu' \in Seq(Renders)
    <3>1. CASE WantRender
      <4>1. gpu' = Append(gpu, r) /\ r \in Renders /\ gpu \in Seq(Renders)
        BY <1>2, <1>3, <3>1
      <4> HIDE DEF r
      <4> QED
        BY <4>1, Appended
    <3>2. CASE ~WantRender
      BY <1>2, <1>4, <3>2
    <3> QED
      BY <3>1, <3>2
  <2>6. WantRender => zSeq' = expSeq' + G + 1 /\ SlotOf(zSeq') # SlotOf(expSeq')
    <3> SUFFICES ASSUME WantRender PROVE zSeq' = expSeq' + G + 1 /\ SlotOf(zSeq') # SlotOf(expSeq')
      OBVIOUS
    <3>1. zSeq' \in {zSeq + 1, expSeq' + 1} /\ zSeq' > zSeq /\ zSeq' > expSeq'
      BY <1>2, <1>3, NextNumber
    <3> DEFINE next == zSeq'
               newest == expSeq'
               onGpu == G
    <3>t. next \in Nat /\ newest \in Nat /\ onGpu \in Nat /\ zSeq \in Nat /\ expSeq \in Nat
      BY <1>2, <1>3
    <3>2. CASE zPend = <<>>
      <4>1. onGpu = 0 /\ newest = expSeq /\ zSeq <= expSeq
        <5>1. Len(zPend) = 0 /\ n \in 0..Len(zPend) /\ newest = expSeq + n
          BY <2>2, <3>2
        <5>2. n = 0
          BY <5>1
        <5> QED
          BY <1>2, <2>2, <2>3, <3>2, <5>1, <5>2
      <4>2. next \in {zSeq + 1, newest + 1} /\ next > newest
        BY <3>1
      <4>3. SlotOf(newest + 1) # SlotOf(newest)
        BY <3>t, SlotsApart
      <4> HIDE DEF next, newest, onGpu
      <4>4. next = newest + 1
        BY <3>t, <4>1, <4>2
      <4>5. next = newest + onGpu + 1 /\ SlotOf(next) # SlotOf(newest)
        BY <3>t, <4>1, <4>3, <4>4
      <4> QED
        BY <4>5 DEF next, newest, onGpu
    <3>3. CASE zPend # <<>>
      <4>1. zSeq = newest + onGpu
        BY <1>2, <2>2, <2>3, <3>3
      <4>2. next = newest + onGpu + 1
        <5>1. next \in {zSeq + 1, newest + 1} /\ next > zSeq
          BY <3>1
        <5> HIDE DEF next, newest, onGpu
        <5> QED
          BY <3>t, <4>1, <5>1
      <4>3. onGpu \in 0..1
        <5>1. onGpu < 2
          BY <1>3, <2>2
        <5> HIDE DEF onGpu
        <5> QED
          BY <3>t, <5>1
      <4>4. SlotOf(expSeq' + 1) # SlotOf(expSeq') /\ SlotOf(expSeq' + 2) # SlotOf(expSeq')
        BY <1>2, SlotsApart
      <4>5. next = newest + 1 \/ next = newest + 2
        <5> HIDE DEF next, newest, onGpu
        <5> QED
          BY <3>t, <4>2, <4>3
      <4> QED
        BY <4>2, <4>4, <4>5
    <3> QED
      BY <3>2, <3>3
  <2>7. slot'[SlotOf(expSeq')] = slot[SlotOf(expSeq')]
    <3>1. SlotOf(expSeq') \in Slots
      BY <1>2, SlotsApart
    <3>2. CASE WantRender
      BY <1>2, <1>3, <2>6, <3>1, <3>2
    <3>3. CASE ~WantRender
      BY <1>4, <3>3
    <3> QED
      BY <3>2, <3>3
  <2>8. NumberInv'
    <3>1. \A i \in 1..Len(gpu') : gpu'[i].seq = expSeq' + i
      <4>1. CASE WantRender
        <5>1. /\ Len(gpu') = G + 1 /\ gpu'[G + 1] = r
              /\ \A i \in 1..G : gpu'[i] = gpu[i]
          BY <1>2, <1>3, <4>1, Appended
        <5>2. r.seq = expSeq' + (G + 1)
          BY <1>2, <2>6, <4>1
        <5>3. \A i \in 1..G + 1 : i \in 1..G \/ i = G + 1
          BY <1>2
        <5> HIDE DEF r
        <5> QED
          BY <2>2, <5>1, <5>2, <5>3
      <4>2. CASE ~WantRender
        BY <1>4, <2>2, <4>2
      <4> QED
        BY <4>1, <4>2
    <3>2. IF gpu' = <<>> THEN zSeq' <= expSeq' ELSE zSeq' = expSeq' + Len(gpu')
      <4>1. CASE WantRender
        <5>1. Len(gpu') = G + 1 /\ zSeq' = expSeq' + G + 1
          BY <1>2, <1>3, <2>6, <4>1, Appended
        <5>2. gpu' # <<>>
          BY <1>2, <5>1
        <5> QED
          BY <1>2, <5>1, <5>2
      <4>2. CASE ~WantRender
        <5>1. CASE zPend = <<>>
          BY <1>2, <1>4, <2>2, <2>3, <4>2, <5>1
        <5>2. CASE zPend # <<>>
          <6>1. zSeq' = expSeq' + G /\ gpu' = gpu
            BY <1>2, <1>4, <2>2, <2>3, <4>2, <5>2
          <6> QED
            BY <1>2, <6>1
        <5> QED
          BY <5>1, <5>2
      <4> QED
        BY <4>1, <4>2
    <3>3. Len(gpu') \in Nat /\ \A j \in 1..Len(gpu') : Len(gpu') - Len(gpu') + j = j
      BY <2>5
    <3> QED
      BY <1>1, <2>3, <2>4, <3>1, <3>2, <3>3 DEF NumberInv
  <2>9. NewestInv'
    <3>1. 1..Len(zPend') - Len(gpu') = {}
      BY <2>4, <2>5
    <3>2. CASE n = 0
      <4>1. expSeq' = expSeq /\ dims' = dims
        BY <1>2, <2>2, <3>2
      <4> QED
        BY <1>1, <2>3, <2>7, <3>1, <4>1 DEF NewestInv, Whole, SlotOf
    <3>3. CASE n # 0
      <4>1. n \in 1..Len(zPend) - G /\ n \in 1..Len(zPend)
        BY <1>2, <2>2, <3>3
      <4>2. slot'[SlotOf(expSeq')] = [commit |-> zPend[n].commit, size |-> zPend[n].size]
        BY <2>2, <2>3, <2>7, <4>1
      <4>3. dims'[SlotOf(expSeq')] = zPend[n].size
        BY <1>2, <2>2, <3>3, SlotsApart
      <4>4. zPend[n].commit # None
        <5>1. zPend[n] \in Renders
          BY <1>2, <4>1
        <5> QED
          BY <5>1 DEF Renders, None
      <4>5. Whole(expSeq)'
        BY <4>2, <4>3, <4>4 DEF Whole, SlotOf
      <4>6. rd # 0 => rd <= expSeq' /\ rd # expSeq'
        BY <1>2, <2>2, <2>3, <4>1
      <4> QED
        BY <1>1, <3>1, <4>5, <4>6 DEF NewestInv
    <3> QED
      BY <3>2, <3>3
  <2> QED
    BY <2>8, <2>9
<1>7. skipped' => NumberInv' /\ NewestInv'
  BY DEF NumberInv, NewestInv
<1> QED
  BY <1>5, <1>6, <1>7 DEF SlotInv

LEMMA SlotsKept ==
  ASSUME TypeOK, SlotInv, [Next]_vars
  PROVE  SlotInv'
<1>1. CASE BeginCopy
  BY <1>1, SlotsBeginCopy
<1>2. CASE Choose
  BY <1>2, SlotsChoose
<1>3. CASE GpuDone
  BY <1>3, SlotsGpuDone
<1>4. CASE Copy
  BY <1>4, SlotsCopy
<1>5. CASE ZeroCopy \/ ZeroCopyFails
  BY <1>5, SlotsZeroCopy, SlotsZeroCopyFails
<1>6. CASE Window \/ BridgeThread \/ Timer \/ Due \/ UNCHANGED vars
  BY <1>6, SlotsLeftAlone DEF Window, Commit, BridgeThread, Replace, Install, Hangup, Timer, Due,
     vars, header, pipeline, repaint, zcopy, history
<1>7. CASE SetWant \/ Connect \/ Declare \/ Leave \/ EndCopy
  BY <1>7, SlotsLeftAlone DEF SetWant, Connect, Declare, Leave, EndCopy, header, pipeline, repaint,
     zcopy, history
<1>8. CASE BeginDraw \/ CopyEmptied \/ CopyFails
  BY <1>8, SlotsLeftAlone DEF BeginDraw, CopyEmptied, CopyFails, header, pipeline, zcopy, history
<1> QED
  BY <1>1, <1>2, <1>3, <1>4, <1>5, <1>6, <1>7, <1>8 DEF Next, Pipeline, Draw

----------------------------------------------------------------------------
(* PluginExport: the theorems                                               *)

LEMMA InitInvariant == Init => IInv
<1> SUFFICES ASSUME Init PROVE TypeOK /\ OrderInv /\ SlotInv
  BY DEF IInv
<1>1. WindowOK /\ PipelineOK
  <2>1. /\ flag \in BOOLEAN /\ client \in BOOLEAN /\ mapped \in BOOLEAN /\ declared \in BOOLEAN
        /\ seen \in Pictures /\ got \in Pictures
    BY TornIsOne, Zenon DEF Init
  <2>2. /\ commit \in 0..MaxCommits /\ native \in 1..2 /\ want \in 0..1
        /\ bpc \in {"poll", "replace", "install"} /\ lastSeq \in Nat /\ rd \in Nat
    BY DEF Init
  <2> QED
    BY <2>1, <2>2 DEF WindowOK, PipelineOK
<1>2. HeaderOK
  BY TornIsOne DEF Init, HeaderOK
<1>3. DrawOK
  <2>1. damaged \in BOOLEAN /\ due \in BOOLEAN /\ newConn \in BOOLEAN /\ inFlight \in BOOLEAN
    BY Zenon DEF Init
  <2>2. size \in 0..2 /\ lastRead \in None..commit /\ mpc = "idle"
    BY DEF Init, None
  <2> QED
    BY <2>1, <2>2 DEF DrawOK
<1>4. RendersOK
  BY DEF Init, RendersOK
<1>5. ReadsOK
  <2>1. NoRead \in Reads /\ ~NoRead.on
    BY DEF NoRead, Reads
  <2>2. Empty \in [Slots -> Reads] /\ \A i \in Slots : ~Empty[i].on
    BY <2>1 DEF Empty
  <2> QED
    BY <2>2 DEF Init, ReadsOK, Slots
<1>6. OrderInv
  <2>1. PublishedInv
    BY DEF Init, PublishedInv, None
  <2>2. \A i \in Slots : ~pend[i].on
    BY DEF Init, Empty, NoRead
  <2>3. Len(zPend) = 0
    BY DEF Init
  <2> QED
    BY <2>1, <2>2, <2>3 DEF OrderInv, ReadOrder, RenderOrder
<1>7. SlotInv
  <2>1. expSeq = 0 /\ zPend = <<>> /\ gpu = <<>> /\ rd = 0 /\ zSeq = 0 /\ zcOk
        /\ Len(zPend) = 0 /\ Len(gpu) = 0
    BY DEF Init
  <2> QED
    BY <2>1 DEF SlotInv, NumberInv, NewestInv, CopyInv
<1>8. skipped \in BOOLEAN /\ spoilt \in BOOLEAN
  BY DEF Init
<1> QED
  BY <1>1, <1>2, <1>3, <1>4, <1>5, <1>6, <1>7, <1>8 DEF TypeOK

LEMMA Invariant == Spec => []IInv
<1>1. Init => IInv
  BY InitInvariant
<1>2. IInv /\ [Next]_vars => IInv'
  BY Types, Order, SlotsKept DEF IInv
<1> QED
  BY <1>1, <1>2, PTL DEF Spec

\* A copy that ends in time: the slot is as it was when the copy began, and whole.
LEMMA CopyEndsWhole ==
  ASSUME TypeOK, SlotInv, EndCopy,
         (expSeq = rd /\ ~skipped) \/ (expSeq < rd + 2 /\ zSeq = 0)
  PROVE  got' # Torn
<1>1. /\ rd # 0 /\ rd \in Nat /\ expSeq \in Nat
      /\ got' = IF slot[SlotOf(rd)] = seen THEN seen ELSE Torn
  BY DEF EndCopy, TypeOK, PipelineOK, HeaderOK
<1>2. Whole(rd) /\ slot[SlotOf(rd)] = seen
  <2>1. CASE expSeq = rd /\ ~skipped
    BY <1>1, <2>1 DEF SlotInv, NewestInv
  <2>2. CASE expSeq < rd + 2 /\ zSeq = 0
    <3>1. rd \in 1..expSeq /\ expSeq < rd + 3 /\ slot[SlotOf(rd)] = seen
      BY <1>1, <2>2 DEF SlotInv, CopyInv
    <3> QED
      BY <2>2, <3>1 DEF SlotInv, CopyInv
  <2> QED
    BY <2>1, <2>2
<1> QED
  BY <1>1, <1>2 DEF Whole, Torn

\* The types of the export's state, at most two renders on their way, and a read
\* that is on of the size of its buffers (main.cpp:385, :484).
THEOREM ExportTypeCorrect == Spec => []TypeOK
<1>1. IInv => TypeOK
  BY DEF IInv
<1> QED
  BY <1>1, Invariant, PTL

\* What a pipeline copies from shared memory is one picture of one size: the newest
\* until a numbered render is dropped, and for two frames as long as every picture
\* is copied (main.cpp:391, :524, plugin_bridge.py:113-143).
THEOREM CopiesAreWhole == Spec => CopiedWhole
<1>1. IInv /\ [Next]_vars =>
        [EndCopy /\ (\/ expSeq = rd /\ ~skipped
                     \/ expSeq < rd + 2 /\ zSeq = 0) => got' # Torn]_vars
  BY CopyEndsWhole DEF IInv
<1> QED
  BY <1>1, Invariant, PTL DEF Spec, CopiedWhole

\* Each path publishes the commits in order, whatever is on its way and wherever
\* sizes, clients and paths change (main.cpp:368, :513).
THEOREM PublishedInOrder == Spec => InOrder
<1>1. IInv /\ [Next]_vars => [pub' # pub /\ pub'.via = pub.via => pub'.commit >= pub.commit]_vars
  BY Order DEF IInv, InOrderStep
<1> QED
  BY <1>1, Invariant, PTL DEF Spec, InOrder

----------------------------------------------------------------------------
(* PluginGuard: the inductive invariant                                     *)

USE GuardBounds

\* The compositor's pass: nothing is left to be drawn before it begins, nothing
\* has been queued in a frame that is not counted on yet, and what was drawn and
\* what is still to be drawn together are no more than what was queued.
PassInv ==
  /\ phase # "pass" => left = 0
  /\ phase \in {"begun", "windows"} => drawn = 0 /\ (~added => queued = 0)
  /\ phase = "pass" => drawn + left <= queued

\* Only a running bridge has a client.
ClientInv == served => running

\* What stop() would not close, and what nobody can close any more, was opened by
\* a start() that failed before running_ was set.
ReleaseInv ==
  /\ held # {} /\ ~running => failed
  /\ lost # {} => failed

GuardInv == GuardTypeOK /\ UnloadedIsGone /\ PassInv /\ ClientInv /\ ReleaseInv

\* The parts of the invariant that a step leaves alone with its variables.
LEMMA GuardUntouched ==
  /\ GuardInv /\ UNCHANGED <<loaded, breaker>> => GuardOK'
  /\ GuardInv /\ UNCHANGED target => TargetOK'
  /\ GuardInv /\ UNCHANGED frame => FrameOK' /\ PassInv'
  /\ GuardInv /\ UNCHANGED <<bridgeState, opened>> => BridgeOK' /\ ClientInv' /\ ReleaseInv'
  /\ GuardInv /\ UNCHANGED showing => ShowingOK'
  /\ GuardInv /\ UNCHANGED <<scanout, shared>> => ScanoutOK'
  /\ GuardInv /\ UNCHANGED <<loaded, queued, bridgeState, opened, scanout, shared>>
       => UnloadedIsGone'
BY DEF GuardInv, GuardTypeOK, GuardOK, breaker, TargetOK, target, FrameOK, PassInv, frame, BridgeOK,
       ClientInv, ReleaseInv, bridgeState, opened, ShowingOK, showing, ScanoutOK, scanout, UnloadedIsGone

\* Neither a section that completes nor one that faults leaves an armed plugin
\* with its exceptions used up.
LEMMA Guarded ==
  ASSUME GuardInv, loaded' = loaded, Completes \/ Fault \/ FaultAfter(TRUE)
  PROVE  GuardOK' /\ result' \in {"none", "new", "drawn", "missed"}
<1>1. CASE Completes
  BY <1>1 DEF GuardInv, GuardTypeOK, GuardOK, ShowingOK, Completes, breaker
<1>2. CASE Fault \/ FaultAfter(TRUE)
  <2>1. PICK known \in BOOLEAN : FaultAfter(known)
    <3>1. (~news) \in BOOLEAN
      BY DEF GuardInv, GuardTypeOK, ShowingOK
    <3> QED
      BY <1>2, <3>1 DEF Fault
  <2>2. PICK hard \in BOOLEAN : Trips(hard)
    BY <2>1 DEF FaultAfter
  <2>3. loaded' \in BOOLEAN /\ disabled' \in BOOLEAN
    BY <2>2, Zenon DEF Trips, GuardInv, GuardTypeOK, GuardOK
  <2>4. recent + 1 >= Trip => disabled'
    BY <2>2, Zenon DEF Trips
  <2>5. recent \in Nat /\ recent' = recent + 1
    BY <2>2 DEF Trips, GuardInv, GuardTypeOK, GuardOK
  <2>6. result' \in {"none", "new", "drawn", "missed"}
    BY <2>1 DEF FaultAfter, Missed, GuardInv, GuardTypeOK, ShowingOK
  <2> QED
    BY <2>3, <2>4, <2>5, <2>6 DEF GuardOK
<1> QED
  BY <1>1, <1>2

\* A start(), whatever becomes of it: what it leaves open is closed by stop(), or
\* it has failed.
LEMMA Starting ==
  ASSUME GuardInv, Starts \/ StartFails, UNCHANGED <<served, caller>>
  PROVE  BridgeOK' /\ ClientInv' /\ ReleaseInv'
<1> USE DEF Opens
<1>a. held \subseteq Resources /\ lost \subseteq Resources /\ running \in BOOLEAN
  BY DEF GuardInv, GuardTypeOK, BridgeOK
<1>1. CASE Starts
  <2>1. CASE running
    BY <1>1, <2>1, GuardUntouched DEF Starts, bridgeState
  <2>2. CASE ~running
    <3>1. /\ running' = TRUE /\ thread' = "loop" /\ failed' = failed
          /\ held' = Resources /\ lost' = lost \cup (held \cap Resources)
      BY <1>1, <1>a, <2>2 DEF Starts
    <3>2. served' \in BOOLEAN /\ caller' \in BOOLEAN /\ failed' \in BOOLEAN
          /\ lost' \subseteq Resources
      BY <3>1 DEF GuardInv, GuardTypeOK, BridgeOK
    <3>3. lost' # {} => failed'
      BY <2>2, <3>1 DEF GuardInv, ReleaseInv
    <3> QED
      BY <3>1, <3>2, <3>3 DEF BridgeOK, ClientInv, ReleaseInv
  <2> QED
    BY <2>1, <2>2
<1>2. CASE StartFails
  <2>1. ~running /\ thread = "none" /\ thread' = thread
    BY <1>2 DEF StartFails, GuardInv, GuardTypeOK, BridgeOK
  <2>2. CASE /\ running' = TRUE /\ held' = Resources /\ failed' = failed
             /\ lost' = lost \cup (held \cap Resources)
    <3>1. served' \in BOOLEAN /\ caller' \in BOOLEAN /\ failed' \in BOOLEAN
          /\ lost' \subseteq Resources
      BY <2>2 DEF GuardInv, GuardTypeOK, BridgeOK
    <3>2. lost' # {} => failed'
      BY <2>1, <2>2 DEF GuardInv, ReleaseInv
    <3> QED
      BY <2>1, <2>2, <3>1, <3>2 DEF BridgeOK, ClientInv, ReleaseInv
  <2>3. ASSUME NEW done \in SUBSET Resources, NEW over \in SUBSET Resources,
               Opens(done, over), failed' = (failed \/ done # {}), running' = running
        PROVE  BridgeOK' /\ ClientInv' /\ ReleaseInv'
    <3>1. /\ served' \in BOOLEAN /\ caller' \in BOOLEAN /\ failed' \in BOOLEAN
          /\ lost' \subseteq Resources /\ held' \subseteq Resources
      BY <2>3 DEF GuardInv, GuardTypeOK, BridgeOK
    <3>2. (held' # {} => failed') /\ (lost' # {} => failed')
      BY <2>1, <2>3 DEF GuardInv, ReleaseInv
    <3>3. served' => running'
      BY <2>3 DEF GuardInv, ClientInv
    <3> QED
      BY <1>a, <2>1, <2>3, <3>1, <3>2, <3>3 DEF BridgeOK, ClientInv, ReleaseInv
  <2>4. \/ /\ running' = TRUE /\ held' = Resources /\ failed' = failed
           /\ lost' = lost \cup (held \cap Resources)
        \/ \E done, over \in SUBSET Resources :
             Opens(done, over) /\ failed' = (failed \/ done # {}) /\ running' = running
    <3>1. CASE \E done, over \in {{}, {"memory"}, Resources} :
                 Opens(done, over) /\ failed' = (failed \/ done # {}) /\ running' = running
      <4>1. PICK done \in {{}, {"memory"}, Resources}, over \in {{}, {"memory"}, Resources} :
              Opens(done, over) /\ failed' = (failed \/ done # {}) /\ running' = running
        BY <3>1
      <4>2. done \in SUBSET Resources /\ over \in SUBSET Resources
        BY DEF Resources
      <4> QED
        BY <4>1, <4>2
    <3>2. CASE Opens(Resources, Resources) /\ running' = TRUE /\ UNCHANGED <<thread, failed>>
      BY <1>a, <3>2
    <3> QED
      BY <1>2, <3>1, <3>2 DEF StartFails
  <2> QED
    BY <2>2, <2>3, <2>4
<1> QED
  BY <1>1, <1>2

\* The inductive invariant, action by action.
LEMMA GuardInductive == GuardInv /\ [GuardNext]_guardVars => GuardInv'
<1> SUFFICES ASSUME GuardInv, [GuardNext]_guardVars
             PROVE  /\ GuardOK' /\ TargetOK' /\ FrameOK' /\ BridgeOK' /\ ShowingOK' /\ ScanoutOK'
                    /\ UnloadedIsGone' /\ PassInv' /\ ClientInv' /\ ReleaseInv'
  BY DEF GuardInv, GuardTypeOK
<1>1. CASE Attach
  <2>1. GuardOK' /\ result' \in {"none", "new", "drawn", "missed"}
    BY <1>1, Guarded DEF Attach
  <2>2. FrameOK' /\ PassInv' /\ ScanoutOK'
    BY <1>1, GuardUntouched DEF Attach, frame, scanout
  <2>3. ShowingOK'
    BY <1>1, <2>1 DEF Attach, GuardInv, GuardTypeOK, ShowingOK
  <2>4. TargetOK' /\ UnloadedIsGone'
    <3>1. TargetOK'
      <4>1. /\ window # "none" /\ window' = window
            /\ (attached' = TRUE /\ aimed' = TRUE) \/ (attached' = attached /\ aimed' = aimed)
        BY <1>1 DEF Attach
      <4>2. CASE attached' = TRUE /\ aimed' = TRUE
        BY <4>1, <4>2 DEF GuardInv, GuardTypeOK, TargetOK
      <4>3. CASE attached' = attached /\ aimed' = aimed
        BY <4>1, <4>3, GuardUntouched DEF target
      <4> QED
        BY <4>1, <4>2, <4>3
    <3>2. loaded'
      BY <1>1 DEF Attach, Armed
    <3> QED
      BY <3>1, <3>2 DEF UnloadedIsGone
  <2>5. BridgeOK' /\ ClientInv' /\ ReleaseInv'
    <3>1. CASE Starts \/ StartFails
      BY <1>1, <3>1, Starting DEF Attach
    <3>2. CASE UNCHANGED <<running, thread, opened>>
      BY <1>1, <3>2, GuardUntouched DEF Attach, bridgeState
    <3> QED
      BY <1>1, <3>1, <3>2 DEF Attach
  <2> QED
    BY <2>1, <2>2, <2>3, <2>4, <2>5
<1>2. CASE Detach
  <2>1. GuardOK' /\ BridgeOK' /\ ClientInv' /\ ReleaseInv' /\ ShowingOK'
    BY <1>2, GuardUntouched DEF Detach
  <2>2. TargetOK' /\ ScanoutOK' /\ UnloadedIsGone'
    BY <1>2 DEF Detach, opened, GuardInv, GuardTypeOK, TargetOK, ScanoutOK, UnloadedIsGone
  <2>3. FrameOK' /\ PassInv'
    BY <1>2 DEF Detach, GuardInv, GuardTypeOK, FrameOK, PassInv
  <2> QED
    BY <2>1, <2>2, <2>3
<1>3. CASE Reset
  <2>1. GuardOK'
    <3>1. loaded' \in BOOLEAN /\ disabled' \in BOOLEAN
      BY <1>3 DEF Reset, Rearmed, GuardInv, GuardTypeOK, GuardOK
    <3>2. recent' \in Nat /\ (recent' < Trip \/ disabled')
      BY <1>3 DEF Reset, Rearmed, GuardInv, GuardTypeOK, GuardOK
    <3> QED
      BY <3>1, <3>2 DEF GuardOK
  <2> QED
    BY <1>3, <2>1, GuardUntouched DEF Reset, frame
<1>4. CASE PluginInit
  <2>1. GuardOK'
    <3>1. loaded' \in BOOLEAN /\ disabled' \in BOOLEAN
      BY <1>4 DEF PluginInit, GuardInv, GuardTypeOK, GuardOK
    <3>2. recent' \in Nat /\ (recent' < Trip \/ disabled')
      BY <1>4 DEF PluginInit, GuardInv, GuardTypeOK, GuardOK
    <3> QED
      BY <3>1, <3>2 DEF GuardOK
  <2>2. FrameOK' /\ PassInv' /\ UnloadedIsGone' /\ ShowingOK'
    BY <1>4 DEF PluginInit, GuardInv, GuardTypeOK, FrameOK, PassInv, UnloadedIsGone, ShowingOK
  <2> QED
    BY <1>4, <2>1, <2>2, GuardUntouched DEF PluginInit
<1>5. CASE PluginExit
  <2>1. GuardOK' /\ TargetOK' /\ ScanoutOK' /\ ShowingOK'
    BY <1>5 DEF PluginExit, breaker, GuardInv, GuardTypeOK, GuardOK, TargetOK, ScanoutOK, ShowingOK
  <2>2. FrameOK' /\ PassInv'
    BY <1>5 DEF PluginExit, ElementsRemoved, GuardInv, GuardTypeOK, FrameOK, PassInv
  <2>3. /\ ~running' /\ thread' = "none" /\ ~served'
        /\ running' \in BOOLEAN /\ served' \in BOOLEAN /\ caller' \in BOOLEAN
    BY <1>5 DEF PluginExit, BridgeStops, bridgeState, GuardInv, GuardTypeOK, BridgeOK, ClientInv
  <2>4. held' = {} /\ lost' \subseteq Resources /\ failed' \in BOOLEAN
    BY <1>5 DEF PluginExit, BridgeStops, GuardInv, GuardTypeOK, BridgeOK
  <2>5. lost' # {} => failed'
    BY <1>5 DEF PluginExit, BridgeStops, GuardInv, ReleaseInv
  <2>6. BridgeOK' /\ ClientInv' /\ ReleaseInv'
    BY <2>3, <2>4, <2>5 DEF BridgeOK, ClientInv, ReleaseInv
  <2>7. UnloadedIsGone'
    BY <1>5, <2>3, <2>5 DEF PluginExit, ElementsRemoved, UnloadedIsGone
  <2> QED
    BY <2>1, <2>2, <2>6, <2>7
<1>6. CASE RenderBegin
  <2>1. FrameOK' /\ PassInv'
    BY <1>6 DEF RenderBegin, NextFrame, Armed, GuardInv, GuardTypeOK, FrameOK, PassInv
  <2>2. UnloadedIsGone' /\ ShowingOK'
    BY <1>6 DEF RenderBegin, bridgeState, opened, scanout, GuardInv, GuardTypeOK, UnloadedIsGone,
                ShowingOK
  <2> QED
    BY <1>6, <2>1, <2>2, GuardUntouched DEF RenderBegin
<1>7. CASE PostWindow
  <2>1. FrameOK' /\ PassInv'
    <3>1. added' \in BOOLEAN
      BY <1>7 DEF PostWindow, GuardInv, GuardTypeOK, FrameOK
    <3>2. added' \/ (added' = added /\ queued' = queued)
      BY <1>7 DEF PostWindow
    <3>3. queued' = queued \/ (queued = 0 /\ queued' = 1)
      BY <1>7 DEF PostWindow, Hooks, GuardInv, GuardTypeOK, FrameOK, PassInv
    <3>4. /\ left' = left /\ drawn' = drawn
          /\ phase \in {"begun", "windows"} /\ phase' = "windows"
      BY <1>7 DEF PostWindow
    <3> QED
      BY <3>1, <3>2, <3>3, <3>4 DEF GuardInv, GuardTypeOK, FrameOK, PassInv
  <2>2. UnloadedIsGone'
    BY <1>7 DEF PostWindow, Armed, bridgeState, opened, scanout, GuardInv, UnloadedIsGone
  <2>3. GuardOK' /\ ShowingOK'
    BY <1>7, Guarded DEF PostWindow, GuardInv, GuardTypeOK, ShowingOK
  <2> QED
    BY <1>7, <2>1, <2>2, <2>3, GuardUntouched DEF PostWindow
<1>8. CASE RenderPass
  <2>1. FrameOK' /\ PassInv'
    BY <1>8 DEF RenderPass, GuardInv, GuardTypeOK, FrameOK, PassInv
  <2>2. GuardOK' /\ ShowingOK'
    BY <1>8, Guarded DEF RenderPass, GuardInv, GuardTypeOK, ShowingOK
  <2> QED
    BY <1>8, <2>1, <2>2, GuardUntouched DEF RenderPass
<1>9. CASE DrawElement
  <2>1. FrameOK' /\ PassInv'
    BY <1>9 DEF DrawElement, Draws, GuardInv, GuardTypeOK, FrameOK, PassInv
  <2>2. GuardOK' /\ result' \in {"none", "new", "drawn", "missed"}
    <3>1. CASE Draws
      BY <1>9, <3>1 DEF DrawElement, Draws, breaker, GuardInv, GuardTypeOK, GuardOK
    <3>2. CASE Fault \/ Completes
      BY <1>9, <3>2, Guarded DEF DrawElement
    <3> QED
      BY <1>9, <3>1, <3>2 DEF DrawElement
  <2>3. ShowingOK'
    BY <1>9, <2>2 DEF DrawElement, Draws, GuardInv, GuardTypeOK, ShowingOK
  <2> QED
    BY <1>9, <2>1, <2>2, <2>3, GuardUntouched DEF DrawElement
<1>10. CASE RenderEnd
  <2>1. FrameOK' /\ PassInv'
    BY <1>10 DEF RenderEnd, GuardInv, GuardTypeOK, FrameOK, PassInv
  <2> QED
    BY <1>10, <2>1, GuardUntouched DEF RenderEnd
<1>11. CASE TimerFires
  <2>1. ScanoutOK'
    BY <1>11 DEF TimerFires, KeepsScanout, scanout, GuardInv, GuardTypeOK, ScanoutOK
  <2>2. UnloadedIsGone'
    BY <1>11 DEF TimerFires, Armed, UnloadedIsGone
  <2>3. GuardOK' /\ result' \in {"none", "new", "drawn", "missed"}
    BY <1>11, Guarded DEF TimerFires
  <2>4. ShowingOK'
    BY <1>11, <2>3 DEF TimerFires, Notices, GuardInv, GuardTypeOK, ShowingOK
  <2> QED
    BY <1>11, <2>1, <2>2, <2>3, <2>4, GuardUntouched DEF TimerFires
<1>12. CASE WindowChanges
  <2>1. TargetOK' /\ ShowingOK'
    BY <1>12 DEF WindowChanges, GuardInv, GuardTypeOK, TargetOK, ShowingOK
  <2> QED
    BY <1>12, <2>1, GuardUntouched DEF WindowChanges, frame
<1>13. CASE Sharing
  <2>1. ScanoutOK' /\ UnloadedIsGone'
    BY <1>13 DEF Sharing, frame, bridgeState, opened, GuardInv, GuardTypeOK, ScanoutOK,
                 UnloadedIsGone
  <2> QED
    BY <1>13, <2>1, GuardUntouched DEF Sharing
<1>14. CASE Damage
  <2>1. ShowingOK'
    BY <1>14 DEF Damage, GuardInv, GuardTypeOK, ShowingOK
  <2> QED
    BY <1>14, <2>1, GuardUntouched DEF Damage, frame
<1>15. CASE Call \/ Serve \/ EndOfFile \/ BridgeFaults
  <2>1. BridgeOK' /\ ClientInv' /\ ReleaseInv'
    BY <1>15 DEF Call, Serve, EndOfFile, BridgeFaults, opened, GuardInv, GuardTypeOK, BridgeOK,
                 ClientInv, ReleaseInv
  <2>2. UnloadedIsGone'
    BY <1>15 DEF Call, Serve, EndOfFile, BridgeFaults, frame, opened, scanout, GuardInv, GuardTypeOK,
                 BridgeOK, ClientInv, UnloadedIsGone
  <2>3. GuardOK' /\ result' \in {"none", "new", "drawn", "missed"}
    <3>1. CASE BridgeFaults
      BY <3>1, Guarded DEF BridgeFaults
    <3>2. CASE Call \/ Serve \/ EndOfFile
      BY <3>2 DEF Call, Serve, EndOfFile, breaker, showing, GuardInv, GuardTypeOK, GuardOK, ShowingOK
    <3> QED
      BY <1>15, <3>1, <3>2
  <2>4. ShowingOK'
    BY <1>15, <2>3 DEF Call, Serve, EndOfFile, BridgeFaults, showing, GuardInv, GuardTypeOK,
                       ShowingOK
  <2>5. TargetOK' /\ FrameOK' /\ PassInv' /\ ScanoutOK'
    BY <1>15, GuardUntouched DEF Call, Serve, EndOfFile, BridgeFaults
  <2> QED
    BY <2>1, <2>2, <2>3, <2>4, <2>5
<1>16. CASE NewResult \/ Expires
  <2>1. ShowingOK'
    BY <1>16 DEF NewResult, Expires, GuardInv, GuardTypeOK, ShowingOK
  <2> QED
    BY <1>16, <2>1, GuardUntouched DEF NewResult, Expires, frame
<1>17. CASE Forget
  <2>1. GuardOK'
    BY <1>17 DEF Forget, GuardInv, GuardTypeOK, GuardOK
  <2> QED
    BY <1>17, <2>1, GuardUntouched DEF Forget, frame
<1>18. CASE UNCHANGED guardVars
  BY <1>18, GuardUntouched DEF guardVars, frame
<1> QED
  BY <1>1, <1>2, <1>3, <1>4, <1>5, <1>6, <1>7, <1>8, <1>9, <1>10, <1>11, <1>12, <1>13, <1>14,
     <1>15, <1>16, <1>17, <1>18 DEF GuardNext, Commands, Frames, Outside

\* The plugin starts unloaded, with nothing queued.
LEMMA GuardInitInvariant == GuardInit => GuardInv
<1>1. GuardInit => loaded \in BOOLEAN /\ disabled \in BOOLEAN /\ added \in BOOLEAN /\ TargetOK
  BY DEF GuardInit, TargetOK
<1>2. GuardInit => recent \in Nat /\ recent < Trip
  BY DEF GuardInit
<1>3. GuardInit => /\ phase \in {"idle", "begun", "windows", "pass"} /\ PassInv
              /\ queued \in 0..1 /\ left \in 0..queued /\ drawn \in 0..1
  BY DEF GuardInit, PassInv
<1>4. GuardInit => BridgeOK /\ ClientInv /\ ReleaseInv /\ ShowingOK
  BY DEF GuardInit, BridgeOK, ClientInv, ReleaseInv, ShowingOK
<1>5. GuardInit => ScanoutOK /\ UnloadedIsGone
  BY DEF GuardInit, ScanoutOK, UnloadedIsGone
<1> QED
  BY <1>1, <1>2, <1>3, <1>4, <1>5 DEF GuardInv, GuardTypeOK, GuardOK, FrameOK

LEMMA GuardInvariant == GuardSpec => []GuardInv
<1>1. GuardInit => GuardInv
  BY GuardInitInvariant
<1>2. GuardInv /\ [GuardNext]_guardVars => GuardInv'
  BY GuardInductive
<1> QED
  BY <1>1, <1>2, PTL DEF GuardSpec

\* The plugin's state is of its types, and in it the window is drawn over once a
\* frame at most and an armed plugin has exceptions left (guard.hpp, main.cpp:840).
THEOREM GuardTypeCorrect == GuardSpec => []GuardTypeOK
<1>1. GuardInv => GuardTypeOK
  BY DEF GuardInv
<1> QED
  BY <1>1, GuardInvariant, PTL

\* However commands, frames, faults and pipelines interleave before it, after
\* PLUGIN_EXIT nothing of the plugin is left in the compositor but what a start()
\* had opened that failed before it set running_ (main.cpp:1013, bridge.hpp:70).
THEOREM UnloadLeavesNothing == GuardSpec => []UnloadedIsGone
<1>1. GuardInv => UnloadedIsGone
  BY DEF GuardInv
<1> QED
  BY <1>1, GuardInvariant, PTL

=============================================================================
