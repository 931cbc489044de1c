----------------------------- MODULE YtBridgeProofs -----------------------------
(***************************************************************************)
(* Proofs about YtBridge for any configurations, any number of replies to a *)
(* frame and any number of frames, connections and faults: its types, that  *)
(* a stage at work keeps its object, and that a connection keeps what it    *)
(* promises: an acknowledged configuration is in force, the reply queue has *)
(* room, and close() leaves nothing running.                                *)
(***************************************************************************)
EXTENDS YtBridge, FiniteSetTheorems, SequenceTheorems, TLAPS

USE ConfigsAssumption, BoundsAssumption, RoomAssumption

----------------------------------------------------------------------------
(* The inductive invariant                                                  *)

\* What stage s is to run as.
Wanted(s) == IF conf[s] = 0 THEN Absent ELSE [key |-> conf[s], up |-> "on"]

\* The handler waits while configure() runs. Until something has failed to start, the
\* stages it has been at are as they are wanted.
AckInv ==
  /\ cpc # "none" <=> hpc = "configuring"
  /\ faults = 0 /\ hpc # "ended" =>
       /\ \A s \in Stages : object[s] = Absent \/ object[s].up = "on"
       /\ cpc \in {"vsr", "fg"} => object["dlss"] = Wanted("dlss")
       /\ cpc = "fg" => object["vsr"] = Wanted("vsr")
       /\ hpc = "reading" /\ acked = "ok" => \A s \in Stages : object[s] = Wanted(s)

\* A stage past its mailbox has a frame; a connection that is closed has no jobs and, when
\* the stages ended in time, no stage at work and no object running.
StageInv ==
  /\ \A s \in Stages : phase[s] \in {"taken", "working"} => item[s] # 0
  /\ hpc = "ended" => jobs = <<>>
  /\ hpc = "ended" /\ ~late => Ended /\ \A s \in Stages : object[s].up # "on"

\* The page's first connection, until it is closed.
Live == conns = 1 /\ hpc # "ended"

\* The replies behind a place of the reply queue, and all of them.
Behind ==
  [p \in 0 .. Len(outq) |->
     {outq[i] : i \in p + 1 .. Len(outq)} \cup {jobs[j] : j \in 1 .. Len(jobs)}]
Replying == Behind[0]

\* The replies in the order they were made; the real one is the last of its frame.
Before(x, y) == x.n < y.n \/ (x.n = y.n /\ x.idx < y.idx)
IsReal(r) == r.idx = r.count - 1

\* The places of a frame, from the replies back to the wire.
OnWire(n) == \E i \in 1 .. Len(wire) : wire[i].kind = "frame" /\ wire[i].n = n
Place ==
  [l \in 0..7 |-> {n \in 1..MaxFrames :
     \/ l = 0 /\ \E r \in Replying : r.n = n
     \/ l = 1 /\ n = item["fg"]
     \/ l = 2 /\ n = box["fg"]
     \/ l = 3 /\ n = item["vsr"]
     \/ l = 4 /\ n = box["vsr"]
     \/ l = 5 /\ n = item["dlss"]
     \/ l = 6 /\ n = box["dlss"]
     \/ l = 7 /\ OnWire(n)}]

\* Frames keep their order: the further on, the older.
LineInv ==
  /\ \A k, l \in 0..7 : \A m \in Place[k], n \in Place[l] : k < l => m < n
  /\ \A l \in 0..7 : \A n \in Place[l] : n <= sent
  /\ \A i, j \in 1 .. Len(wire) :
       i < j /\ wire[i].kind = "frame" /\ wire[j].kind = "frame" => wire[i].n < wire[j].n
  /\ \A i \in 1 .. Len(wire) : wire[i].kind = "frame" => wire[i].n # 0

\* A reply whose frame's real one is delivered already.
Orphan(x) == \A r \in Replying : r.n = x.n => ~IsReal(r)

\* The pool's jobs are in order; a reply that has left it has overtaken one other at
\* most, and an orphan is what is left of the oldest frame.
ReplyInv ==
  /\ \A r \in Replying : r.n # 0 /\ r.idx < r.count
  /\ \A x, y \in Replying : x.n = y.n => x.count = y.count
  /\ \A i, j \in 1 .. Len(jobs) : i < j => Before(jobs[i], jobs[j])
  /\ \A p \in 1 .. Len(outq) :
       /\ outq[p] \notin Behind[p]
       /\ \A x, y \in Behind[p] : Before(x, outq[p]) /\ Before(y, outq[p]) => x = y
  /\ \A x, y \in Replying : x # y /\ Orphan(x) => Before(x, y)

\* The frames whose real reply is still to come have the page's credits.
Owed ==
  {n \in 1..MaxFrames : \/ \E l \in 1..7 : n \in Place[l]
                        \/ \E r \in Replying : r.n = n /\ IsReal(r)}

CreditInv ==
  /\ conns = 1 => ~oldClose /\ ~lost
  /\ Live => LineInv /\ ReplyInv /\ Cardinality(Owed) <= pending

IInv ==
  BrowserOK /\ HandlerOK /\ PipelineOK /\ AckInv /\ StageInv /\ CreditInv

\* A stage that works on a frame holds its lock and no other does; configure() holds the
\* lock of the stage it is at, or none.
LockInv ==
  \A s \in Stages :
    /\ lock[s] = "stage" <=> phase[s] = "working"
    /\ lock[s] = "configure" => cpc = s

----------------------------------------------------------------------------
(* Lemmas                                                                   *)

\* A sequence without one of its elements.
LEMMA Removed ==
  ASSUME NEW S, NEW q \in Seq(S), NEW i \in 1 .. Len(q)
  PROVE  /\ RemoveAt(q, i) \in Seq(S) /\ Len(RemoveAt(q, i)) = Len(q) - 1
         /\ \A j \in 1 .. Len(q) - 1 :
              RemoveAt(q, i)[j] = IF j < i THEN q[j] ELSE q[j + 1]
<1> DEFINE s1 == SubSeq(q, 1, i - 1)
<1> DEFINE s2 == SubSeq(q, i + 1, Len(q))
<1>1. Len(q) \in Nat /\ i \in Int /\ 1 <= i /\ i <= Len(q)
  OBVIOUS
<1>2. \A j \in 1 .. Len(q) : q[j] \in S
  OBVIOUS
<1>3. /\ s1 \in Seq(S) /\ Len(s1) = i - 1
      /\ \A j \in 1 .. i - 1 : s1[j] = q[j]
  <2>1. \A j \in 1 .. i - 1 : q[j] \in S
    BY <1>1, <1>2
  <2>2. s1 \in Seq(S) /\ Len(s1) = IF 1 <= i - 1 THEN (i - 1) - 1 + 1 ELSE 0
    BY <1>1, <2>1, SubSeqProperties
  <2>3. \A j \in 1 .. (i - 1) - 1 + 1 : s1[j] = q[1 + j - 1]
    BY <1>1, <2>1, SubSeqProperties
  <2> HIDE DEF s1
  <2>4. Len(s1) = i - 1
    BY <1>1, <2>2
  <2>5. \A j \in 1 .. i - 1 : j \in 1 .. (i - 1) - 1 + 1 /\ 1 + j - 1 = j
    BY <1>1
  <2> QED
    BY <2>2, <2>3, <2>4, <2>5
<1>4. /\ s2 \in Seq(S) /\ Len(s2) = Len(q) - i
      /\ \A j \in 1 .. Len(q) - i : s2[j] = q[i + j]
  <2>1. \A j \in i + 1 .. Len(q) : q[j] \in S
    BY <1>1, <1>2
  <2>2. s2 \in Seq(S) /\ Len(s2) = IF i + 1 <= Len(q) THEN Len(q) - (i + 1) + 1 ELSE 0
    BY <1>1, <2>1, SubSeqProperties
  <2>3. \A j \in 1 .. Len(q) - (i + 1) + 1 : s2[j] = q[(i + 1) + j - 1]
    BY <1>1, <2>1, SubSeqProperties
  <2> HIDE DEF s2
  <2>4. Len(s2) = Len(q) - i
    BY <1>1, <2>2
  <2>5. \A j \in 1 .. Len(q) - i : j \in 1 .. Len(q) - (i + 1) + 1 /\ (i + 1) + j - 1 = i + j
    BY <1>1
  <2> QED
    BY <2>2, <2>3, <2>4, <2>5
<1>5. RemoveAt(q, i) = s1 \o s2
  BY DEF RemoveAt
<1> HIDE DEF s1, s2
<1>6. /\ s1 \o s2 \in Seq(S) /\ Len(s1 \o s2) = Len(s1) + Len(s2)
      /\ \A j \in 1 .. Len(s1) + Len(s2) :
           (s1 \o s2)[j] = IF j <= Len(s1) THEN s1[j] ELSE s2[j - Len(s1)]
  BY <1>3, <1>4, ConcatProperties
<1>7. ASSUME NEW j \in 1 .. Len(q) - 1
      PROVE  (s1 \o s2)[j] = IF j < i THEN q[j] ELSE q[j + 1]
  <2>1. Len(s1) + Len(s2) = Len(q) - 1 /\ (j <= Len(s1) <=> j < i)
    BY <1>1, <1>3, <1>4
  <2>2. CASE j < i
    <3>1. j \in 1 .. i - 1
      BY <1>1, <2>2
    <3> QED
      BY <1>3, <1>6, <2>1, <2>2, <3>1
  <2>3. CASE ~(j < i)
    <3>1. j - Len(s1) \in 1 .. Len(q) - i /\ i + (j - Len(s1)) = j + 1
      BY <1>1, <1>3, <2>3
    <3>2. s2[j - Len(s1)] = q[j + 1]
      BY <1>4, <3>1
    <3> QED
      BY <1>6, <2>1, <2>3, <3>2
  <2> QED
    BY <2>2, <2>3
<1> QED
  BY <1>1, <1>3, <1>4, <1>5, <1>6, <1>7

\* Two replies are the same or in order.
LEMMA Ordered ==
  ASSUME NEW x \in Reply, NEW y \in Reply
  PROVE  /\ ~(Before(x, y) /\ Before(y, x)) /\ ~Before(x, x)
         /\ (x.n = y.n => x.count = y.count) /\ x # y => Before(x, y) \/ Before(y, x)
         /\ \A z \in Reply : Before(x, y) /\ Before(y, z) => Before(x, z)
<1>1. x.n \in Int /\ y.n \in Int /\ x.idx \in Int /\ y.idx \in Int
  BY DEF Reply, Numbers
<1>2. \A z \in Reply : z.n \in Int /\ z.idx \in Int
  BY DEF Reply, Numbers
<1>3. x.n = y.n /\ x.idx = y.idx /\ x.count = y.count => x = y
  BY DEF Reply
<1> QED
  BY <1>1, <1>2, <1>3 DEF Before

\* What is behind the places of the reply queue.
LEMMA Places ==
  ASSUME outq \in Seq(Reply), jobs \in Seq(Reply)
  PROVE  /\ \A p \in 0 .. Len(outq) : Behind[p] \subseteq Reply
         /\ \A p \in 1 .. Len(outq) : outq[p] \in Replying /\ Behind[p] \subseteq Replying
         /\ \A p \in 0 .. Len(outq), q \in 1 .. Len(outq) : p < q => outq[q] \in Behind[p]
         /\ \A p \in 0 .. Len(outq), j \in 1 .. Len(jobs) : jobs[j] \in Behind[p]
         /\ \A p \in 0 .. Len(outq) : \A r \in Behind[p] :
              \/ \E q \in 1 .. Len(outq) : p < q /\ r = outq[q]
              \/ \E j \in 1 .. Len(jobs) : r = jobs[j]
<1>1. Len(outq) \in Nat /\ Len(jobs) \in Nat
  OBVIOUS
<1>2. \A p \in 1 .. Len(outq) : outq[p] \in Reply
  OBVIOUS
<1>3. \A j \in 1 .. Len(jobs) : jobs[j] \in Reply
  OBVIOUS
<1>4. \A p \in 0 .. Len(outq) : \A q \in p + 1 .. Len(outq) : q \in 1 .. Len(outq) /\ p < q
  BY <1>1
<1>5. \A p \in 0 .. Len(outq), q \in 1 .. Len(outq) : p < q => q \in p + 1 .. Len(outq)
  BY <1>1
<1>6. 0 \in 0 .. Len(outq) /\ \A p \in 1 .. Len(outq) : p \in 0 .. Len(outq) /\ 0 < p
  BY <1>1
<1>7. \A p \in 0 .. Len(outq) : \A r \in Behind[p] :
        \/ \E q \in 1 .. Len(outq) : p < q /\ r = outq[q]
        \/ \E j \in 1 .. Len(jobs) : r = jobs[j]
  BY <1>4 DEF Behind
<1>8. \A p \in 0 .. Len(outq), q \in 1 .. Len(outq) : p < q => outq[q] \in Behind[p]
  BY <1>5 DEF Behind
<1>9. \A p \in 0 .. Len(outq), j \in 1 .. Len(jobs) : jobs[j] \in Behind[p]
  BY DEF Behind
<1>10. \A p \in 1 .. Len(outq) : outq[p] \in Replying /\ Behind[p] \subseteq Replying
  <2> SUFFICES ASSUME NEW p \in 1 .. Len(outq)
               PROVE  outq[p] \in Replying /\ Behind[p] \subseteq Replying
    OBVIOUS
  <2>1. outq[p] \in Behind[0]
    BY <1>6, <1>8
  <2>2. ASSUME NEW r \in Behind[p] PROVE r \in Behind[0]
    <3>1. p \in 0 .. Len(outq) /\ 0 \in 0 .. Len(outq)
      BY <1>6
    <3>2. \A q \in 1 .. Len(outq) : outq[q] \in Behind[0]
      BY <1>6, <1>8
    <3> QED
      BY <1>7, <1>9, <3>1, <3>2
  <2> QED
    BY <2>1, <2>2 DEF Replying
<1>11. \A p \in 0 .. Len(outq) : Behind[p] \subseteq Reply
  <2> SUFFICES ASSUME NEW p \in 0 .. Len(outq), NEW r \in Behind[p] PROVE r \in Reply
    OBVIOUS
  <2> QED
    BY <1>2, <1>3, <1>7
<1> QED
  BY <1>7, <1>8, <1>9, <1>10, <1>11

\* The frames that have credits are finitely many, and no more when frames only move.
LEMMA OwedFinite == IsFiniteSet(Owed) /\ Cardinality(Owed) \in Nat
<1>1. IsFiniteSet(1..MaxFrames)
  BY FS_Interval
<1>2. Owed \in SUBSET (1..MaxFrames)
  BY DEF Owed
<1>3. IsFiniteSet(Owed)
  BY <1>1, <1>2, FS_Subset
<1> QED
  BY <1>3, FS_CardinalityType

LEMMA Shrinks ==
  Owed' \subseteq Owed => Cardinality(Owed') \in Nat /\ Cardinality(Owed') <= Cardinality(Owed)
<1> SUFFICES ASSUME Owed' \subseteq Owed
             PROVE  Cardinality(Owed') \in Nat /\ Cardinality(Owed') <= Cardinality(Owed)
  OBVIOUS
<1>1. IsFiniteSet(Owed)
  BY OwedFinite
<1>2. IsFiniteSet(Owed') /\ Cardinality(Owed') <= Cardinality(Owed)
  BY <1>1, FS_Subset
<1> QED
  BY <1>2, FS_CardinalityType

\* While the pool has a job, the reply queue has room for it: the replies of two frames
\* and an orphan are all there are.
LEMMA Room ==
  ASSUME IInv, Live, jobs # <<>>
  PROVE  Len(outq) < OutSize
<1> DEFINE L == Len(outq)
<1>1. /\ outq \in Seq(Reply) /\ jobs \in Seq(Reply) /\ L \in Nat /\ 1 \in 1 .. Len(jobs)
      /\ LineInv /\ ReplyInv /\ Cardinality(Owed) <= pending /\ pending \in 0..2
  BY DEF IInv, PipelineOK, BrowserOK, CreditInv
<1> DEFINE e == [p \in 1 .. L + 1 |-> IF p <= L THEN outq[p] ELSE jobs[1]]
<1>2. \A p \in 1 .. L + 1 : e[p] \in Replying /\ e[p] \in Reply
  <2>1. \A p \in 1 .. L + 1 : p \in 1 .. L \/ p = L + 1
    BY <1>1
  <2>2. ~(L + 1 <= L) /\ \A p \in 1 .. L : p <= L
    BY <1>1
  <2>3. \A p \in 1 .. L : outq[p] \in Replying
    BY <1>1, Places
  <2>4. 0 \in 0 .. L
    BY <1>1
  <2>5. jobs[1] \in Replying /\ Replying \subseteq Reply
    BY <1>1, <2>4, Places DEF Replying
  <2> QED
    BY <2>1, <2>2, <2>3, <2>5
<1>3. \A p, q \in 1 .. L + 1 : p < q => e[p] # e[q]
  <2> SUFFICES ASSUME NEW p \in 1 .. L + 1, NEW q \in 1 .. L + 1, p < q PROVE e[p] # e[q]
    OBVIOUS
  <2>1. p \in 1 .. L /\ p <= L /\ p \in 0 .. L
    BY <1>1
  <2>2. e[p] = outq[p] /\ outq[p] \notin Behind[p]
    BY <1>1, <2>1 DEF ReplyInv
  <2>3. CASE q <= L
    <3>1. q \in 1 .. L
      BY <1>1, <2>3
    <3> QED
      BY <1>1, <2>1, <2>2, <2>3, <3>1, Places
  <2>4. CASE ~(q <= L)
    BY <1>1, <2>1, <2>2, <2>4, Places
  <2> QED
    BY <2>3, <2>4
<1> HIDE DEF e
<1> DEFINE Reals == {n \in 1..MaxFrames : \E r \in Replying : r.n = n /\ IsReal(r)}
<1> DEFINE U == (Reals \X (0 .. Multiplier - 1)) \cup {<<0, 0>>}
<1>4. IsFiniteSet(Reals) /\ Cardinality(Reals) \in 0..2
  <2>1. Reals \in SUBSET Owed
    BY DEF Owed
  <2> HIDE DEF Reals
  <2>2. IsFiniteSet(Reals) /\ Cardinality(Reals) <= Cardinality(Owed)
    BY <2>1, OwedFinite, FS_Subset
  <2>3. Cardinality(Reals) \in Nat /\ Cardinality(Owed) \in Nat
    BY <2>2, OwedFinite, FS_CardinalityType
  <2> QED
    BY <1>1, <2>2, <2>3
<1>5. IsFiniteSet(U) /\ Cardinality(U) \in Nat /\ Cardinality(U) <= 2 * Multiplier + 1
  <2> DEFINE P == Reals \X (0 .. Multiplier - 1)
  <2>1. IsFiniteSet(0 .. Multiplier - 1) /\ Cardinality(0 .. Multiplier - 1) = Multiplier
    <3>1. 0 \in Int /\ Multiplier - 1 \in Int /\ ~(0 > Multiplier - 1)
          /\ (Multiplier - 1) - 0 + 1 = Multiplier
      OBVIOUS
    <3> QED
      BY <3>1, FS_Interval
  <2>2. IsFiniteSet(P) /\ Cardinality(P) = Cardinality(Reals) * Multiplier
    BY <1>4, <2>1, FS_Product
  <2>3. Cardinality(P) \in Nat /\ Cardinality(P) <= 2 * Multiplier
    <3>1. \A c \in 0..2 : c * Multiplier \in Nat /\ c * Multiplier <= 2 * Multiplier
      <4>1. 0 * Multiplier = 0 /\ 1 * Multiplier = Multiplier
        OBVIOUS
      <4>2. 0..2 = {0, 1, 2}
        OBVIOUS
      <4> QED
        BY <4>1, <4>2
    <3> HIDE DEF P, Reals
    <3> QED
      BY <1>4, <2>2, <3>1
  <2>4. U = P \cup {<<0, 0>>}
    OBVIOUS
  <2> HIDE DEF P, U
  <2>5. IsFiniteSet(U) /\ (Cardinality(U) = Cardinality(P) \/ Cardinality(U) = Cardinality(P) + 1)
    BY <2>2, <2>4, FS_AddElement
  <2> QED
    BY <2>3, <2>5
<1> DEFINE f == [p \in 1 .. L + 1 |-> IF Orphan(e[p]) THEN <<0, 0>> ELSE <<e[p].n, e[p].idx>>]
<1>6. \A r \in Replying : r.n \in 1..MaxFrames /\ r.idx \in 0 .. Multiplier - 1
  <2>1. Replying \subseteq Reply
    <3>1. 0 \in 0 .. L
      BY <1>1
    <3> QED
      BY <1>1, <3>1, Places DEF Replying
  <2>2. \A r \in Reply : r.n \in 0..MaxFrames /\ r.idx \in 0 .. Multiplier - 1
    BY DEF Reply, Numbers
  <2>3. \A r \in Replying : r.n # 0
    BY <1>1 DEF ReplyInv
  <2> QED
    BY <2>1, <2>2, <2>3
<1>7. \A p \in 1 .. L + 1 : f[p] \in U
  <2> SUFFICES ASSUME NEW p \in 1 .. L + 1, ~Orphan(e[p]) PROVE <<e[p].n, e[p].idx>> \in U
    OBVIOUS
  <2>1. e[p].n \in Reals
    BY <1>2, <1>6 DEF Orphan
  <2>2. e[p].idx \in 0 .. Multiplier - 1
    BY <1>2, <1>6
  <2> HIDE DEF Reals
  <2> QED
    BY <2>1, <2>2
<1>8. \A p, q \in 1 .. L + 1 : p < q => f[p] # f[q]
  <2> SUFFICES ASSUME NEW p \in 1 .. L + 1, NEW q \in 1 .. L + 1, p < q PROVE f[p] # f[q]
    OBVIOUS
  <2>1. e[p] # e[q] /\ e[p] \in Replying /\ e[q] \in Replying /\ e[p] \in Reply /\ e[q] \in Reply
    BY <1>2, <1>3
  <2>2. e[p].n # 0 /\ e[q].n # 0
    BY <1>6, <2>1
  <2>3. ~(Orphan(e[p]) /\ Orphan(e[q]))
    BY <1>1, <2>1, Ordered DEF ReplyInv
  <2>4. e[p].n # e[q].n \/ e[p].idx # e[q].idx
    <3>1. e[p].n = e[q].n => e[p].count = e[q].count
      BY <1>1, <2>1 DEF ReplyInv
    <3> QED
      BY <2>1, <3>1 DEF Reply
  <2> QED
    BY <2>2, <2>3, <2>4
<1>9. f \in Injection(1 .. L + 1, U)
  <2>1. f \in [1 .. L + 1 -> U] /\ DOMAIN f = 1 .. L + 1
    BY <1>7
  <2> HIDE DEF f, U
  <2>2. \A p, q \in 1 .. L + 1 : p < q \/ p = q \/ q < p
    BY <1>1
  <2>3. \A p, q \in 1 .. L + 1 : f[p] = f[q] => p = q
    BY <1>8, <2>2
  <2> QED
    BY <2>1, <2>3 DEF Injection, IsInjective
<1>10. Cardinality(1 .. L + 1) = L + 1
  <2>1. 1 \in Int /\ L + 1 \in Int /\ ~(1 > L + 1) /\ (L + 1) - 1 + 1 = L + 1
    BY <1>1
  <2> HIDE DEF L
  <2> QED
    BY <2>1, FS_Interval
<1>11. Cardinality(1 .. L + 1) <= Cardinality(U)
  <2> HIDE DEF f, U, L
  <2> QED
    BY <1>5, <1>9, FS_Injection
<1> HIDE DEF U
<1> QED
  BY <1>1, <1>5, <1>10, <1>11

----------------------------------------------------------------------------
(* The frames on the page's first connection                                *)

LEMMA SameReplies ==
  UNCHANGED <<outq, jobs>> =>
    Behind' = Behind /\ Replying' = Replying /\ (ReplyInv => ReplyInv')
<1> SUFFICES ASSUME UNCHANGED <<outq, jobs>>
             PROVE  Behind' = Behind /\ Replying' = Replying /\ (ReplyInv => ReplyInv')
  OBVIOUS
<1>1. Behind' = Behind
  BY DEF Behind
<1>2. Replying' = Replying
  BY <1>1 DEF Replying
<1> QED
  BY <1>1, <1>2 DEF ReplyInv, Orphan

\* What holds of them.
LEMMA LiveParts ==
  IInv /\ Live =>
    /\ LineInv /\ ReplyInv /\ Cardinality(Owed) <= pending
    /\ outq \in Seq(Reply) /\ jobs \in Seq(Reply) /\ wire \in Seq(Message)
    /\ box \in [Stages -> 0..MaxFrames] /\ item \in [Stages -> 0..MaxFrames]
    /\ pending \in 0..2 /\ sent \in 0..MaxFrames /\ ~oldClose /\ ~lost
  BY DEF IInv, CreditInv, Live, PipelineOK, BrowserOK, Numbers

\* A frame goes one place on.
LEMMA LineMoved ==
  ASSUME IInv, Live, NEW b \in 0..5, UNCHANGED <<wire, sent>>,
         \A l \in 0..7 : \A n \in Place'[l] :
           (n \in Place[l] /\ l # b + 1) \/ (l = b /\ n \in Place[b + 1])
  PROVE  LineInv'
<1>1. LineInv
  BY LiveParts
<1>3. \A k, l \in 0..7 : \A m \in Place'[k], n \in Place'[l] : k < l => m < n
  <2> SUFFICES ASSUME NEW k \in 0..7, NEW l \in 0..7, NEW m \in Place'[k], NEW n \in Place'[l],
                      k < l
               PROVE  m < n
    OBVIOUS
  <2>1. b + 1 \in 0..7
    OBVIOUS
  <2>2. CASE m \in Place[k] /\ k # b + 1
    BY <1>1, <2>1, <2>2 DEF LineInv
  <2>3. CASE k = b /\ m \in Place[b + 1]
    <3>1. n \in Place[l] /\ b + 1 < l
      BY <2>3
    <3> QED
      BY <1>1, <2>1, <2>3, <3>1 DEF LineInv
  <2> QED
    BY <2>2, <2>3
<1>4. \A l \in 0..7 : \A n \in Place'[l] : n <= sent'
  <2>1. b + 1 \in 0..7
    OBVIOUS
  <2> QED
    BY <1>1, <2>1 DEF LineInv
<1> QED
  BY <1>1, <1>3, <1>4 DEF LineInv

LEMMA Moved ==
  ASSUME IInv, Live, NEW b \in 1..5, UNCHANGED <<wire, sent, pending, outq, jobs>>,
         \A l \in 0..7 : \A n \in Place'[l] :
           (n \in Place[l] /\ l # b + 1) \/ (l = b /\ n \in Place[b + 1])
  PROVE  LineInv' /\ ReplyInv' /\ Cardinality(Owed') <= pending'
<1>1. ReplyInv /\ Cardinality(Owed) <= pending /\ pending \in 0..2
  BY LiveParts
<1>2. ReplyInv' /\ Replying' = Replying
  BY <1>1, SameReplies
<1>3. LineInv'
  <2>1. b \in 0..5
    OBVIOUS
  <2> QED
    BY <2>1, LineMoved
<1>4. Owed' \subseteq Owed
  <2>1. b + 1 \in 1..7 /\ \A l \in 1..7 : l \in 0..7
    OBVIOUS
  <2> QED
    BY <1>2, <2>1 DEF Owed
<1>5. Cardinality(Owed') <= Cardinality(Owed) /\ Cardinality(Owed') \in Nat /\ Cardinality(Owed) \in Nat
  BY <1>4, Shrinks, OwedFinite
<1> QED
  BY <1>1, <1>2, <1>3, <1>5

LEMMA TakeKeeps ==
  ASSUME IInv, Live, NEW s \in Stages, Take(s)
  PROVE  LineInv' /\ ReplyInv' /\ Cardinality(Owed') <= pending'
<1>1. box \in [Stages -> 0..MaxFrames] /\ item \in [Stages -> 0..MaxFrames]
  BY LiveParts
<1>2. UNCHANGED <<wire, sent, pending, outq, jobs>>
  BY DEF Take, browser
<1>3. Replying' = Replying /\ \A n : OnWire(n)' <=> OnWire(n)
  BY <1>2, SameReplies DEF OnWire
<1>4. /\ box'[s] = 0 /\ item'[s] = box[s]
      /\ \A t \in Stages : t # s => box'[t] = box[t] /\ item'[t] = item[t]
  BY <1>1 DEF Take
<1>5. CASE s = "fg"
  <2>1. /\ box'["fg"] = 0 /\ item'["fg"] = box["fg"]
        /\ box'["vsr"] = box["vsr"] /\ item'["vsr"] = item["vsr"]
        /\ box'["dlss"] = box["dlss"] /\ item'["dlss"] = item["dlss"]
    BY <1>4, <1>5 DEF Stages
  <2>2. \A l \in 0..7 : \A n \in Place'[l] :
          (n \in Place[l] /\ l # 1 + 1) \/ (l = 1 /\ n \in Place[1 + 1])
    BY <1>3, <2>1 DEF Place
  <2> QED
    BY <1>2, <2>2, Moved
<1>6. CASE s = "vsr"
  <2>1. /\ box'["vsr"] = 0 /\ item'["vsr"] = box["vsr"]
        /\ box'["fg"] = box["fg"] /\ item'["fg"] = item["fg"]
        /\ box'["dlss"] = box["dlss"] /\ item'["dlss"] = item["dlss"]
    BY <1>4, <1>6 DEF Stages
  <2>2. \A l \in 0..7 : \A n \in Place'[l] :
          (n \in Place[l] /\ l # 3 + 1) \/ (l = 3 /\ n \in Place[3 + 1])
    BY <1>3, <2>1 DEF Place
  <2> QED
    BY <1>2, <2>2, Moved
<1>7. CASE s = "dlss"
  <2>1. /\ box'["dlss"] = 0 /\ item'["dlss"] = box["dlss"]
        /\ box'["fg"] = box["fg"] /\ item'["fg"] = item["fg"]
        /\ box'["vsr"] = box["vsr"] /\ item'["vsr"] = item["vsr"]
    BY <1>4, <1>7 DEF Stages
  <2>2. \A l \in 0..7 : \A n \in Place'[l] :
          (n \in Place[l] /\ l # 5 + 1) \/ (l = 5 /\ n \in Place[5 + 1])
    BY <1>3, <2>1 DEF Place
  <2> QED
    BY <1>2, <2>2, Moved
<1> QED
  BY <1>5, <1>6, <1>7 DEF Stages

LEMMA PassOnKeeps ==
  ASSUME IInv, Live, PassOn("dlss", "vsr") \/ PassOn("vsr", "fg")
  PROVE  LineInv' /\ ReplyInv' /\ Cardinality(Owed') <= pending'
<1>1. box \in [Stages -> 0..MaxFrames] /\ item \in [Stages -> 0..MaxFrames]
  BY LiveParts
<1>2. UNCHANGED <<wire, sent, pending, outq, jobs>>
  BY DEF PassOn, browser
<1>3. Replying' = Replying /\ \A n : OnWire(n)' <=> OnWire(n)
  BY <1>2, SameReplies DEF OnWire
<1>4. CASE PassOn("dlss", "vsr")
  <2>1. /\ item'["dlss"] = 0 /\ box'["vsr"] = item["dlss"]
        /\ box'["fg"] = box["fg"] /\ item'["fg"] = item["fg"]
        /\ box'["dlss"] = box["dlss"] /\ item'["vsr"] = item["vsr"]
    BY <1>1, <1>4 DEF PassOn, Put, Idle, Stages
  <2>2. \A l \in 0..7 : \A n \in Place'[l] :
          (n \in Place[l] /\ l # 4 + 1) \/ (l = 4 /\ n \in Place[4 + 1])
    BY <1>3, <2>1 DEF Place
  <2> QED
    BY <1>2, <2>2, Moved
<1>5. CASE PassOn("vsr", "fg")
  <2>1. /\ item'["vsr"] = 0 /\ box'["fg"] = item["vsr"]
        /\ box'["dlss"] = box["dlss"] /\ item'["dlss"] = item["dlss"]
        /\ box'["vsr"] = box["vsr"] /\ item'["fg"] = item["fg"]
    BY <1>1, <1>5 DEF PassOn, Put, Idle, Stages
  <2>2. \A l \in 0..7 : \A n \in Place'[l] :
          (n \in Place[l] /\ l # 2 + 1) \/ (l = 2 /\ n \in Place[2 + 1])
    BY <1>3, <2>1 DEF Place
  <2> QED
    BY <1>2, <2>2, Moved
<1> QED
  BY <1>4, <1>5

----------------------------------------------------------------------------
(* What is sent to the bridge, and what it receives                         *)

LEMMA Messages ==
  /\ \A n \in Numbers : Frame(n) \in Message /\ Frame(n).kind = "frame" /\ Frame(n).n = n
  /\ \A c \in Configs : Config(c) \in Message /\ Config(c).kind = "config"
<1>1. 0 \in Numbers
  BY DEF Numbers
<1> QED
  BY <1>1 DEF Message, Frame, Config

LEMMA Sends ==
  ASSUME wire \in Seq(Message), NEW x \in Message, wire' = Append(wire, x)
  PROVE  /\ wire' \in Seq(Message) /\ Len(wire') = Len(wire) + 1 /\ Len(wire) \in Nat
         /\ \A i \in 1 .. Len(wire) : wire'[i] = wire[i] /\ i \in 1 .. Len(wire')
         /\ wire'[Len(wire) + 1] = x /\ Len(wire) + 1 \in 1 .. Len(wire')
         /\ \A i \in 1 .. Len(wire') : i \in 1 .. Len(wire) \/ i = Len(wire) + 1
<1>1. /\ wire' \in Seq(Message) /\ Len(wire') = Len(wire) + 1
      /\ \A i \in 1 .. Len(wire) : wire'[i] = wire[i]
      /\ wire'[Len(wire) + 1] = x
  BY AppendProperties
<1>2. Len(wire) \in Nat
  OBVIOUS
<1> QED
  BY <1>1, <1>2

LEMMA Receives ==
  ASSUME wire \in Seq(Message), wire # <<>>, wire' = Tail(wire)
  PROVE  /\ wire' \in Seq(Message) /\ Head(wire) = wire[1] /\ Head(wire) \in Message
         /\ 1 \in 1 .. Len(wire)
         /\ \A i \in 1 .. Len(wire') : wire'[i] = wire[i + 1] /\ i + 1 \in 1 .. Len(wire) /\ 1 < i + 1
<1>1. Len(wire) \in Nat /\ Len(wire) >= 1 /\ Head(wire) = wire[1]
  OBVIOUS
<1>2. /\ Head(wire) \in Message /\ wire' \in Seq(Message) /\ Len(wire') = Len(wire) - 1
      /\ \A i \in 1 .. Len(wire') : wire'[i] = wire[i + 1]
  BY HeadTailProperties
<1> QED
  BY <1>1, <1>2

\* Messages that are no frames are sent and received between the others.
LEMMA NoFrames ==
  ASSUME IInv, Live, UNCHANGED <<box, item, sent, pending, outq, jobs>>,
         \A i \in 1 .. Len(wire') : wire'[i].kind = "frame" =>
           i \in 1 .. Len(wire) /\ wire'[i] = wire[i]
  PROVE  LineInv' /\ ReplyInv' /\ Cardinality(Owed') <= pending'
<1>1. LineInv /\ ReplyInv /\ Cardinality(Owed) <= pending /\ pending \in 0..2
  BY LiveParts
<1>2. ReplyInv' /\ Replying' = Replying
  BY <1>1, SameReplies
<1>3. \A n \in 1..MaxFrames : OnWire(n)' => OnWire(n)
  BY DEF OnWire
<1>4. \A l \in 0..7 : \A n \in Place'[l] : n \in Place[l]
  BY <1>2, <1>3 DEF Place
<1>5. LineInv'
  BY <1>1, <1>4, SMTT(30) DEF LineInv
<1>6. Owed' \subseteq Owed
  <2>1. \A l \in 1..7 : l \in 0..7
    OBVIOUS
  <2> QED
    BY <1>2, <1>4, <2>1 DEF Owed
<1>7. Cardinality(Owed') <= Cardinality(Owed) /\ Cardinality(Owed') \in Nat /\ Cardinality(Owed) \in Nat
  BY <1>6, Shrinks, OwedFinite
<1> QED
  BY <1>1, <1>2, <1>5, <1>7

LEMMA SendConfigureKeeps ==
  ASSUME IInv, Live, SendConfigure
  PROVE  LineInv' /\ ReplyInv' /\ Cardinality(Owed') <= pending'
<1>1. wire \in Seq(Message)
  BY LiveParts
<1>2. UNCHANGED <<box, item, sent, pending, outq, jobs>>
  BY DEF SendConfigure, threads
<1>3. PICK c \in Configs : wire' = Append(wire, Config(c))
  BY DEF SendConfigure
<1>4. \A i \in 1 .. Len(wire') : wire'[i].kind = "frame" =>
        i \in 1 .. Len(wire) /\ wire'[i] = wire[i]
  BY <1>1, <1>3, Messages, Sends
<1> QED
  BY <1>2, <1>4, NoFrames

LEMMA ReceiveConfigKeeps ==
  ASSUME IInv, Live, ReceiveConfig
  PROVE  LineInv' /\ ReplyInv' /\ Cardinality(Owed') <= pending'
<1>1. LineInv /\ ReplyInv /\ Cardinality(Owed) <= pending /\ pending \in 0..2
      /\ wire \in Seq(Message)
  BY LiveParts
<1>2. UNCHANGED <<box, item, sent, pending, outq, jobs>> /\ wire # <<>> /\ wire' = Tail(wire)
  BY DEF ReceiveConfig, threads, browser
<1>3. ReplyInv' /\ Replying' = Replying
  BY <1>1, <1>2, SameReplies
<1>4. \A i \in 1 .. Len(wire') : wire'[i] = wire[i + 1] /\ i + 1 \in 1 .. Len(wire)
  BY <1>1, <1>2, Receives
<1>5. \A n \in 1..MaxFrames : OnWire(n)' => OnWire(n)
  BY <1>4 DEF OnWire
<1>6. \A l \in 0..7 : \A n \in Place'[l] : n \in Place[l]
  BY <1>2, <1>3, <1>5 DEF Place
<1>7. LineInv'
  <2>1. \A i, j \in 1 .. Len(wire') :
          i < j /\ wire'[i].kind = "frame" /\ wire'[j].kind = "frame" => wire'[i].n < wire'[j].n
    <3> SUFFICES ASSUME NEW i \in 1 .. Len(wire'), NEW j \in 1 .. Len(wire'), i < j,
                        wire'[i].kind = "frame", wire'[j].kind = "frame"
                 PROVE  wire'[i].n < wire'[j].n
      OBVIOUS
    <3>1. i + 1 < j + 1
      OBVIOUS
    <3> QED
      BY <1>1, <1>4, <3>1 DEF LineInv
  <2>2. \A i \in 1 .. Len(wire') : wire'[i].kind = "frame" => wire'[i].n # 0
    BY <1>1, <1>4 DEF LineInv
  <2> QED
    BY <1>1, <1>2, <1>6, <2>1, <2>2 DEF LineInv
<1>8. Owed' \subseteq Owed
  <2>1. \A l \in 1..7 : l \in 0..7
    OBVIOUS
  <2> QED
    BY <1>3, <1>6, <2>1 DEF Owed
<1>9. Cardinality(Owed') <= Cardinality(Owed) /\ Cardinality(Owed') \in Nat /\ Cardinality(Owed) \in Nat
  BY <1>8, Shrinks, OwedFinite
<1> QED
  BY <1>1, <1>2, <1>3, <1>7, <1>9

LEMMA ReceiveFrameKeeps ==
  ASSUME IInv, Live, ReceiveFrame
  PROVE  LineInv' /\ ReplyInv' /\ Cardinality(Owed') <= pending'
<1>1. LineInv /\ ReplyInv /\ Cardinality(Owed) <= pending /\ pending \in 0..2
      /\ wire \in Seq(Message) /\ box \in [Stages -> 0..MaxFrames]
  BY LiveParts
<1>2. UNCHANGED <<item, sent, pending, outq, jobs>> /\ wire # <<>> /\ wire' = Tail(wire)
      /\ Head(wire).kind = "frame" /\ box' = Put(box, "dlss", Head(wire).n)
  BY DEF ReceiveFrame, browser
<1>3. ReplyInv' /\ Replying' = Replying
  BY <1>1, <1>2, SameReplies
<1>4. /\ Head(wire) = wire[1] /\ 1 \in 1 .. Len(wire)
      /\ \A i \in 1 .. Len(wire') : wire'[i] = wire[i + 1] /\ i + 1 \in 1 .. Len(wire) /\ 1 < i + 1
  BY <1>1, <1>2, Receives
<1>5. box'["dlss"] = wire[1].n /\ box'["vsr"] = box["vsr"] /\ box'["fg"] = box["fg"]
      /\ wire[1].kind = "frame"
  BY <1>1, <1>2, <1>4 DEF Put, Stages
<1>6. \A n \in 1..MaxFrames : OnWire(n)' => OnWire(n) /\ wire[1].n < n
  <2> SUFFICES ASSUME NEW n \in 1..MaxFrames, NEW i \in 1 .. Len(wire'),
                      wire'[i].kind = "frame", wire'[i].n = n
               PROVE  OnWire(n) /\ wire[1].n < n
    BY DEF OnWire
  <2>1. OnWire(n)
    BY <1>4 DEF OnWire
  <2>2. wire[1].n < wire[i + 1].n
    BY <1>1, <1>4, <1>5 DEF LineInv
  <2> QED
    BY <1>4, <2>1, <2>2
<1>7. wire[1].n \in 1..MaxFrames => OnWire(wire[1].n)
  BY <1>4, <1>5 DEF OnWire
<1>8. \A l \in 0..7 : \A n \in Place'[l] :
        \/ l < 6 /\ n \in Place[l]
        \/ l = 6 /\ n = wire[1].n /\ n \in Place[7]
        \/ l = 7 /\ n \in Place[7] /\ wire[1].n < n
  BY <1>2, <1>3, <1>5, <1>6, <1>7 DEF Place
<1>9. \A k, l \in 0..7 : \A m \in Place'[k], n \in Place'[l] : k < l => m < n
  <2> SUFFICES ASSUME NEW k \in 0..7, NEW l \in 0..7, NEW m \in Place'[k], NEW n \in Place'[l],
                      k < l
               PROVE  m < n
    OBVIOUS
  <2>1. CASE k < 6
    <3>1. m \in Place[k] /\ ((l < 6 /\ n \in Place[l]) \/ n \in Place[7])
      BY <1>8, <2>1
    <3>2. k < 7 /\ 7 \in 0..7
      BY <2>1
    <3> QED
      BY <1>1, <3>1, <3>2 DEF LineInv
  <2>2. CASE k = 6
    <3>1. l = 7 /\ m = wire[1].n /\ wire[1].n < n
      BY <1>8, <2>2
    <3> QED
      BY <3>1
  <2> QED
    BY <2>1, <2>2
<1>10. LineInv'
  <2>1. \A i, j \in 1 .. Len(wire') :
          i < j /\ wire'[i].kind = "frame" /\ wire'[j].kind = "frame" => wire'[i].n < wire'[j].n
    <3> SUFFICES ASSUME NEW i \in 1 .. Len(wire'), NEW j \in 1 .. Len(wire'), i < j,
                        wire'[i].kind = "frame", wire'[j].kind = "frame"
                 PROVE  wire'[i].n < wire'[j].n
      OBVIOUS
    <3>1. i + 1 < j + 1
      OBVIOUS
    <3> QED
      BY <1>1, <1>4, <3>1 DEF LineInv
  <2>2. \A i \in 1 .. Len(wire') : wire'[i].kind = "frame" => wire'[i].n # 0
    BY <1>1, <1>4 DEF LineInv
  <2>3. \A l \in 0..7 : \A n \in Place'[l] : n <= sent'
    <3>1. 7 \in 0..7
      OBVIOUS
    <3> QED
      BY <1>1, <1>2, <1>8, <3>1 DEF LineInv
  <2> QED
    BY <1>9, <2>1, <2>2, <2>3 DEF LineInv
<1>11. Owed' \subseteq Owed
  <2>1. 7 \in 1..7 /\ \A l \in 1..7 : l \in 0..7
    OBVIOUS
  <2> QED
    BY <1>3, <1>8, <2>1 DEF Owed
<1>12. Cardinality(Owed') <= Cardinality(Owed) /\ Cardinality(Owed') \in Nat /\ Cardinality(Owed) \in Nat
  BY <1>11, Shrinks, OwedFinite
<1> QED
  BY <1>1, <1>2, <1>3, <1>10, <1>12

LEMMA TickKeeps ==
  ASSUME IInv, Live, Tick
  PROVE  LineInv' /\ ReplyInv' /\ Cardinality(Owed') <= pending'
<1>1. LineInv /\ ReplyInv /\ Cardinality(Owed) <= pending /\ pending \in 0..2
      /\ wire \in Seq(Message) /\ sent \in 0..MaxFrames
  BY LiveParts
<1>2. UNCHANGED <<item, box, outq, jobs>> /\ sent' = sent + 1 /\ pending' = pending + 1
      /\ wire' = Append(wire, Frame(sent + 1)) /\ sent < MaxFrames
  BY DEF Tick, threads
<1>3. ReplyInv' /\ Replying' = Replying
  BY <1>1, <1>2, SameReplies
<1>4. sent + 1 \in Numbers /\ sent + 1 \in 1..MaxFrames
  BY <1>1, <1>2 DEF Numbers
<1> DEFINE x == Frame(sent + 1)
<1>5. x \in Message /\ x.kind = "frame" /\ x.n = sent + 1
  BY <1>4, Messages
<1> HIDE DEF x
<1>6. /\ Len(wire') = Len(wire) + 1 /\ Len(wire) \in Nat
      /\ \A i \in 1 .. Len(wire) : wire'[i] = wire[i]
      /\ wire'[Len(wire) + 1] = x
      /\ \A i \in 1 .. Len(wire') : i \in 1 .. Len(wire) \/ i = Len(wire) + 1
  <2>1. wire' = Append(wire, x)
    BY <1>2 DEF x
  <2> QED
    BY <1>1, <1>5, <2>1, Sends
<1>7. \A n \in 1..MaxFrames : OnWire(n)' => OnWire(n) \/ n = sent + 1
  BY <1>5, <1>6 DEF OnWire
<1>8. \A l \in 0..7 : \A n \in Place'[l] : n \in Place[l] \/ (l = 7 /\ n = sent + 1)
  BY <1>2, <1>3, <1>7 DEF Place
<1>9. \A l \in 0..7 : \A n \in Place[l] : n \in 1..MaxFrames /\ n < sent + 1
  <2>1. \A l \in 0..7 : \A n \in Place[l] : n \in 1..MaxFrames
    BY DEF Place
  <2> QED
    BY <1>1, <2>1 DEF LineInv
<1>10. \A k, l \in 0..7 : \A m \in Place'[k], n \in Place'[l] : k < l => m < n
  <2> SUFFICES ASSUME NEW k \in 0..7, NEW l \in 0..7, NEW m \in Place'[k], NEW n \in Place'[l],
                      k < l
               PROVE  m < n
    OBVIOUS
  <2>1. m \in Place[k]
    BY <1>8
  <2> QED
    BY <1>1, <1>8, <1>9, <2>1 DEF LineInv
<1>11. \A i \in 1 .. Len(wire) : wire[i].kind = "frame" => wire[i].n < sent + 1
  <2> SUFFICES ASSUME NEW i \in 1 .. Len(wire), wire[i].kind = "frame" PROVE wire[i].n < sent + 1
    OBVIOUS
  <2>1. wire[i] \in Message
    BY <1>1
  <2>2. wire[i].n \in 0..MaxFrames /\ wire[i].n # 0
    BY <1>1, <2>1 DEF Message, Numbers, LineInv
  <2>3. wire[i].n \in 1..MaxFrames /\ OnWire(wire[i].n)
    BY <2>2 DEF OnWire
  <2>4. wire[i].n \in Place[7] /\ 7 \in 0..7
    BY <2>3 DEF Place
  <2> QED
    BY <1>9, <2>4
<1>12. LineInv'
  <2>1. \A i, j \in 1 .. Len(wire') :
          i < j /\ wire'[i].kind = "frame" /\ wire'[j].kind = "frame" => wire'[i].n < wire'[j].n
    <3> SUFFICES ASSUME NEW i \in 1 .. Len(wire'), NEW j \in 1 .. Len(wire'), i < j,
                        wire'[i].kind = "frame", wire'[j].kind = "frame"
                 PROVE  wire'[i].n < wire'[j].n
      OBVIOUS
    <3>1. i \in 1 .. Len(wire)
      BY <1>6
    <3>2. CASE j \in 1 .. Len(wire)
      BY <1>1, <1>6, <3>1, <3>2 DEF LineInv
    <3>3. CASE j = Len(wire) + 1
      BY <1>5, <1>6, <1>11, <3>1, <3>3
    <3> QED
      BY <1>6, <3>2, <3>3
  <2>2. \A i \in 1 .. Len(wire') : wire'[i].kind = "frame" => wire'[i].n # 0
    BY <1>1, <1>4, <1>5, <1>6 DEF LineInv
  <2>3. ASSUME NEW l \in 0..7, NEW n \in Place'[l] PROVE n <= sent'
    <3>1. CASE n \in Place[l]
      BY <1>1, <1>2, <1>9, <3>1
    <3>2. CASE n = sent + 1
      BY <1>1, <1>2, <3>2
    <3> QED
      BY <1>8, <3>1, <3>2
  <2> QED
    BY <1>10, <2>1, <2>2, <2>3 DEF LineInv
<1>13. Owed' \subseteq Owed \cup {sent + 1}
  <2>1. \A l \in 1..7 : l \in 0..7
    OBVIOUS
  <2> QED
    BY <1>3, <1>8, <2>1 DEF Owed
<1>14. Cardinality(Owed') <= Cardinality(Owed) + 1
  <2> DEFINE O == Owed \cup {sent + 1}
  <2>1. IsFiniteSet(O) /\ Cardinality(O) = IF sent + 1 \in Owed THEN Cardinality(Owed)
                                                                 ELSE Cardinality(Owed) + 1
    BY OwedFinite, FS_AddElement
  <2>2. Owed' \subseteq O
    BY <1>13
  <2> HIDE DEF O
  <2>3. IsFiniteSet(Owed') /\ Cardinality(Owed') <= Cardinality(O)
    BY <2>1, <2>2, FS_Subset
  <2>4. Cardinality(Owed') \in Nat /\ Cardinality(O) \in Nat /\ Cardinality(Owed) \in Nat
    BY <2>1, <2>3, FS_CardinalityType, OwedFinite
  <2> QED
    BY <2>1, <2>3, <2>4
<1>15. Cardinality(Owed') \in Nat /\ Cardinality(Owed) \in Nat
  <2>1. Owed' \subseteq 1..MaxFrames
    BY DEF Owed
  <2>2. IsFiniteSet(1..MaxFrames)
    BY FS_Interval
  <2>3. IsFiniteSet(Owed')
    BY <2>1, <2>2, FS_Subset
  <2> QED
    BY <2>3, FS_CardinalityType, OwedFinite
<1> QED
  BY <1>1, <1>2, <1>3, <1>12, <1>14, <1>15

----------------------------------------------------------------------------
(* The replies                                                              *)

LEMMA DeliverKeeps ==
  ASSUME IInv, Live, Deliver
  PROVE  LineInv' /\ ReplyInv' /\ Cardinality(Owed') <= pending'
<1> DEFINE h == outq[1]
<1>1. LineInv /\ ReplyInv /\ Cardinality(Owed) <= pending /\ pending \in 0..2
      /\ outq \in Seq(Reply) /\ jobs \in Seq(Reply)
  BY LiveParts
<1>2. UNCHANGED <<wire, sent, item, box, jobs>> /\ outq # <<>> /\ outq' = Tail(outq)
  BY DEF Deliver, threads
<1>3. (IsReal(h) /\ pending' = IF pending = 0 THEN 0 ELSE pending - 1) \/ pending' = pending
  <2>1. outq[1] = Head(outq)
    BY <1>1, <1>2
  <2>2. \/ Head(outq).idx = Head(outq).count - 1
           /\ pending' = IF pending = 0 THEN 0 ELSE pending - 1
        \/ pending' = pending
    BY DEF Deliver
  <2> QED
    BY <2>1, <2>2 DEF IsReal
<1>4. /\ Len(outq) \in Nat /\ Len(outq) >= 1 /\ Len(outq') = Len(outq) - 1
      /\ \A p \in 1 .. Len(outq') : outq'[p] = outq[p + 1]
  BY <1>1, <1>2, HeadTailProperties
<1>5. /\ 1 \in 1 .. Len(outq) /\ 0 \in 0 .. Len(outq) /\ 0 \in 0 .. Len(outq')
      /\ \A p \in 0 .. Len(outq') : p + 1 \in 1 .. Len(outq) /\ p + 1 \in 0 .. Len(outq)
      /\ \A p \in 1 .. Len(outq') : p \in 0 .. Len(outq')
  BY <1>4
<1>6. \A p \in 0 .. Len(outq') : Behind'[p] = Behind[p + 1]
  <2> SUFFICES ASSUME NEW p \in 0 .. Len(outq') PROVE Behind'[p] = Behind[p + 1]
    OBVIOUS
  <2>1. {outq'[i] : i \in p + 1 .. Len(outq')} = {outq[i] : i \in (p + 1) + 1 .. Len(outq)}
    <3>1. \A i \in p + 1 .. Len(outq') : outq'[i] = outq[i + 1] /\ i + 1 \in (p + 1) + 1 .. Len(outq)
      BY <1>4
    <3>2. \A i \in (p + 1) + 1 .. Len(outq) :
            i - 1 \in p + 1 .. Len(outq') /\ i - 1 \in 1 .. Len(outq') /\ (i - 1) + 1 = i
      BY <1>4
    <3>3. \A i \in (p + 1) + 1 .. Len(outq) : outq'[i - 1] = outq[i]
      BY <1>4, <3>2
    <3>4. ASSUME NEW r \in {outq'[i] : i \in p + 1 .. Len(outq')}
          PROVE  r \in {outq[i] : i \in (p + 1) + 1 .. Len(outq)}
      BY <3>1
    <3>5. ASSUME NEW r \in {outq[i] : i \in (p + 1) + 1 .. Len(outq)}
          PROVE  r \in {outq'[i] : i \in p + 1 .. Len(outq')}
      <4>1. PICK i \in (p + 1) + 1 .. Len(outq) : r = outq[i]
        OBVIOUS
      <4>2. i - 1 \in p + 1 .. Len(outq') /\ outq'[i - 1] = r
        BY <3>2, <3>3, <4>1
      <4> QED
        BY <4>2
    <3> QED
      BY <3>4, <3>5
  <2> QED
    BY <1>2, <1>5, <2>1 DEF Behind
<1>7. Replying' = Behind[1] /\ Replying' \subseteq Replying /\ h \in Replying /\ h \notin Replying'
  <2>1. Replying' = Behind[1]
    BY <1>5, <1>6 DEF Replying
  <2>2. Behind[1] \subseteq Replying /\ outq[1] \in Replying
    BY <1>1, <1>5, Places
  <2>3. outq[1] \notin Behind[1]
    BY <1>1, <1>5 DEF ReplyInv
  <2> QED
    BY <2>1, <2>2, <2>3
<1>8. \A r \in Replying : r = h \/ r \in Replying'
  <2> SUFFICES ASSUME NEW r \in Replying PROVE r = h \/ r \in Behind[1]
    BY <1>7
  <2>1. \/ \E q \in 1 .. Len(outq) : r = outq[q]
        \/ \E j \in 1 .. Len(jobs) : r = jobs[j]
    BY <1>1, <1>5, Places DEF Replying
  <2>2. \A q \in 1 .. Len(outq) : q = 1 \/ 1 < q
    BY <1>4
  <2>3. 1 \in 0 .. Len(outq)
    BY <1>4
  <2> QED
    BY <1>1, <2>1, <2>2, <2>3, Places
<1>9. Replying \subseteq Reply
  BY <1>1, <1>5, Places DEF Replying
<1> HIDE DEF h
<1>10. ASSUME NEW x \in Replying', NEW y \in Replying', x # y, Orphan(x)'
       PROVE  Before(x, y)
  <2>1. x \in Replying /\ y \in Replying /\ x \in Reply /\ y \in Reply /\ h \in Reply
    BY <1>7, <1>9
  <2>2. CASE Orphan(x)
    BY <1>1, <1>10, <2>1, <2>2 DEF ReplyInv
  <2>3. CASE ~Orphan(x)
    <3>1. PICK r \in Replying : r.n = x.n /\ IsReal(r)
      BY <2>3 DEF Orphan
    <3>2. r = h
      <4>1. \A s \in Replying' : s.n = x.n => ~IsReal(s)
        BY <1>10 DEF Orphan
      <4> QED
        BY <1>8, <3>1, <4>1
    <3>3. x # h /\ y # h
      BY <1>7
    <3>4. \A a, b \in Replying : a # b => Before(a, b) \/ Before(b, a)
      BY <1>1, <1>9, Ordered DEF ReplyInv
    <3>5. Before(x, h)
      <4>1. x.idx \in Int /\ h.idx \in Int /\ h.count \in Int /\ x.n \in Int
        BY <2>1 DEF Reply, Numbers
      <4>2. x.n = h.n /\ x.count = h.count /\ x.idx < x.count /\ h.idx = h.count - 1
        BY <1>1, <1>7, <2>1, <3>1, <3>2 DEF ReplyInv, IsReal
      <4>3. ~Before(h, x)
        BY <4>1, <4>2 DEF Before
      <4> QED
        BY <1>7, <2>1, <3>3, <3>4, <4>3
    <3>6. ~Before(y, h)
      BY <1>1, <1>5, <1>7, <1>10, <3>5 DEF ReplyInv, h
    <3>7. Before(h, y)
      BY <1>7, <2>1, <3>3, <3>4, <3>6
    <3> QED
      BY <2>1, <3>5, <3>7, Ordered
  <2> QED
    BY <2>2, <2>3
<1>11. ReplyInv'
  <2>1. /\ \A r \in Replying' : r.n # 0 /\ r.idx < r.count
        /\ \A x, y \in Replying' : x.n = y.n => x.count = y.count
    BY <1>1, <1>7 DEF ReplyInv
  <2>2. \A i, j \in 1 .. Len(jobs') : i < j => Before(jobs'[i], jobs'[j])
    BY <1>1, <1>2 DEF ReplyInv
  <2>3. ASSUME NEW p \in 1 .. Len(outq')
        PROVE  /\ outq'[p] \notin Behind'[p]
               /\ \A x, y \in Behind'[p] : Before(x, outq'[p]) /\ Before(y, outq'[p]) => x = y
    <3>1. outq'[p] = outq[p + 1] /\ Behind'[p] = Behind[p + 1] /\ p + 1 \in 1 .. Len(outq)
      BY <1>4, <1>5, <1>6
    <3> QED
      BY <1>1, <3>1 DEF ReplyInv
  <2>4. \A x, y \in Replying' : x # y /\ Orphan(x)' => Before(x, y)
    BY <1>10
  <2> QED
    BY <2>1, <2>2, <2>3, <2>4 DEF ReplyInv
<1>12. \A l \in 0..7 : \A n \in Place'[l] : n \in Place[l]
  <2>1. \A n : OnWire(n)' => OnWire(n)
    BY <1>2 DEF OnWire
  <2> QED
    BY <1>2, <1>7, <2>1 DEF Place
<1>13. LineInv'
  BY <1>1, <1>2, <1>12 DEF LineInv
<1>14. Owed' \subseteq Owed
  <2>1. \A l \in 1..7 : l \in 0..7
    OBVIOUS
  <2> QED
    BY <1>7, <1>12, <2>1 DEF Owed
<1>15. Cardinality(Owed') <= Cardinality(Owed) /\ Cardinality(Owed') \in Nat /\ Cardinality(Owed) \in Nat
  BY <1>14, Shrinks, OwedFinite
<1>16. CASE pending' = pending
  BY <1>1, <1>11, <1>13, <1>15, <1>16
<1>17. CASE IsReal(h) /\ pending' = IF pending = 0 THEN 0 ELSE pending - 1
  <2>1. h \in Reply /\ h.n # 0
    BY <1>1, <1>7, <1>9 DEF ReplyInv
  <2>2. h.n \in 1..MaxFrames
    BY <2>1 DEF Reply, Numbers
  <2>3. h.n \in Owed /\ h.n \in Place[0]
    BY <1>7, <1>17, <2>2 DEF Owed, Place
  <2>4. h.n \notin Owed'
    <3>1. ASSUME NEW l \in 1..7, h.n \in Place'[l] PROVE FALSE
      <4>1. h.n \in Place[l] /\ 0 < l /\ 0 \in 0..7 /\ l \in 0..7
        BY <1>12, <3>1
      <4>2. h.n < h.n
        BY <1>1, <2>3, <4>1 DEF LineInv
      <4> QED
        BY <2>2, <4>2
    <3>2. ASSUME NEW r \in Replying', r.n = h.n, IsReal(r) PROVE FALSE
      <4>1. r \in Replying /\ r \in Reply
        BY <1>7, <1>9
      <4>2. r.count = h.count
        BY <1>1, <1>7, <3>2, <4>1 DEF ReplyInv
      <4>3. r.idx = h.idx
        BY <1>17, <3>2, <4>2 DEF IsReal
      <4>4. r = h
        BY <2>1, <3>2, <4>1, <4>2, <4>3 DEF Reply
      <4> QED
        BY <1>7, <4>4
    <3> QED
      BY <3>1, <3>2 DEF Owed
  <2>5. Owed' \subseteq Owed \ {h.n}
    BY <1>14, <2>4
  <2>6. IsFiniteSet(Owed \ {h.n}) /\ Cardinality(Owed \ {h.n}) = Cardinality(Owed) - 1
    BY <2>3, OwedFinite, FS_RemoveElement
  <2>7. Cardinality(Owed') <= Cardinality(Owed) - 1
    BY <2>5, <2>6, FS_Subset
  <2>8. Cardinality(Owed') <= pending'
    BY <1>1, <1>15, <1>17, <2>7
  <2> QED
    BY <1>11, <1>13, <2>8
<1> QED
  BY <1>3, <1>16, <1>17

LEMMA EmitKeeps ==
  ASSUME IInv, Live, Emit
  PROVE  LineInv' /\ ReplyInv' /\ Cardinality(Owed') <= pending' /\ lost' = lost
<1>1. LineInv /\ ReplyInv /\ Cardinality(Owed) <= pending /\ pending \in 0..2
      /\ outq \in Seq(Reply) /\ jobs \in Seq(Reply)
  BY LiveParts
<1>2. UNCHANGED <<wire, sent, item, box, pending>>
  BY DEF Emit, threads, browser
<1>3. PICK i \in DOMAIN jobs \cap {1, 2} :
        /\ jobs' = RemoveAt(jobs, i)
        /\ outq' = IF Len(outq) < OutSize THEN Append(outq, jobs[i]) ELSE outq
  BY DEF Emit
<1>4. Len(outq) \in Nat /\ Len(jobs) \in Nat /\ i \in 1 .. Len(jobs) /\ i \in {1, 2} /\ jobs # <<>>
  BY <1>1, <1>3
<1>5. Len(outq) < OutSize
  BY <1>4, Room
<1>6. lost' = lost
  <2>1. ~(Len(outq) >= OutSize)
    BY <1>4, <1>5
  <2>2. lost' = (lost \/ Len(outq) >= OutSize) /\ lost \in BOOLEAN
    BY DEF Emit, IInv, PipelineOK
  <2> QED
    BY <2>1, <2>2, Zenon
<1>7. /\ jobs' \in Seq(Reply) /\ Len(jobs') = Len(jobs) - 1
      /\ \A j \in 1 .. Len(jobs) - 1 : jobs'[j] = IF j < i THEN jobs[j] ELSE jobs[j + 1]
  BY <1>1, <1>3, <1>4, Removed
<1>8. jobs[i] \in Reply
  BY <1>1, <1>4
<1>9. /\ outq' \in Seq(Reply) /\ Len(outq') = Len(outq) + 1
      /\ \A p \in 1 .. Len(outq) : outq'[p] = outq[p]
      /\ outq'[Len(outq) + 1] = jobs[i]
  BY <1>1, <1>3, <1>5, <1>8, AppendProperties
\* Which job is which afterwards.
<1> DEFINE old == [j \in 1 .. Len(jobs') |-> IF j < i THEN j ELSE j + 1]
<1>10. /\ \A j \in 1 .. Len(jobs') : old[j] \in 1 .. Len(jobs) /\ old[j] # i /\ jobs'[j] = jobs[old[j]]
       /\ \A j, k \in 1 .. Len(jobs') : j < k => old[j] < old[k]
       /\ \A j \in 1 .. Len(jobs) : j # i => \E k \in 1 .. Len(jobs') : jobs[j] = jobs'[k]
  <2>1. \A j \in 1 .. Len(jobs') : old[j] \in 1 .. Len(jobs) /\ old[j] # i
    BY <1>4, <1>7
  <2>2. \A j \in 1 .. Len(jobs') : jobs'[j] = jobs[old[j]]
    BY <1>4, <1>7
  <2>3. \A j, k \in 1 .. Len(jobs') : j < k => old[j] < old[k]
    BY <1>4, <1>7
  <2>4. ASSUME NEW j \in 1 .. Len(jobs), j # i PROVE \E k \in 1 .. Len(jobs') : jobs[j] = jobs'[k]
    <3>1. CASE j < i
      <4>1. j \in 1 .. Len(jobs')
        BY <1>4, <1>7, <3>1
      <4> QED
        BY <1>7, <3>1, <4>1
    <3>2. CASE ~(j < i)
      <4>1. j - 1 \in 1 .. Len(jobs') /\ ~(j - 1 < i) /\ (j - 1) + 1 = j
        BY <1>4, <1>7, <2>4, <3>2
      <4>2. jobs'[j - 1] = jobs[j]
        BY <1>7, <4>1
      <4> QED
        BY <4>1, <4>2
    <3> QED
      BY <3>1, <3>2
  <2> HIDE DEF old
  <2> QED
    BY <2>1, <2>2, <2>3, <2>4
<1> HIDE DEF old
<1>11. \A p \in 0 .. Len(outq) : Behind'[p] = Behind[p]
  <2> SUFFICES ASSUME NEW p \in 0 .. Len(outq) PROVE Behind'[p] = Behind[p]
    OBVIOUS
  <2>1. p \in 0 .. Len(outq')
    BY <1>4, <1>9
  <2>2. ASSUME NEW r \in Behind'[p] PROVE r \in Behind[p]
    <3>1. \/ \E q \in 1 .. Len(outq') : p < q /\ r = outq'[q]
          \/ \E j \in 1 .. Len(jobs') : r = jobs'[j]
      <4>1. p + 1 \in Nat /\ \A q \in p + 1 .. Len(outq') : q \in 1 .. Len(outq') /\ p < q
        BY <1>4, <1>9
      <4> QED
        BY <2>1, <2>2, <4>1 DEF Behind
    <3>2. CASE \E j \in 1 .. Len(jobs') : r = jobs'[j]
      BY <1>1, <1>10, <3>2, Places, SMTT(30)
    <3>3. CASE \E q \in 1 .. Len(outq') : p < q /\ r = outq'[q]
      <4>1. PICK q \in 1 .. Len(outq') : p < q /\ r = outq'[q]
        BY <3>3
      <4>2. q \in 1 .. Len(outq) \/ q = Len(outq) + 1
        BY <1>4, <1>9
      <4> QED
        BY <1>1, <1>4, <1>9, <4>1, <4>2, Places
    <3> QED
      BY <3>1, <3>2, <3>3
  <2>3. ASSUME NEW r \in Behind[p] PROVE r \in Behind'[p]
    <3>1. \/ \E q \in 1 .. Len(outq) : p < q /\ r = outq[q]
          \/ \E j \in 1 .. Len(jobs) : r = jobs[j]
      BY <1>1, <2>3, Places
    <3>2. \A q \in 1 .. Len(outq') : p < q => outq'[q] \in Behind'[p]
      <4>1. \A q \in 1 .. Len(outq') : p < q => q \in p + 1 .. Len(outq')
        BY <1>4, <1>9
      <4> QED
        BY <2>1, <4>1 DEF Behind
    <3>3. \A j \in 1 .. Len(jobs') : jobs'[j] \in Behind'[p]
      BY <2>1 DEF Behind
    <3>4. ASSUME NEW q \in 1 .. Len(outq), p < q, r = outq[q] PROVE r \in Behind'[p]
      <4>1. q \in 1 .. Len(outq')
        BY <1>4, <1>9
      <4> QED
        BY <1>9, <3>2, <3>4, <4>1
    <3>5. jobs[i] \in Behind'[p]
      <4>1. Len(outq) + 1 \in 1 .. Len(outq') /\ p < Len(outq) + 1
        BY <1>4, <1>9
      <4> QED
        BY <1>9, <3>2, <4>1
    <3>6. \A j \in 1 .. Len(jobs) : jobs[j] \in Behind'[p]
      BY <1>10, <3>3, <3>5
    <3> QED
      BY <3>1, <3>4, <3>6
  <2> QED
    BY <2>2, <2>3
<1>12. Replying' = Replying
  <2>1. 0 \in 0 .. Len(outq)
    BY <1>4
  <2> QED
    BY <1>11, <2>1 DEF Replying
<1>13. \A j, k \in 1 .. Len(jobs) : j < k => Before(jobs[j], jobs[k])
  BY <1>1 DEF ReplyInv
<1>14. \A j \in 1 .. Len(jobs) : jobs[j] \in Reply
  BY <1>1
<1>15. ReplyInv'
  <2>1. /\ \A r \in Replying' : r.n # 0 /\ r.idx < r.count
        /\ \A x, y \in Replying' : x.n = y.n => x.count = y.count
        /\ \A x, y \in Replying' : x # y /\ Orphan(x)' => Before(x, y)
    BY <1>1, <1>12 DEF ReplyInv, Orphan
  <2>2. \A j, k \in 1 .. Len(jobs') : j < k => Before(jobs'[j], jobs'[k])
    <3> SUFFICES ASSUME NEW j \in 1 .. Len(jobs'), NEW k \in 1 .. Len(jobs'), j < k
                 PROVE  Before(jobs'[j], jobs'[k])
      OBVIOUS
    <3>1. /\ old[j] \in 1 .. Len(jobs) /\ jobs'[j] = jobs[old[j]]
          /\ old[k] \in 1 .. Len(jobs) /\ jobs'[k] = jobs[old[k]]
          /\ old[j] < old[k]
      BY <1>10
    <3>2. Before(jobs[old[j]], jobs[old[k]])
      BY <1>13, <3>1
    <3> QED
      BY <3>1, <3>2
  <2>3. ASSUME NEW p \in 1 .. Len(outq')
        PROVE  /\ outq'[p] \notin Behind'[p]
               /\ \A x, y \in Behind'[p] : Before(x, outq'[p]) /\ Before(y, outq'[p]) => x = y
    <3>1. CASE p \in 1 .. Len(outq)
      <4>1. p \in 0 .. Len(outq)
        BY <1>4, <3>1
      <4> QED
        BY <1>1, <1>9, <1>11, <3>1, <4>1 DEF ReplyInv
    <3>2. CASE p = Len(outq) + 1
      <4>1. outq'[p] = jobs[i]
        BY <1>9, <3>2
      <4>2. \A r \in Behind'[p] : \E j \in 1 .. Len(jobs') : r = jobs'[j]
        <5>1. p \in 0 .. Len(outq') /\ p + 1 .. Len(outq') = {}
          BY <1>4, <1>9, <3>2
        <5> QED
          BY <5>1 DEF Behind
      <4>3. \A r \in Behind'[p] : \E j \in 1 .. Len(jobs) : j # i /\ r = jobs[j]
        BY <1>10, <4>2
      <4>4. \A j \in 1 .. Len(jobs) : j # i => jobs[j] # jobs[i] /\ (Before(jobs[j], jobs[i]) => j < i)
        <5> SUFFICES ASSUME NEW j \in 1 .. Len(jobs), j # i
                     PROVE  jobs[j] # jobs[i] /\ (Before(jobs[j], jobs[i]) => j < i)
          OBVIOUS
        <5>1. CASE j < i
          BY <1>4, <1>13, <1>14, <5>1, Ordered
        <5>2. CASE i < j
          BY <1>4, <1>13, <1>14, <5>2, Ordered
        <5>3. j < i \/ i < j
          BY <1>4
        <5> QED
          BY <5>1, <5>2, <5>3
      <4>5. \A j \in 1 .. Len(jobs) : j < i => j = 1
        BY <1>4
      <4> QED
        BY <4>1, <4>3, <4>4, <4>5
    <3>3. p \in 1 .. Len(outq) \/ p = Len(outq) + 1
      BY <1>4, <1>9
    <3> QED
      BY <3>1, <3>2, <3>3
  <2> QED
    BY <2>1, <2>2, <2>3 DEF ReplyInv
<1>16. Place' = Place
  <2>1. \A n : OnWire(n)' <=> OnWire(n)
    BY <1>2 DEF OnWire
  <2> QED
    BY <1>2, <1>12, <2>1 DEF Place
<1>17. LineInv'
  BY <1>1, <1>2, <1>16 DEF LineInv
<1>18. Owed' = Owed
  BY <1>12, <1>16 DEF Owed
<1> QED
  BY <1>1, <1>2, <1>6, <1>15, <1>17, <1>18

LEMMA GenerateKeeps ==
  ASSUME IInv, Live, Generate
  PROVE  LineInv' /\ ReplyInv' /\ Cardinality(Owed') <= pending'
<1> DEFINE m == item["fg"]
<1>1. LineInv /\ ReplyInv /\ Cardinality(Owed) <= pending /\ pending \in 0..2
      /\ outq \in Seq(Reply) /\ jobs \in Seq(Reply)
      /\ box \in [Stages -> 0..MaxFrames] /\ item \in [Stages -> 0..MaxFrames]
  BY LiveParts
<1>2. UNCHANGED <<wire, sent, box, pending, outq>> /\ item' = [item EXCEPT !["fg"] = 0]
      /\ phase["fg"] = "working"
  BY DEF Generate, Idle, browser
<1>3. PICK count \in 1..Multiplier : jobs' = jobs \o Replies(m, count)
  <2>1. hpc # "ended"
    BY DEF Live
  <2>2. 1 \in 1..Multiplier /\ Multiplier \in 1..Multiplier
    OBVIOUS
  <2> QED
    BY <2>1, <2>2 DEF Generate
<1>4. m \in 1..MaxFrames /\ m \in Place[1] /\ 1 \in 0..7 /\ 0 \in 0..7
  <2>1. m # 0 /\ m \in 0..MaxFrames
    BY <1>1, <1>2 DEF IInv, StageInv, Stages
  <2> QED
    BY <2>1 DEF Place
<1> DEFINE N == Replies(m, count)
<1> HIDE DEF m
<1>5. /\ N \in Seq(Reply) /\ Len(N) = count /\ count \in Nat /\ count >= 1
      /\ \A i \in 1..count : N[i].n = m /\ N[i].idx = i - 1 /\ N[i].count = count
  <2>1. \A i \in 1..count : [n |-> m, idx |-> i - 1, count |-> count] \in Reply
    <3>1. m \in Numbers
      BY <1>4 DEF Numbers
    <3>2. \A i \in 1..count : i - 1 \in 0 .. Multiplier - 1
      OBVIOUS
    <3> QED
      BY <3>1, <3>2 DEF Reply
  <2> QED
    BY <2>1 DEF Replies
<1>6. jobs' = jobs \o N
  BY <1>3
<1> HIDE DEF N
<1>7. /\ Len(jobs) \in Nat /\ Len(outq) \in Nat /\ Len(jobs') = Len(jobs) + count
      /\ jobs' \in Seq(Reply)
      /\ \A j \in 1 .. Len(jobs) + count :
           jobs'[j] = IF j <= Len(jobs) THEN jobs[j] ELSE N[j - Len(jobs)]
  <2>1. Len(jobs) \in Nat /\ Len(outq) \in Nat
    BY <1>1
  <2>2. /\ jobs \o N \in Seq(Reply) /\ Len(jobs \o N) = Len(jobs) + Len(N)
        /\ \A j \in 1 .. Len(jobs) + Len(N) :
             (jobs \o N)[j] = IF j <= Len(jobs) THEN jobs[j] ELSE N[j - Len(jobs)]
    <3>1. jobs \in Seq(Reply) /\ N \in Seq(Reply)
      BY <1>1, <1>5
    <3> QED
      BY <3>1, ConcatProperties, ZenonT(30)
  <2>3. Len(N) = count
    BY <1>5
  <2> QED
    BY <1>6, <2>1, <2>2, <2>3
<1>8. /\ \A j \in 1 .. Len(jobs) : j \in 1 .. Len(jobs') /\ jobs'[j] = jobs[j]
      /\ \A j \in 1 .. Len(jobs') :
           j \in 1 .. Len(jobs) \/ (j - Len(jobs) \in 1..count /\ jobs'[j] = N[j - Len(jobs)])
      /\ \A i \in 1..count : Len(jobs) + i \in 1 .. Len(jobs') /\ jobs'[Len(jobs) + i] = N[i]
  <2>1. \A j \in 1 .. Len(jobs) : j \in 1 .. Len(jobs') /\ jobs'[j] = jobs[j]
    BY <1>5, <1>7
  <2>2. \A j \in 1 .. Len(jobs') :
          j \in 1 .. Len(jobs) \/ (j - Len(jobs) \in 1..count /\ jobs'[j] = N[j - Len(jobs)])
    BY <1>5, <1>7
  <2>3. ASSUME NEW i \in 1..count
        PROVE  Len(jobs) + i \in 1 .. Len(jobs') /\ jobs'[Len(jobs) + i] = N[i]
    <3>1. /\ Len(jobs) + i \in 1 .. Len(jobs) + count /\ ~(Len(jobs) + i <= Len(jobs))
          /\ (Len(jobs) + i) - Len(jobs) = i
      BY <1>5, <1>7
    <3> QED
      BY <1>7, <3>1
  <2> QED
    BY <2>1, <2>2, <2>3
<1>9. \A p \in 0 .. Len(outq) : Behind[p] \subseteq Behind'[p]
        /\ \A r \in Behind'[p] : r \in Behind[p] \/ \E i \in 1..count : r = N[i]
  <2> SUFFICES ASSUME NEW p \in 0 .. Len(outq)
               PROVE  Behind[p] \subseteq Behind'[p]
                      /\ \A r \in Behind'[p] : r \in Behind[p] \/ \E i \in 1..count : r = N[i]
    OBVIOUS
  <2>1. ASSUME NEW r \in Behind[p] PROVE r \in Behind'[p]
    BY <1>2, <1>8, <2>1 DEF Behind
  <2>2. ASSUME NEW r \in Behind'[p] PROVE r \in Behind[p] \/ \E i \in 1..count : r = N[i]
    <3>1. /\ p \in 0 .. Len(outq') /\ outq' = outq
          /\ \A q \in p + 1 .. Len(outq') : outq'[q] \in Behind[p]
      BY <1>2 DEF Behind
    <3>2. \/ \E q \in p + 1 .. Len(outq') : r = outq'[q]
          \/ \E j \in 1 .. Len(jobs') : r = jobs'[j]
      BY <2>2, <3>1 DEF Behind
    <3>3. \A j \in 1 .. Len(jobs) : jobs[j] \in Behind[p]
      BY <1>1, Places
    <3>4. ASSUME NEW j \in 1 .. Len(jobs'), r = jobs'[j]
          PROVE  r \in Behind[p] \/ \E i \in 1..count : r = N[i]
      BY <1>8, <3>3, <3>4
    <3> QED
      BY <3>1, <3>2, <3>4
  <2> QED
    BY <2>1, <2>2
<1>10. /\ Replying \subseteq Replying'
       /\ \A r \in Replying' : r \in Replying \/ \E i \in 1..count : r = N[i]
       /\ \A i \in 1..count : N[i] \in Replying'
  <2>1. 0 \in 0 .. Len(outq) /\ 0 \in 0 .. Len(outq')
    BY <1>2, <1>7
  <2>2. \A j \in 1 .. Len(jobs') : jobs'[j] \in Replying'
    BY <2>1 DEF Behind, Replying
  <2> QED
    BY <1>8, <1>9, <2>1, <2>2 DEF Replying
<1>11. \A r \in Replying : r \in Reply /\ r.n \in 1..MaxFrames /\ r.n < m
  <2> SUFFICES ASSUME NEW r \in Replying PROVE r \in Reply /\ r.n \in 1..MaxFrames /\ r.n < m
    OBVIOUS
  <2>1. 0 \in 0 .. Len(outq)
    BY <1>7
  <2>2. r \in Reply /\ r.n # 0
    BY <1>1, <2>1, Places DEF Replying, ReplyInv
  <2>3. r.n \in 1..MaxFrames
    BY <2>2 DEF Reply, Numbers
  <2>4. r.n \in Place[0]
    BY <2>3, <1>4 DEF Place
  <2>5. 0 < 1
    OBVIOUS
  <2> QED
    BY <1>1, <1>4, <2>2, <2>3, <2>4, <2>5 DEF LineInv
<1>12. ReplyInv'
  <2>1. ASSUME NEW r \in Replying' PROVE r.n # 0 /\ r.idx < r.count
    BY <1>1, <1>4, <1>5, <1>10 DEF ReplyInv
  <2>2. ASSUME NEW x \in Replying', NEW y \in Replying', x.n = y.n PROVE x.count = y.count
    <3>1. \A z \in Replying : z.n # m
      BY <1>4, <1>11
    <3>2. CASE x \in Replying /\ y \in Replying
      BY <1>1, <2>2, <3>2 DEF ReplyInv
    <3>3. CASE \E i \in 1..count : x = N[i]
      <4>1. x.n = m /\ x.count = count
        BY <1>5, <3>3
      <4>2. \E i \in 1..count : y = N[i]
        BY <1>10, <2>2, <3>1, <4>1
      <4> QED
        BY <1>5, <4>1, <4>2
    <3>4. CASE \E i \in 1..count : y = N[i]
      <4>1. y.n = m /\ y.count = count
        BY <1>5, <3>4
      <4>2. \E i \in 1..count : x = N[i]
        BY <1>10, <2>2, <3>1, <4>1
      <4> QED
        BY <1>5, <4>1, <4>2
    <3> QED
      BY <1>10, <3>2, <3>3, <3>4
  <2>3. ASSUME NEW i \in 1 .. Len(jobs'), NEW j \in 1 .. Len(jobs'), i < j
        PROVE  Before(jobs'[i], jobs'[j])
    <3>1. CASE j \in 1 .. Len(jobs)
      <4>1. i \in 1 .. Len(jobs)
        BY <1>7, <2>3, <3>1
      <4> QED
        BY <1>1, <1>8, <2>3, <3>1, <4>1 DEF ReplyInv
    <3>2. CASE i \in 1 .. Len(jobs) /\ j - Len(jobs) \in 1..count /\ jobs'[j] = N[j - Len(jobs)]
      <4>1. 0 \in 0 .. Len(outq)
        BY <1>7
      <4>2. jobs'[i] \in Replying
        BY <1>1, <1>8, <3>2, <4>1, Places DEF Replying
      <4> QED
        BY <1>5, <1>11, <3>2, <4>2 DEF Before
    <3>3. CASE /\ i - Len(jobs) \in 1..count /\ jobs'[i] = N[i - Len(jobs)]
               /\ j - Len(jobs) \in 1..count /\ jobs'[j] = N[j - Len(jobs)]
      <4> DEFINE a == i - Len(jobs)
      <4> DEFINE b == j - Len(jobs)
      <4>1. a < b /\ a \in 1..count /\ b \in 1..count
        BY <1>7, <2>3, <3>3
      <4>2. jobs'[i] = N[a] /\ jobs'[j] = N[b]
        BY <3>3
      <4> HIDE DEF a, b
      <4> QED
        BY <1>5, <4>1, <4>2 DEF Before
    <3> QED
      BY <1>8, <3>1, <3>2, <3>3
  <2>4. ASSUME NEW p \in 1 .. Len(outq')
        PROVE  /\ outq'[p] \notin Behind'[p]
               /\ \A x, y \in Behind'[p] : Before(x, outq'[p]) /\ Before(y, outq'[p]) => x = y
    <3>1. outq'[p] = outq[p] /\ p \in 1 .. Len(outq) /\ p \in 0 .. Len(outq)
      BY <1>2, <1>7
    <3>2. outq[p].n < m /\ outq[p].n \in Int /\ m \in Int
      BY <1>1, <1>4, <1>11, <3>1, Places
    <3>3. \A i \in 1..count : N[i] # outq[p] /\ ~Before(N[i], outq[p])
      BY <1>5, <3>2 DEF Before
    <3>4. outq[p] \notin Behind[p]
          /\ \A x, y \in Behind[p] : Before(x, outq[p]) /\ Before(y, outq[p]) => x = y
      BY <1>1, <3>1 DEF ReplyInv
    <3>5. \A r \in Behind'[p] : r \in Behind[p] \/ (r # outq[p] /\ ~Before(r, outq[p]))
      BY <1>9, <3>1, <3>3, SMTT(30)
    <3> QED
      BY <3>1, <3>4, <3>5
  <2>5. ASSUME NEW x \in Replying', NEW y \in Replying', x # y, Orphan(x)' PROVE Before(x, y)
    <3>1. \A r \in Replying' : r.n = x.n => ~IsReal(r)
      BY <2>5 DEF Orphan
    <3>2. x.n # m
      <4>1. count \in 1..count
        BY <1>5
      <4>2. N[count] \in Replying' /\ N[count].n = m /\ IsReal(N[count])
        BY <1>5, <1>10, <4>1 DEF IsReal
      <4> QED
        BY <3>1, <4>2
    <3>3. x \in Replying
      BY <1>5, <1>10, <3>2
    <3>4. Orphan(x)
      BY <1>10, <3>1 DEF Orphan
    <3>5. CASE y \in Replying
      BY <1>1, <2>5, <3>3, <3>4, <3>5 DEF ReplyInv
    <3>6. CASE \E i \in 1..count : y = N[i]
      BY <1>5, <1>11, <3>3, <3>6 DEF Before
    <3> QED
      BY <1>10, <3>5, <3>6
  <2> QED
    BY <2>1, <2>2, <2>3, <2>4, <2>5 DEF ReplyInv
<1>13. \A l \in 0..7 : \A n \in Place'[l] :
         (n \in Place[l] /\ l # 0 + 1) \/ (l = 0 /\ n \in Place[0 + 1])
  <2>1. \A n : OnWire(n)' <=> OnWire(n)
    BY <1>2 DEF OnWire
  <2>2. item'["fg"] = 0 /\ item'["vsr"] = item["vsr"] /\ item'["dlss"] = item["dlss"]
    BY <1>1, <1>2 DEF Stages
  <2>3. \A n \in 1..MaxFrames : (\E r \in Replying' : r.n = n) => (\E r \in Replying : r.n = n) \/ n = m
    BY <1>5, <1>10
  <2> QED
    BY <1>2, <2>1, <2>2, <2>3 DEF Place, m
<1>14. LineInv'
  <2>1. 0 \in 0..5
    OBVIOUS
  <2> QED
    BY <1>2, <1>13, <2>1, LineMoved
<1>15. Owed' \subseteq Owed
  <2>1. 1 \in 1..7 /\ \A l \in 1..7 : l \in 0..7 /\ l # 0
    OBVIOUS
  <2>2. \A n : (\E r \in Replying' : r.n = n /\ IsReal(r)) =>
          (\E r \in Replying : r.n = n /\ IsReal(r)) \/ n = m
    BY <1>5, <1>10
  <2> QED
    BY <1>4, <1>13, <2>1, <2>2 DEF Owed
<1>16. Cardinality(Owed') <= Cardinality(Owed) /\ Cardinality(Owed') \in Nat /\ Cardinality(Owed) \in Nat
  BY <1>15, Shrinks, OwedFinite
<1> QED
  BY <1>1, <1>2, <1>12, <1>14, <1>16

----------------------------------------------------------------------------
(* Each step keeps the invariant                                            *)

\* What a step leaves alone.
LEMMA Untouched ==
  IInv =>
    /\ UNCHANGED <<page, conns, oldClose, configs, sent, base, pending, newest, wire>> => BrowserOK'
    /\ UNCHANGED <<hpc, conf, acked, cpc, lock, faults, late>> => HandlerOK'
    /\ UNCHANGED <<object, box, item, phase, jobs, outq, lost>> => PipelineOK'
    /\ UNCHANGED <<cpc, hpc, faults, object, conf, acked>> => AckInv'
    /\ UNCHANGED <<phase, item, hpc, jobs, late, object>> => StageInv'
<1> SUFFICES ASSUME IInv
             PROVE  /\ UNCHANGED <<page, conns, oldClose, configs, sent, base, pending, newest,
                                   wire>> => BrowserOK'
                    /\ UNCHANGED <<hpc, conf, acked, cpc, lock, faults, late>> => HandlerOK'
                    /\ UNCHANGED <<object, box, item, phase, jobs, outq, lost>> => PipelineOK'
                    /\ UNCHANGED <<cpc, hpc, faults, object, conf, acked>> => AckInv'
                    /\ UNCHANGED <<phase, item, hpc, jobs, late, object>> => StageInv'
  OBVIOUS
<1>1. ASSUME UNCHANGED <<page, conns, oldClose, configs, sent, base, pending, newest, wire>>
      PROVE  BrowserOK'
  BY <1>1 DEF IInv, BrowserOK
<1>2. ASSUME UNCHANGED <<hpc, conf, acked, cpc, lock, faults, late>> PROVE HandlerOK'
  BY <1>2 DEF IInv, HandlerOK
<1>3. ASSUME UNCHANGED <<object, box, item, phase, jobs, outq, lost>> PROVE PipelineOK'
  BY <1>3 DEF IInv, PipelineOK
<1>4. ASSUME UNCHANGED <<cpc, hpc, faults, object, conf, acked>> PROVE AckInv'
  BY <1>4 DEF IInv, AckInv, Wanted
<1>5. ASSUME UNCHANGED <<phase, item, hpc, jobs, late, object>> PROVE StageInv'
  BY <1>5 DEF IInv, StageInv, Ended
<1> QED
  BY <1>1, <1>2, <1>3, <1>4, <1>5

\* The credits of the page's first connection, step by step; later ones are not counted on.
LEMMA CreditStep ==
  ASSUME IInv, conns' = conns, conns = 1 => oldClose' = oldClose /\ lost' = lost, Live' => Live,
         Live => LineInv' /\ ReplyInv' /\ Cardinality(Owed') <= pending'
  PROVE  CreditInv'
<1>1. conns' = 1 => ~oldClose' /\ ~lost'
  BY DEF IInv, CreditInv
<1> QED
  BY <1>1 DEF CreditInv

\* The frames stay where they are.
LEMMA CreditSame ==
  ASSUME IInv, UNCHANGED <<conns, oldClose, lost, outq, jobs, item, box, wire, sent, pending>>,
         Live' => Live
  PROVE  CreditInv'
<1>1. ASSUME Live PROVE LineInv' /\ ReplyInv' /\ Cardinality(Owed') <= pending'
  <2>1. LineInv /\ ReplyInv /\ Cardinality(Owed) <= pending
    BY <1>1, LiveParts
  <2>2. ReplyInv' /\ Replying' = Replying
    BY <2>1, SameReplies
  <2>3. \A n : OnWire(n)' <=> OnWire(n)
    BY DEF OnWire
  <2>4. Place' = Place
    BY <2>2, <2>3 DEF Place
  <2>5. LineInv'
    BY <2>1, <2>4 DEF LineInv
  <2>6. Owed' = Owed
    BY <2>2, <2>4 DEF Owed
  <2> QED
    BY <2>1, <2>2, <2>5, <2>6
<1> QED
  BY <1>1, CreditStep

LEMMA InitInvariant == Init => IInv
<1> SUFFICES ASSUME Init PROVE IInv
  OBVIOUS
<1> USE DEF Init
<1>1. PICK c \in Configs : wire = <<Config(c)>>
  OBVIOUS
<1>2. wire \in Seq(Message) /\ Len(wire) = 1 /\ wire[1] = Config(c) /\ Config(c).kind = "config"
  BY <1>1, Messages
<1>3. BrowserOK
  <2>1. page \in BOOLEAN /\ oldClose \in BOOLEAN
    BY Zenon
  <2>2. /\ conns \in 1..MaxConns /\ configs \in 1..MaxConfigs /\ sent \in Numbers
        /\ base \in Numbers /\ newest \in Numbers /\ pending \in 0..2
    BY DEF Numbers
  <2> QED
    BY <1>2, <2>1, <2>2 DEF BrowserOK
<1>4. HandlerOK
  <2>1. late \in BOOLEAN
    BY Zenon
  <2>2. faults \in 0..MaxFaults
    OBVIOUS
  <2> QED
    BY <2>1, <2>2 DEF HandlerOK
<1>5. PipelineOK
  <2>1. lost \in BOOLEAN
    BY Zenon
  <2>2. jobs \in Seq(Reply) /\ outq \in Seq(Reply)
    OBVIOUS
  <2>3. /\ object \in [Stages -> [key : Nat, up : {"absent", "on", "dead"}]]
        /\ box \in [Stages -> Numbers] /\ item \in [Stages -> Numbers]
        /\ phase \in [Stages -> {"idle", "taken", "working", "ended"}]
    BY DEF Absent, Numbers
  <2> QED
    BY <2>1, <2>2, <2>3 DEF PipelineOK
<1>6. AckInv
  BY DEF AckInv
<1>7. StageInv
  BY DEF StageInv
<1>8. Replying = {}
  <2>1. Len(outq) = 0 /\ Len(jobs) = 0 /\ 0 \in 0 .. Len(outq)
    OBVIOUS
  <2> QED
    BY <2>1 DEF Replying, Behind
<1>9. \A n : ~OnWire(n)
  BY <1>2 DEF OnWire
<1>10. \A l \in 0..7 : Place[l] = {}
  BY <1>8, <1>9, SMTT(30) DEF Place, Stages
<1>11. Owed = {} /\ Cardinality(Owed) = 0
  <2>1. Owed = {}
    <3>1. \A l \in 1..7 : l \in 0..7
      OBVIOUS
    <3> QED
      BY <1>8, <1>10, <3>1 DEF Owed
  <2> QED
    BY <2>1, FS_EmptySet
<1>12. LineInv
  BY <1>2, <1>10 DEF LineInv
<1>13. ReplyInv
  <2>1. Len(outq) = 0 /\ Len(jobs) = 0
    OBVIOUS
  <2> QED
    BY <1>8, <2>1 DEF ReplyInv
<1>14. CreditInv
  BY <1>11, <1>12, <1>13 DEF CreditInv
<1> QED
  BY <1>3, <1>4, <1>5, <1>6, <1>7, <1>14 DEF IInv

LEMMA PageStep == IInv /\ Page => IInv'
<1> SUFFICES ASSUME IInv, Page PROVE IInv'
  OBVIOUS
<1> USE DEF handler, threads
<1>1. CASE Tick
  <2>u. UNCHANGED <<page, conns, oldClose, configs, base, newest, hpc, conf, acked, cpc, lock, object,
                    box, phase, item, jobs, outq, lost, faults, late>>
    BY <1>1 DEF Tick
  <2>1. HandlerOK' /\ PipelineOK' /\ AckInv' /\ StageInv'
    BY <2>u, Untouched
  <2>2. BrowserOK'
    <3>1. sent' \in Numbers /\ pending' \in 0..2
      BY <1>1 DEF Tick, HasCredit, IInv, BrowserOK, Numbers
    <3>2. wire' \in Seq(Message)
      <4>1. Frame(sent + 1) \in Message /\ wire \in Seq(Message)
        BY <1>1, <3>1, Messages DEF Tick, IInv, BrowserOK
      <4>2. wire' = Append(wire, Frame(sent + 1))
        BY <1>1 DEF Tick
      <4> QED
        BY <4>1, <4>2, Sends
    <3> QED
      BY <2>u, <3>1, <3>2 DEF IInv, BrowserOK
  <2>3. CreditInv'
    BY <1>1, <2>u, TickKeeps, CreditStep DEF Live
  <2> QED
    BY <2>1, <2>2, <2>3 DEF IInv
<1>2. CASE SendConfigure
  <2>u. UNCHANGED <<page, conns, oldClose, sent, base, pending, newest, hpc, conf, acked, cpc, lock,
                    object, box, phase, item, jobs, outq, lost, faults, late>>
    BY <1>2 DEF SendConfigure
  <2>1. HandlerOK' /\ PipelineOK' /\ AckInv' /\ StageInv'
    BY <2>u, Untouched
  <2>2. BrowserOK'
    <3>1. configs' \in 1..MaxConfigs
      BY <1>2 DEF SendConfigure, IInv, BrowserOK
    <3>2. wire' \in Seq(Message)
      <4>1. PICK c \in Configs : wire' = Append(wire, Config(c))
        BY <1>2 DEF SendConfigure
      <4>2. wire \in Seq(Message)
        BY DEF IInv, BrowserOK
      <4> QED
        BY <4>1, <4>2, Messages, Sends
    <3> QED
      BY <2>u, <3>1, <3>2 DEF IInv, BrowserOK
  <2>3. CreditInv'
    BY <1>2, <2>u, SendConfigureKeeps, CreditStep DEF Live
  <2> QED
    BY <2>1, <2>2, <2>3 DEF IInv
<1>3. CASE Reconnect
  <2>u. UNCHANGED <<page, sent, pending, newest, lost, faults, late>>
    BY <1>3 DEF Reconnect
  <2>1. BrowserOK'
    <3>1. conns' \in 1..MaxConns /\ configs' \in 1..MaxConfigs /\ base' \in Numbers
      BY <1>3 DEF Reconnect, IInv, BrowserOK
    <3>2. oldClose' \in BOOLEAN
      BY <1>3 DEF Reconnect
    <3>3. wire' \in Seq(Message)
      <4>1. PICK c \in Configs : wire' = <<Config(c)>>
        BY <1>3 DEF Reconnect
      <4> QED
        BY <4>1, Messages
    <3> QED
      BY <2>u, <3>1, <3>2, <3>3 DEF IInv, BrowserOK
  <2>2. HandlerOK'
    BY <1>3, <2>u DEF Reconnect, Fresh, IInv, HandlerOK
  <2>3. PipelineOK'
    BY <1>3, <2>u DEF Reconnect, Fresh, IInv, PipelineOK, Absent, Numbers
  <2>4. AckInv'
    BY <1>3 DEF Reconnect, Fresh, AckInv
  <2>5. StageInv'
    BY <1>3 DEF Reconnect, Fresh, StageInv
  <2>6. CreditInv'
    <3>1. conns' # 1
      BY <1>3 DEF Reconnect, IInv, BrowserOK
    <3> QED
      BY <3>1 DEF CreditInv, Live
  <2> QED
    BY <2>1, <2>2, <2>3, <2>4, <2>5, <2>6 DEF IInv
<1>4. CASE OldSocketClosed
  <2>u. UNCHANGED <<page, conns, configs, sent, base, newest, wire, hpc, conf, acked, cpc, lock, object,
                    box, phase, item, jobs, outq, lost, faults, late>>
    BY <1>4 DEF OldSocketClosed
  <2>1. HandlerOK' /\ PipelineOK' /\ AckInv' /\ StageInv'
    BY <2>u, Untouched
  <2>2. BrowserOK'
    <3>1. pending' \in 0..2
      BY <1>4 DEF OldSocketClosed
    <3>2. oldClose' \in BOOLEAN
      BY <1>4, Zenon DEF OldSocketClosed
    <3> QED
      BY <2>u, <3>1, <3>2 DEF IInv, BrowserOK
  <2>3. CreditInv'
    <3>1. conns # 1
      BY <1>4 DEF OldSocketClosed, IInv, CreditInv
    <3> QED
      BY <2>u, <3>1 DEF CreditInv, Live
  <2> QED
    BY <2>1, <2>2, <2>3 DEF IInv
<1>5. CASE Leave
  <2>u. UNCHANGED <<conns, oldClose, configs, sent, base, pending, newest, wire, hpc, conf, acked,
                    cpc, lock, object, box, phase, item, jobs, outq, lost, faults, late>>
    BY <1>5 DEF Leave
  <2>1. HandlerOK' /\ PipelineOK' /\ AckInv' /\ StageInv'
    BY <2>u, Untouched
  <2>2. BrowserOK'
    BY <1>5, <2>u DEF Leave, IInv, BrowserOK
  <2>3. CreditInv'
    BY <2>u, CreditSame DEF Live
  <2> QED
    BY <2>1, <2>2, <2>3 DEF IInv
<1>6. CASE Deliver
  <2>u. UNCHANGED <<page, conns, oldClose, configs, sent, base, wire, hpc, conf, acked, cpc, lock, object,
                    box, phase, item, jobs, lost, faults, late>>
    BY <1>6 DEF Deliver
  <2>1. HandlerOK' /\ AckInv' /\ StageInv'
    BY <2>u, Untouched
  <2>2. Head(outq) \in Reply /\ outq' \in Seq(Reply)
    BY <1>6, HeadTailProperties DEF Deliver, IInv, PipelineOK
  <2>3. BrowserOK'
    <3>1. Head(outq).n \in Numbers
      BY <2>2 DEF Reply
    <3>2. /\ newest' = newest \/ newest' = Head(outq).n
          /\ pending' \in {pending, 0, pending - 1} /\ (pending' = pending - 1 => pending # 0)
      BY <1>6 DEF Deliver, IInv, BrowserOK
    <3>3. newest' \in Numbers
      BY <3>1, <3>2 DEF IInv, BrowserOK
    <3>4. pending' \in 0..2
      BY <3>2 DEF IInv, BrowserOK
    <3> QED
      BY <2>u, <3>3, <3>4 DEF IInv, BrowserOK
  <2>4. PipelineOK'
    BY <2>u, <2>2 DEF IInv, PipelineOK
  <2>5. CreditInv'
    BY <1>6, <2>u, DeliverKeeps, CreditStep DEF Live
  <2> QED
    BY <2>1, <2>3, <2>4, <2>5 DEF IInv
<1> QED
  BY <1>1, <1>2, <1>3, <1>4, <1>5, <1>6 DEF Page

LEMMA HandlerStep == IInv /\ Handler => IInv'
<1> SUFFICES ASSUME IInv, Handler PROVE IInv'
  OBVIOUS
<1> USE DEF handler, threads, browser
<1>1. CASE ReceiveFrame
  <2>u. UNCHANGED <<page, conns, oldClose, configs, sent, base, pending, newest, hpc, conf, acked,
                    cpc, lock, object, phase, item, jobs, outq, lost, faults, late>>
    BY <1>1 DEF ReceiveFrame
  <2>1. HandlerOK' /\ AckInv' /\ StageInv'
    BY <2>u, Untouched
  <2>2. wire \in Seq(Message) /\ wire # <<>> /\ wire' = Tail(wire) /\ box' = Put(box, "dlss", Head(wire).n)
    BY <1>1 DEF ReceiveFrame, IInv, BrowserOK
  <2>3. wire' \in Seq(Message) /\ Head(wire) \in Message
    BY <2>2, Receives
  <2>4. BrowserOK'
    BY <2>u, <2>3 DEF IInv, BrowserOK
  <2>5. PipelineOK'
    <3>1. Head(wire).n \in Numbers
      BY <2>3 DEF Message
    <3>2. box' \in [Stages -> Numbers]
      BY <2>2, <3>1 DEF Put, IInv, PipelineOK
    <3> QED
      BY <2>u, <3>2 DEF IInv, PipelineOK
  <2>6. CreditInv'
    BY <1>1, <2>u, ReceiveFrameKeeps, CreditStep DEF Live
  <2> QED
    BY <2>1, <2>4, <2>5, <2>6 DEF IInv
<1>2. CASE ReceiveConfig
  <2>u. UNCHANGED <<page, conns, oldClose, configs, sent, base, pending, newest, acked, lock,
                    object, box, phase, item, jobs, outq, lost, faults, late>>
    BY <1>2 DEF ReceiveConfig
  <2>h. hpc = "reading" /\ hpc' = "configuring" /\ cpc' = "dlss" /\ conf' = Head(wire).conf
    BY <1>2 DEF ReceiveConfig
  <2>1. PipelineOK'
    BY <2>u, Untouched
  <2>2. wire \in Seq(Message) /\ wire # <<>> /\ wire' = Tail(wire)
    BY <1>2 DEF ReceiveConfig, IInv, BrowserOK
  <2>3. wire' \in Seq(Message) /\ Head(wire) \in Message
    BY <2>2, Receives
  <2>4. BrowserOK'
    BY <2>u, <2>3 DEF IInv, BrowserOK
  <2>5. HandlerOK'
    BY <2>u, <2>h, <2>3 DEF IInv, HandlerOK, Message, Stages
  <2>6. AckInv'
    BY <2>u, <2>h DEF IInv, AckInv
  <2>7. StageInv'
    BY <2>u, <2>h DEF IInv, StageInv
  <2>8. CreditInv'
    BY <1>2, <2>u, <2>h, ReceiveConfigKeeps, CreditStep DEF Live
  <2> QED
    BY <2>1, <2>4, <2>5, <2>6, <2>7, <2>8 DEF IInv
<1>3. CASE Disconnected
  <2>u. UNCHANGED <<page, conns, oldClose, configs, sent, base, pending, newest, wire, conf, acked,
                    cpc, lock, object, box, phase, item, jobs, outq, lost, faults, late>>
    BY <1>3 DEF Disconnected
  <2>h. hpc = "reading" /\ hpc' = "closing"
    BY <1>3 DEF Disconnected
  <2>1. BrowserOK' /\ PipelineOK'
    BY <2>u, Untouched
  <2>2. HandlerOK'
    BY <2>u, <2>h DEF IInv, HandlerOK
  <2>3. AckInv'
    BY <2>u, <2>h DEF IInv, AckInv, Wanted
  <2>4. StageInv'
    BY <2>u, <2>h DEF IInv, StageInv
  <2>5. CreditInv'
    BY <2>u, <2>h, CreditSame DEF Live
  <2> QED
    BY <2>1, <2>2, <2>3, <2>4, <2>5 DEF IInv
<1>4. CASE Close
  <2>u. UNCHANGED <<page, conns, oldClose, configs, sent, base, pending, newest, wire, conf, acked,
                    cpc, lock, box, phase, item, outq, lost>>
    BY <1>4 DEF Close
  <2>h. hpc = "closing" /\ hpc' = "ended" /\ jobs' = <<>> /\ object' = ClosedAll
    BY <1>4 DEF Close
  <2>l. (Ended /\ late' = late /\ faults' = faults) \/ (late' = TRUE /\ faults < MaxFaults /\ faults' = faults + 1)
    BY <1>4 DEF Close
  <2>1. BrowserOK'
    BY <2>u, Untouched
  <2>2. HandlerOK'
    <3>1. late' \in BOOLEAN
      BY <2>l DEF IInv, HandlerOK
    <3>2. faults' \in 0..MaxFaults
      BY <2>l DEF IInv, HandlerOK
    <3> QED
      BY <2>u, <2>h, <3>1, <3>2 DEF IInv, HandlerOK
  <2>3. ClosedAll \in [Stages -> [key : Nat, up : {"absent", "on", "dead"}]]
        /\ \A s \in Stages : ClosedAll[s].up # "on"
    BY DEF ClosedAll, Absent, Dead, IInv, PipelineOK
  <2>4. PipelineOK'
    BY <2>u, <2>h, <2>3 DEF IInv, PipelineOK
  <2>5. AckInv'
    BY <2>u, <2>h DEF IInv, AckInv
  <2>6. StageInv'
    BY <2>u, <2>h, <2>l, <2>3 DEF IInv, StageInv, Ended
  <2>7. CreditInv'
    BY <2>u, <2>h DEF IInv, CreditInv, Live
  <2> QED
    BY <2>1, <2>2, <2>4, <2>5, <2>6, <2>7 DEF IInv
<1> QED
  BY <1>1, <1>2, <1>3, <1>4 DEF Handler

\* What rebuilding a stage comes to; one that works, or is absent, runs as it is wanted
\* unless something fails.
LEMMA Rebuilding ==
  ASSUME NEW s \in Stages, NEW o \in [key : Nat, up : {"absent", "on", "dead"}], NEW k \in Nat,
         NEW r \in Rebuilt(s, o, k)
  PROVE  /\ r.to \in [key : Nat, up : {"absent", "on", "dead"}]
         /\ ~r.fault /\ (o = Absent \/ o.up = "on") =>
              /\ r.ok
              /\ r.to = IF k = 0 THEN Absent ELSE [key |-> k, up |-> "on"]
<1> USE DEF SwitchedOff, Works, Kept, Raised, Dead, Absent
<1>1. CASE k = 0
  BY <1>1 DEF Rebuilt
<1>2. CASE k # 0 /\ s = "dlss"
  <2>1. r \in WorkerFor(o, k)
    BY <1>2 DEF Rebuilt, Stages
  <2> QED
    BY <1>2, <2>1 DEF WorkerFor
<1>3. CASE k # 0 /\ s = "vsr"
  <2>1. r \in UpscalerFor(o, k)
    BY <1>3 DEF Rebuilt, Stages
  <2> QED
    BY <1>3, <2>1 DEF UpscalerFor
<1>4. CASE k # 0 /\ s = "fg"
  <2>1. r \in GeneratorFor(o, k)
    BY <1>4 DEF Rebuilt, Stages
  <2> QED
    BY <1>4, <2>1 DEF GeneratorFor
<1> QED
  BY <1>1, <1>2, <1>3, <1>4 DEF Stages

LEMMA ConfigureStep == IInv /\ Configure => IInv'
<1> USE DEF threads, browser, handler
<1>a. ASSUME NEW s \in Stages, IInv, Acquire(s) PROVE IInv'
  <2>u. UNCHANGED <<page, conns, oldClose, configs, sent, base, pending, newest, wire, hpc, conf,
                    acked, cpc, object, box, phase, item, jobs, outq, lost, faults, late>>
    BY <1>a DEF Acquire
  <2>1. BrowserOK' /\ PipelineOK' /\ AckInv' /\ StageInv'
    BY <1>a, <2>u, Untouched
  <2>2. HandlerOK'
    BY <1>a, <2>u DEF Acquire, IInv, HandlerOK
  <2>3. CreditInv'
    BY <1>a, <2>u, CreditSame DEF Live
  <2> QED
    BY <2>1, <2>2, <2>3 DEF IInv
<1> SUFFICES ASSUME IInv, NEW s \in Stages, Rebuild(s) PROVE IInv'
  BY <1>a DEF Configure
<1>u. UNCHANGED <<page, conns, oldClose, configs, sent, base, pending, newest, wire, conf,
                  box, phase, item, jobs, outq, lost, late>>
  BY DEF Rebuild
<1>1. cpc = s /\ cpc # "none" /\ hpc = "configuring"
  BY DEF Rebuild, Stages, IInv, AckInv
<1>2. PICK r \in Rebuilt(s, object[s], conf[s]) :
        /\ r.fault => faults < MaxFaults
        /\ faults' = IF r.fault THEN faults + 1 ELSE faults
        /\ object' = [object EXCEPT ![s] = r.to]
        /\ cpc' = IF r.ok THEN AfterStage(s) ELSE "none"
        /\ IF cpc' = "none"
           THEN hpc' = "reading" /\ acked' = IF r.ok THEN "ok" ELSE "error"
           ELSE UNCHANGED <<hpc, acked>>
  BY DEF Rebuild
<1>3. /\ object \in [Stages -> [key : Nat, up : {"absent", "on", "dead"}]]
      /\ conf \in [Stages -> Nat] /\ faults \in 0..MaxFaults
  BY DEF IInv, PipelineOK, HandlerOK, Off
<1>4. /\ r.to \in [key : Nat, up : {"absent", "on", "dead"}]
      /\ ~r.fault /\ (object[s] = Absent \/ object[s].up = "on") => r.ok /\ r.to = Wanted(s)
  <2>1. object[s] \in [key : Nat, up : {"absent", "on", "dead"}] /\ conf[s] \in Nat
    BY <1>3
  <2> QED
    BY <1>2, <2>1, Rebuilding DEF Wanted
<1>5. cpc' \in Stages \cup {"none"}
  BY <1>2 DEF AfterStage, Stages
<1>6. (cpc' = "none" /\ hpc' = "reading") \/ (cpc' # "none" /\ hpc' = "configuring" /\ acked' = acked)
  BY <1>1, <1>2
<1>7. BrowserOK'
  BY <1>u, Untouched
<1>8. HandlerOK'
  <2>1. acked' \in {"none", "ok", "error"}
    BY <1>2 DEF IInv, HandlerOK
  <2>4. lock' \in [Stages -> {"free", "stage", "configure"}]
    BY DEF Rebuild, IInv, HandlerOK
  <2>2. hpc' \in {"reading", "configuring", "closing", "ended"}
    BY <1>6
  <2>3. faults' \in 0..MaxFaults
    BY <1>2, <1>3
  <2> QED
    BY <1>u, <1>5, <2>1, <2>2, <2>3, <2>4 DEF IInv, HandlerOK
<1>9. PipelineOK'
  <2>1. object' \in [Stages -> [key : Nat, up : {"absent", "on", "dead"}]]
    BY <1>2, <1>3, <1>4
  <2> QED
    BY <1>u, <2>1 DEF IInv, PipelineOK
<1>10. AckInv'
  <2>1. cpc' # "none" <=> hpc' = "configuring"
    BY <1>6
  <2>2. ASSUME faults' = 0
        PROVE  /\ \A t \in Stages : object'[t] = Absent \/ object'[t].up = "on"
               /\ cpc' \in {"vsr", "fg"} => object'["dlss"] = Wanted("dlss")
               /\ cpc' = "fg" => object'["vsr"] = Wanted("vsr")
               /\ cpc' = "none" => \A t \in Stages : object'[t] = Wanted(t)
    <3>1. ~r.fault /\ faults = 0
      BY <1>2, <1>3, <2>2
    <3>2. /\ \A t \in Stages : object[t] = Absent \/ object[t].up = "on"
          /\ s \in {"vsr", "fg"} => object["dlss"] = Wanted("dlss")
          /\ s = "fg" => object["vsr"] = Wanted("vsr")
      BY <1>1, <3>1 DEF IInv, AckInv
    <3>3. r.ok /\ r.to = Wanted(s) /\ cpc' = AfterStage(s)
      BY <1>2, <1>4, <3>1, <3>2
    <3>4. object'[s] = Wanted(s) /\ \A t \in Stages : t # s => object'[t] = object[t]
      BY <1>2, <1>3, <3>3
    <3>5. Wanted(s) = Absent \/ Wanted(s).up = "on"
      BY DEF Wanted
    <3>6. \A t \in Stages : object'[t] = Absent \/ object'[t].up = "on"
      BY <3>2, <3>4, <3>5
    <3>7. CASE s = "dlss"
      BY <3>3, <3>4, <3>6, <3>7 DEF AfterStage, Stages
    <3>8. CASE s = "vsr"
      BY <3>2, <3>3, <3>4, <3>6, <3>8 DEF AfterStage, Stages
    <3>9. CASE s = "fg"
      BY <3>2, <3>3, <3>4, <3>6, <3>9 DEF AfterStage, Stages
    <3> QED
      BY <3>7, <3>8, <3>9 DEF Stages
  <2>3. \A t : Wanted(t)' = Wanted(t)
    BY <1>u DEF Wanted
  <2>4. hpc' = "reading" => cpc' = "none"
    BY <1>6
  <2> QED
    BY <2>1, <2>2, <2>3, <2>4 DEF AckInv
<1>11. StageInv'
  BY <1>u, <1>6 DEF IInv, StageInv
<1>12. CreditInv'
  BY <1>u, <1>1, CreditSame DEF Live
<1> QED
  BY <1>7, <1>8, <1>9, <1>10, <1>11, <1>12 DEF IInv

LEMMA StageStep == ASSUME IInv, NEW s \in Stages, Stage(s) PROVE IInv'
<1> USE DEF threads, browser, handler
<1>t. /\ box \in [Stages -> Numbers] /\ item \in [Stages -> Numbers]
      /\ phase \in [Stages -> {"idle", "taken", "working", "ended"}]
      /\ jobs \in Seq(Reply) /\ 0 \in Numbers
  BY DEF IInv, PipelineOK, Numbers
<1>e. phase[s] # "ended" => ~Ended
  BY DEF Ended
<1>1. CASE Take(s)
  <2>u. UNCHANGED <<page, conns, oldClose, configs, sent, base, pending, newest, wire, hpc, conf,
                    acked, cpc, lock, object, jobs, outq, lost, faults, late>>
    BY <1>1 DEF Take
  <2>h. phase[s] = "idle" /\ box[s] # 0 /\ item' = [item EXCEPT ![s] = box[s]]
        /\ box' = [box EXCEPT ![s] = 0] /\ phase' = [phase EXCEPT ![s] = "taken"]
    BY <1>1 DEF Take
  <2>1. BrowserOK' /\ HandlerOK' /\ AckInv'
    BY <2>u, Untouched
  <2>2. PipelineOK'
    <3>1. /\ box' \in [Stages -> Numbers] /\ item' \in [Stages -> Numbers]
          /\ phase' \in [Stages -> {"idle", "taken", "working", "ended"}]
      BY <1>t, <2>h
    <3> QED
      BY <2>u, <3>1 DEF IInv, PipelineOK
  <2>3. StageInv'
    <3>1. \A t \in Stages : phase'[t] \in {"taken", "working"} => item'[t] # 0
      BY <1>t, <2>h DEF IInv, StageInv
    <3> QED
      BY <1>e, <2>u, <2>h, <3>1 DEF IInv, StageInv
  <2>4. CreditInv'
    BY <1>1, <2>u, TakeKeeps, CreditStep DEF Live
  <2> QED
    BY <2>1, <2>2, <2>3, <2>4 DEF IInv
<1>2. CASE EndStage(s) \/ Lock(s)
  <2>k. lock' \in [Stages -> {"free", "stage", "configure"}]
    BY <1>2 DEF EndStage, Lock, IInv, HandlerOK
  <2>u. UNCHANGED <<page, conns, oldClose, configs, sent, base, pending, newest, wire, hpc, conf,
                    acked, cpc, object, box, item, jobs, outq, lost, faults, late>>
    BY <1>2 DEF EndStage, Lock
  <2>h. \/ phase[s] = "idle" /\ phase' = [phase EXCEPT ![s] = "ended"]
        \/ phase[s] = "taken" /\ phase' = [phase EXCEPT ![s] = "working"]
    BY <1>2 DEF EndStage, Lock
  <2>1. BrowserOK' /\ HandlerOK' /\ AckInv'
    BY <2>u, <2>k, Untouched DEF IInv, HandlerOK
  <2>2. PipelineOK'
    <3>1. phase' \in [Stages -> {"idle", "taken", "working", "ended"}]
      BY <1>t, <2>h
    <3> QED
      BY <2>u, <3>1 DEF IInv, PipelineOK
  <2>3. StageInv'
    <3>1. \A t \in Stages : phase'[t] \in {"taken", "working"} => item'[t] # 0
      BY <1>t, <2>u, <2>h DEF IInv, StageInv
    <3> QED
      BY <1>e, <2>u, <2>h, <3>1 DEF IInv, StageInv
  <2>4. CreditInv'
    BY <2>u, CreditSame DEF Live
  <2> QED
    BY <2>1, <2>2, <2>3, <2>4 DEF IInv
<1>3. CASE Step(s)
  <2>h. phase[s] = "working" /\ Idle(s)
        /\ UNCHANGED <<page, conns, oldClose, configs, sent, base, pending, newest, wire, hpc, conf,
                       acked, cpc, object, outq, lost, faults, late>>
    BY <1>3 DEF Step, Stages, PassOn, Generate
  <2>k. lock' \in [Stages -> {"free", "stage", "configure"}]
    BY <2>h DEF Idle, IInv, HandlerOK
  <2>1. BrowserOK' /\ HandlerOK' /\ AckInv'
    BY <2>h, <2>k, Untouched DEF IInv, HandlerOK
  <2>2. /\ item' \in [Stages -> Numbers]
        /\ phase' \in [Stages -> {"idle", "taken", "working", "ended"}]
        /\ \A t \in Stages : phase'[t] \in {"taken", "working"} => item'[t] # 0
    BY <1>t, <2>h DEF Idle, IInv, StageInv
  <2>3. /\ box' \in [Stages -> Numbers] /\ jobs' \in Seq(Reply) /\ (hpc = "ended" => jobs' = jobs)
        /\ (Live => LineInv' /\ ReplyInv' /\ Cardinality(Owed') <= pending')
    <3>1. CASE s # "fg"
      <4>1. PassOn("dlss", "vsr") \/ PassOn("vsr", "fg")
        BY <1>3, <3>1 DEF Step, Stages
      <4>2. jobs' = jobs /\ box' \in [Stages -> Numbers]
        BY <1>t, <4>1 DEF PassOn, Put, Stages
      <4> QED
        BY <1>t, <4>1, <4>2, PassOnKeeps
    <3>2. CASE s = "fg"
      <4>1. Generate
        BY <1>3, <3>2 DEF Step
      <4>2. box' = box /\ (hpc = "ended" => jobs' = jobs)
        BY <4>1 DEF Generate
      <4>3. PICK count \in 1..Multiplier : jobs' = jobs \/ jobs' = jobs \o Replies(item["fg"], count)
        BY <4>1 DEF Generate
      <4>4. Replies(item["fg"], count) \in Seq(Reply)
        <5>1. item["fg"] \in Numbers /\ \A i \in 1..count : i - 1 \in 0 .. Multiplier - 1
          BY <1>t DEF Stages
        <5>2. \A i \in 1..count : [n |-> item["fg"], idx |-> i - 1, count |-> count] \in Reply
          BY <5>1 DEF Reply
        <5> QED
          BY <5>2 DEF Replies
      <4>5. jobs' \in Seq(Reply)
        <5>1. jobs \in Seq(Reply)
          BY <1>t
        <5>2. jobs \o Replies(item["fg"], count) \in Seq(Reply)
          BY <4>4, <5>1, ConcatProperties, ZenonT(30)
        <5> QED
          BY <4>3, <5>1, <5>2
      <4> QED
        BY <1>t, <4>1, <4>2, <4>5, GenerateKeeps
    <3> QED
      BY <3>1, <3>2
  <2>4. PipelineOK'
    BY <2>h, <2>2, <2>3 DEF IInv, PipelineOK
  <2>5. StageInv'
    BY <1>e, <2>h, <2>2, <2>3 DEF IInv, StageInv
  <2>6. CreditInv'
    BY <2>h, <2>3, CreditStep DEF Live
  <2> QED
    BY <2>1, <2>4, <2>5, <2>6 DEF IInv
<1> QED
  BY <1>1, <1>2, <1>3 DEF Stage

LEMMA EmitStep == IInv /\ Emit => IInv'
<1> SUFFICES ASSUME IInv, Emit PROVE IInv'
  OBVIOUS
<1> USE DEF threads, browser, handler
<1>u. UNCHANGED <<page, conns, oldClose, configs, sent, base, pending, newest, wire, hpc, conf,
                  acked, cpc, lock, object, box, phase, item, faults, late>>
  BY DEF Emit
<1>1. PICK i \in DOMAIN jobs \cap {1, 2} :
        /\ jobs' = RemoveAt(jobs, i)
        /\ outq' = IF Len(outq) < OutSize THEN Append(outq, jobs[i]) ELSE outq
  BY DEF Emit
<1>2. jobs \in Seq(Reply) /\ outq \in Seq(Reply)
  BY DEF IInv, PipelineOK
<1>3. i \in 1 .. Len(jobs) /\ jobs # <<>>
  BY <1>1, <1>2
<1>4. hpc # "ended"
  BY <1>3 DEF IInv, StageInv
<1>5. BrowserOK' /\ HandlerOK' /\ AckInv'
  BY <1>u, Untouched
<1>6. PipelineOK'
  <2>1. jobs' \in Seq(Reply)
    BY <1>1, <1>2, <1>3, Removed
  <2>2. outq' \in Seq(Reply)
    <3>1. jobs[i] \in Reply
      BY <1>2, <1>3
    <3> QED
      BY <1>1, <1>2, <3>1, AppendProperties
  <2>3. lost' \in BOOLEAN
    BY DEF Emit
  <2> QED
    BY <1>u, <2>1, <2>2, <2>3 DEF IInv, PipelineOK
<1>7. StageInv'
  BY <1>u, <1>4 DEF IInv, StageInv
<1>8. CreditInv'
  <2>1. conns = 1 => Live
    BY <1>4 DEF Live
  <2> QED
    BY <1>u, <2>1, EmitKeeps, CreditStep DEF Live
<1> QED
  BY <1>5, <1>6, <1>7, <1>8 DEF IInv

LEMMA Inductive == IInv /\ [Next]_vars => IInv'
<1>1. ASSUME IInv, UNCHANGED vars PROVE IInv'
  <2>1. UNCHANGED <<page, conns, oldClose, configs, sent, base, pending, newest, wire, hpc, conf,
                    acked, cpc, lock, object, box, phase, item, jobs, outq, lost, faults, late>>
    BY <1>1 DEF vars, browser, handler, threads
  <2>2. CreditInv'
    BY <1>1, <2>1, CreditSame DEF Live
  <2> QED
    BY <1>1, <2>1, <2>2, Untouched DEF IInv
<1> QED
  BY <1>1, PageStep, HandlerStep, ConfigureStep, StageStep, EmitStep DEF Next

LEMMA Invariant == Spec => []IInv
<1> QED
  BY InitInvariant, Inductive, PTL DEF Spec

\* The locks: taken when free and given back by who holds them.
LEMMA Locking == IInv /\ LockInv /\ [Next]_vars => LockInv'
<1> SUFFICES ASSUME IInv, LockInv, [Next]_vars PROVE LockInv'
  OBVIOUS
<1> USE DEF threads, browser, handler
<1>t. lock \in [Stages -> {"free", "stage", "configure"}]
      /\ phase \in [Stages -> {"idle", "taken", "working", "ended"}]
  BY DEF IInv, HandlerOK, PipelineOK
<1>1. ASSUME UNCHANGED <<lock, phase, cpc>> PROVE LockInv'
  BY <1>1 DEF LockInv
<1>2. CASE Page
  <2>1. CASE Reconnect
    BY <2>1 DEF Reconnect, Fresh, LockInv
  <2>2. CASE ~Reconnect
    <3>1. UNCHANGED <<lock, phase, cpc>>
      BY <1>2, <2>2 DEF Page, Tick, SendConfigure, OldSocketClosed, Leave, Deliver
    <3> QED
      BY <1>1, <3>1
  <2> QED
    BY <2>1, <2>2
<1>3. CASE Handler
  <2>1. CASE ReceiveConfig
    <3>1. cpc = "none" /\ UNCHANGED <<lock, phase>>
      BY <2>1 DEF ReceiveConfig, IInv, AckInv
    <3>2. \A s \in Stages : lock[s] # "configure"
      BY <3>1 DEF LockInv, Stages
    <3> QED
      BY <3>1, <3>2 DEF LockInv
  <2>2. CASE ReceiveFrame \/ Disconnected \/ Close
    <3>1. UNCHANGED <<lock, phase, cpc>>
      BY <2>2 DEF ReceiveFrame, Disconnected, Close
    <3> QED
      BY <1>1, <3>1
  <2> QED
    BY <1>3, <2>1, <2>2 DEF Handler
<1>4. ASSUME NEW s \in Stages, Acquire(s) PROVE LockInv'
  BY <1>t, <1>4 DEF Acquire, LockInv
<1>5. ASSUME NEW s \in Stages, Rebuild(s) PROVE LockInv'
  <2>1. cpc = s /\ lock[s] = "configure" /\ lock' = [lock EXCEPT ![s] = "free"] /\ phase' = phase
    BY <1>5 DEF Rebuild
  <2>2. \A t \in Stages : lock'[t] # "configure"
    BY <1>t, <2>1 DEF LockInv
  <2>3. \A t \in Stages : lock'[t] = "stage" <=> lock[t] = "stage"
    BY <1>t, <2>1
  <2> QED
    BY <2>1, <2>2, <2>3 DEF LockInv
<1>6. ASSUME NEW s \in Stages, Stage(s) PROVE LockInv'
  <2>1. cpc' = cpc
    BY <1>6 DEF Stage, Take, EndStage, Lock, Step, Stages, PassOn, Generate
  <2>2. CASE Take(s) \/ EndStage(s)
    <3>1. lock' = lock /\ phase[s] = "idle" /\ \E p \in {"taken", "ended"} :
            phase' = [phase EXCEPT ![s] = p]
      BY <2>2 DEF Take, EndStage
    <3> QED
      BY <1>t, <2>1, <3>1 DEF LockInv
  <2>3. CASE Lock(s)
    BY <1>t, <2>1, <2>3 DEF Lock, LockInv
  <2>4. CASE Step(s)
    <3>1. lock' = [lock EXCEPT ![s] = "free"] /\ phase' = [phase EXCEPT ![s] = "idle"]
      BY <2>4 DEF Step, Stages, PassOn, Generate, Idle
    <3> QED
      BY <1>t, <2>1, <3>1 DEF LockInv
  <2> QED
    BY <1>6, <2>2, <2>3, <2>4 DEF Stage
<1>7. CASE Emit
  BY <1>1, <1>7 DEF Emit
<1>8. CASE UNCHANGED vars
  BY <1>1, <1>8 DEF vars
<1> QED
  BY <1>2, <1>3, <1>4, <1>5, <1>6, <1>7, <1>8 DEF Next, Configure

LEMMA Locks == Spec => [](IInv /\ LockInv)
<1>1. Init => LockInv
  BY DEF Init, LockInv
<1> QED
  BY <1>1, InitInvariant, Inductive, Locking, PTL DEF Spec

----------------------------------------------------------------------------
(* Theorems                                                                 *)

\* Every variable of the page, the handler, configure(), the stages and the encode pool keeps
\* its type: the page never has more than two frames unanswered (content.js, _tick()), and a
\* stage's object is absent, running or dead.
THEOREM TypeCorrect == Spec => []TypeOK
<1>1. IInv => TypeOK
  BY DEF IInv, TypeOK
<1> QED
  BY <1>1, Invariant, PTL

\* Whatever the page asks for and however the threads interleave: an acknowledged
\* configuration is in force until something fails to start, the reply queue of a page's
\* first connection never fills up, and a close() that did not run out of time leaves no
\* stage, no object and no job.
THEOREM ConnectionAlwaysHolds == Spec => []ConnectionHolds
<1>1. IInv => ConnectionHolds
  <2> SUFFICES ASSUME IInv PROVE ConnectionHolds
    OBVIOUS
  <2>1. AckedIsRunningUntilAFault
    BY DEF IInv, AckInv, Wanted, AckedIsRunningUntilAFault, AckedIsRunning
  <2>2. ReplyQueueHasRoom
    BY DEF IInv, CreditInv, ReplyQueueHasRoom
  <2>3. ClosedIsClean
    BY DEF IInv, StageInv, ClosedIsClean
  <2> QED
    BY <2>1, <2>2, <2>3 DEF ConnectionHolds
<1> QED
  BY <1>1, Invariant, PTL

\* yt_bridge.py:200-201: a stage holds its lock while it works on a frame and configure()
\* while it rebuilds the stage's object, so the two never meet and a stage at work keeps its
\* object; close() takes no lock but waits for the stages, unless it runs out of time.
THEOREM StageKeepsItsObject == Spec => NeverInterrupted
<1> DEFINE Undisturbed == ~late' => \A s \in Stages :
                      phase[s] = "working" /\ conns' = conns =>
                        lock[s] # "configure" /\ object'[s] = object[s]
<1>1. IInv /\ LockInv /\ [Next]_vars => Undisturbed
  <2> SUFFICES ASSUME IInv, LockInv, [Next]_vars, ~late', NEW s \in Stages,
                      phase[s] = "working", conns' = conns
               PROVE  lock[s] # "configure" /\ object'[s] = object[s]
    OBVIOUS
  <2> USE DEF threads, browser, handler
  <2>l. lock[s] = "stage"
    BY DEF LockInv
  <2>1. CASE Page
    <3>1. ~Reconnect
      BY DEF Reconnect, IInv, BrowserOK
    <3> QED
      BY <2>1, <2>l, <3>1 DEF Page, Tick, SendConfigure, OldSocketClosed, Leave, Deliver
  <2>2. CASE Handler
    <3>1. ~Close
      BY DEF Close, Ended
    <3> QED
      BY <2>2, <2>l, <3>1 DEF Handler, ReceiveFrame, ReceiveConfig, Disconnected
  <2>3. ASSUME NEW t \in Stages, Acquire(t) PROVE lock[s] # "configure" /\ object'[s] = object[s]
    BY <2>3, <2>l DEF Acquire
  <2>7. ASSUME NEW t \in Stages, Rebuild(t) PROVE lock[s] # "configure" /\ object'[s] = object[s]
    <3>1. t # s
      BY <2>7, <2>l DEF Rebuild
    <3>2. object \in [Stages -> [key : Nat, up : {"absent", "on", "dead"}]]
      BY DEF IInv, PipelineOK
    <3> QED
      BY <2>7, <2>l, <3>1, <3>2 DEF Rebuild
  <2>4. CASE \E t \in Stages : Stage(t)
    BY <2>4, <2>l DEF Stage, Take, EndStage, Lock, Step, Stages, PassOn, Generate
  <2>5. CASE Emit
    BY <2>5, <2>l DEF Emit
  <2>6. CASE UNCHANGED vars
    BY <2>6, <2>l DEF vars
  <2> QED
    BY <2>1, <2>2, <2>3, <2>4, <2>5, <2>6, <2>7 DEF Next, Configure
<1> HIDE DEF Undisturbed
<1>2. Undisturbed => (~late' => \A s \in Stages :
                  phase[s] = "working" /\ conns' = conns =>
                    lock[s] # "configure" /\ object'[s] = object[s])
  BY DEF Undisturbed
<1>3. IInv /\ LockInv /\ [Next]_vars =>
        [~late' => \A s \in Stages :
           phase[s] = "working" /\ conns' = conns =>
             lock[s] # "configure" /\ object'[s] = object[s]]_vars
  BY <1>1, <1>2
<1> QED
  BY <1>3, Locks, PTL DEF Spec, NeverInterrupted
=============================================================================
