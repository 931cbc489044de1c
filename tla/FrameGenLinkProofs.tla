-------------------------- MODULE FrameGenLinkProofs --------------------------
(***************************************************************************)
(* Proofs about FrameGenLink for any number of calls, timeouts and fence    *)
(* stalls and for every mix of callers: the link's types, that what lies in *)
(* the shared buffers is whole while somebody looks at it although nothing  *)
(* locks them, and that the link implements the two-deep service of         *)
(* FrameGenService until a fence wait has timed out.                        *)
(***************************************************************************)
EXTENDS FrameGenLink, TLAPS

USE BoundsAssumption, CallersAssumption

----------------------------------------------------------------------------
(* The inductive invariant                                                  *)

\* The requests on their way: the completion thread works on cur.seq while it is
\* Active, `oldest' is the first request whose slot it has not given back, and
\* the results up to `converted' are in the ring.  The GPU has executed the
\* command buffers up to `executed'; the fences from `fenced' on still count.
Active    == cpc \in {"fence", "converting", "answering", "freeing"}
oldest    == IF Active THEN cur.seq ELSE cur.seq + 1
converted == IF cpc \in {"fence", "converting"} THEN cur.seq - 1 ELSE cur.seq
executed  == next - 1 - Len(gpu)
fenced    == IF cpc = "fence" THEN cur.seq ELSE cur.seq + 1

\* The main thread works on request `next'; it owns the slot of it.
Works == hpc \in {"slotwait", "copying", "recording"}
Owns  == hpc \in {"copying", "recording"}

\* The Done record of a request the completion thread has not answered.
record(s) == IF s = cur.seq THEN cur ELSE done[s - cur.seq]

\* The counters of the three parties: the client is at most two requests ahead of
\* the answers, one while it fills a slot; the queues hold what lies between.
SeqInv ==
  /\ req = seq /\ Len(asked) = seq
  /\ seq <= ack + 2 /\ (pc \in {"copying", "publish"} => seq <= ack + 1)
  /\ cpc \in {"fence", "converting", "answering"} => ack = cur.seq - 1
  /\ cpc \in {"waiting", "freeing", "ended"} => ack = cur.seq
  /\ Active => cur.seq >= 1
  /\ next = cur.seq + Len(done) + 1
  /\ next <= seq + 1 /\ (Works => next <= seq)
  /\ pc \in {"slotwait", "copying", "publish"} => call >= 1

\* The tokens not collected yet are the newest ones.
PendInv ==
  /\ Len(pend) <= 2 /\ Len(pend) <= seq
  /\ pc \in {"slotwait", "copying", "publish"} => Len(pend) <= 1
  /\ pc = "endwait" => pend # <<>>
  /\ \A i \in 1..Len(pend) : pend[i] = seq - Len(pend) + i

\* Both queues hold consecutive requests, the last of them next - 1.
QueueInv ==
  /\ \A i \in 1..Len(done) : done[i].seq = cur.seq + i
  /\ \A i \in 1..Len(gpu) : gpu[i].seq = executed + i

\* At most two requests are between the main thread and the completion thread,
\* each with a slot of its own that is not free.
SlotInv ==
  /\ next <= oldest + 2 /\ (Owns => next <= oldest + 1 /\ ~slotFree[slotOf(next)])
  /\ \A s \in oldest..next - 1 : ~slotFree[slotOf(s)]

\* The input file holds the last two requests, but for the slot being filled; the
\* staging buffers hold the requests on their way.
InputInv ==
  /\ seq >= 1 => inSlot[slotOf(seq)] = asked[seq]
  /\ seq >= 2 /\ pc \notin {"copying", "publish"} => inSlot[slotOf(seq - 1)] = asked[seq - 1]
  /\ pc = "publish" => inSlot[slotOf(seq + 1)] = call
  /\ \A s \in oldest..next - 1 : upload[slotOf(s)] = asked[s]
  /\ hpc = "recording" => upload[slotOf(next)] = asked[next]

\* The GPU is never behind the completion thread, a set fence is one of a command
\* buffer it has executed, and what it has executed is read back.
GpuInv ==
  /\ executed >= fenced - 1
  /\ \A i \in 1..Len(gpu) : gpu[i] = record(executed + i)
  /\ \A s \in fenced..fenced + 1 : fence[slotOf(s)] => s <= executed
  /\ \A s \in oldest..executed :
       Generates(record(s)) => readback[slotOf(s)] = asked[s]

\* The last results converted, the region being written excepted.
RingInv ==
  \A s \in 1..converted :
    s > cur.seq - RING /\ res[s % RESULTS].gen => ring[s % RING] = asked[s]

\* Views are of requests that have been answered.
ViewInv ==
  /\ \A v \in views : v.of \in 1..ack
  /\ ViewsStayValid

IInv ==
  /\ ClientOK /\ FilesOK /\ HostOK
  /\ SeqInv /\ PendInv /\ QueueInv /\ SlotInv
  /\ InputInv /\ ViewInv
  /\ ~Stalled => GpuInv /\ RingInv

----------------------------------------------------------------------------
(* Lemmas about the operators                                               *)

\* Two requests share a slot only if they are two apart.
LEMMA Slots ==
  ASSUME NEW s \in Nat
  PROVE  /\ slotOf(s) \in 0..1
         /\ slotOf(s + 1) # slotOf(s) /\ slotOf(s + 2) = slotOf(s)
BY DEF slotOf

\* Two requests share a region of the ring, or a result word, only if they are
\* four apart.
LEMMA Regions ==
  ASSUME NEW s \in Nat
  PROVE  /\ s % RING \in 0..RING - 1 /\ s % RESULTS \in 0..RESULTS - 1
         /\ \A t \in Nat : s < t /\ s % RING = t % RING => t >= s + RING
         /\ \A t \in Nat : s < t /\ s % RESULTS = t % RESULTS => t >= s + RING
BY DEF RING, RESULTS

LEMMA Appended ==
  ASSUME NEW S, NEW q \in Seq(S), NEW x \in S
  PROVE  /\ Append(q, x) \in Seq(S) /\ Len(Append(q, x)) = Len(q) + 1
         /\ \A i \in 1..Len(q) : Append(q, x)[i] = q[i]
         /\ Append(q, x)[Len(q) + 1] = x
OBVIOUS

LEMMA Taken ==
  ASSUME NEW S, NEW q \in Seq(S), q # <<>>
  PROVE  /\ Head(q) = q[1] /\ Head(q) \in S /\ Len(q) >= 1
         /\ Tail(q) \in Seq(S) /\ Len(Tail(q)) = Len(q) - 1
         /\ \A i \in 1..Len(q) - 1 : Tail(q)[i] = q[i + 1]
OBVIOUS

\* A part of the invariant stays as long as what it speaks of does.
LEMMA Untouched ==
  /\ ClientOK /\ UNCHANGED client => ClientOK'
  /\ FilesOK /\ UNCHANGED <<control, inSlot, res, ring>> => FilesOK'
  /\ HostOK /\ UNCHANGED <<main, slotFree, upload, done, device, finish>> => HostOK'
  /\ SeqInv /\ UNCHANGED <<req, ack, seq, asked, pc, call, cpc, cur, done, next, hpc>> => SeqInv'
  /\ PendInv /\ UNCHANGED <<pc, pend, seq>> => PendInv'
  /\ QueueInv /\ UNCHANGED <<cur, done, gpu, next>> => QueueInv'
  /\ SlotInv /\ UNCHANGED <<cpc, cur, next, hpc, slotFree>> => SlotInv'
  /\ InputInv /\ UNCHANGED <<seq, asked, pc, call, inSlot, cpc, cur, next, hpc,
                             upload>> => InputInv'
  /\ GpuInv /\ UNCHANGED <<cpc, cur, done, next, device, asked>> => GpuInv'
  /\ RingInv /\ UNCHANGED <<cpc, cur, res, ring, asked>> => RingInv'
  /\ ViewInv /\ UNCHANGED <<ack, seq, views, ring>> => ViewInv'
<1> USE DEF client, control, main, device, finish
<1>1. ClientOK /\ UNCHANGED client => ClientOK'
  BY DEF ClientOK
<1>2. FilesOK /\ UNCHANGED <<control, inSlot, res, ring>> => FilesOK'
  BY DEF FilesOK
<1>3. HostOK /\ UNCHANGED <<main, slotFree, upload, done, device, finish>> => HostOK'
  BY DEF HostOK
<1>4. SeqInv /\ UNCHANGED <<req, ack, seq, asked, pc, call, cpc, cur, done, next, hpc>> => SeqInv'
  BY DEF SeqInv, Active, Works
<1>5. PendInv /\ UNCHANGED <<pc, pend, seq>> => PendInv'
  BY DEF PendInv
<1>6. QueueInv /\ UNCHANGED <<cur, done, gpu, next>> => QueueInv'
  BY DEF QueueInv, executed
<1>7. SlotInv /\ UNCHANGED <<cpc, cur, next, hpc, slotFree>> => SlotInv'
  BY DEF SlotInv, oldest, Active, Owns
<1>8. InputInv /\ UNCHANGED <<seq, asked, pc, call, inSlot, cpc, cur, next, hpc,
                              upload>> => InputInv'
  BY DEF InputInv, oldest, Active
<1>9. GpuInv /\ UNCHANGED <<cpc, cur, done, next, device, asked>> => GpuInv'
  BY DEF GpuInv, oldest, Active, executed, fenced, record
<1>10. RingInv /\ UNCHANGED <<cpc, cur, res, ring, asked>> => RingInv'
  BY DEF RingInv, converted
<1>11. ViewInv /\ UNCHANGED <<ack, seq, views, ring>> => ViewInv'
  BY DEF ViewInv, ViewsStayValid
<1> QED
  BY <1>1, <1>2, <1>3, <1>4, <1>5, <1>6, <1>7, <1>8, <1>9, <1>10, <1>11

----------------------------------------------------------------------------
(* The invariant holds at the start                                         *)

LEMMA InitInvariant == Init => IInv
<1> SUFFICES ASSUME Init PROVE IInv
  OBVIOUS
<1> USE DEF Init
<1>1. ClientOK
  BY DEF ClientOK, Pics
<1>2. FilesOK
  <2>1. req \in Nat /\ ack \in Nat /\ inSlot \in [0..1 -> Pics] /\ ring \in [0..RING - 1 -> Pics]
    BY DEF Pics
  <2>2. quit \in BOOLEAN /\ res \in [0..RESULTS - 1 -> [ok : BOOLEAN, gen : BOOLEAN]]
    OBVIOUS
  <2> QED
    BY <2>1, <2>2 DEF FilesOK
<1>3. HostOK
  BY DEF HostOK, Pics, Done
<1>4. SeqInv /\ PendInv /\ QueueInv /\ SlotInv
  BY DEF SeqInv, PendInv, QueueInv, SlotInv, Active, Works, Owns, oldest, Done
<1>5. InputInv /\ ViewInv
  BY DEF InputInv, ViewInv, ViewsStayValid, oldest, Active, Done
<1>6. GpuInv /\ RingInv
  BY DEF GpuInv, RingInv, executed, fenced, oldest, converted, Active, Done, slotOf
<1> QED
  BY <1>1, <1>2, <1>3, <1>4, <1>5, <1>6 DEF IInv

----------------------------------------------------------------------------
(* The client thread                                                        *)

\* What the parts of the invariant that do not mention them make of the client's
\* own variables: the client's steps leave the host's parts alone.
LEMMA ClientLeavesHost ==
  ASSUME IInv,
         UNCHANGED <<ack, asked, ring, res, main, slotFree, upload, done, device, finish>>
  PROVE  HostOK' /\ QueueInv' /\ SlotInv' /\ (~Stalled' => GpuInv' /\ RingInv')
<1>1. UNCHANGED <<next, hpc, cpc, cur, stalls, gpu>>
  BY DEF main, device, finish
<1> QED
  BY <1>1, Untouched DEF IInv, Stalled

\* What the counters range over.
Counts ==
  /\ seq \in Nat /\ ack \in Nat /\ req \in Nat /\ cur.seq \in Nat /\ next \in Nat
  /\ pend \in Seq(Nat) /\ Len(pend) \in Nat /\ call \in Nat
  /\ Len(done) \in Nat /\ Len(gpu) \in Nat
  /\ oldest \in Nat /\ oldest >= 1 /\ next - 1 <= seq
  /\ executed \in Int /\ executed <= seq

LEMMA Numbers == IInv => Counts
<1> SUFFICES ASSUME IInv PROVE Counts
  OBVIOUS
<1>1. ClientOK /\ FilesOK /\ HostOK /\ SeqInv
  BY DEF IInv
<1>2. /\ seq \in Nat /\ ack \in Nat /\ req \in Nat /\ cur.seq \in Nat /\ next \in Nat
      /\ pend \in Seq(Nat) /\ Len(pend) \in Nat /\ call \in Nat
      /\ Len(done) \in Nat /\ Len(gpu) \in Nat
  BY <1>1 DEF ClientOK, FilesOK, HostOK, Pics
<1>3. oldest \in Nat /\ oldest >= 1
  BY <1>1, <1>2 DEF SeqInv, oldest, Active
<1>4. next - 1 <= seq /\ executed \in Int /\ executed <= seq
  BY <1>1, <1>2 DEF SeqInv, executed
<1> QED
  BY <1>2, <1>3, <1>4 DEF Counts

LEMMA ClientStep == IInv /\ Client => IInv'
<1> SUFFICES ASSUME IInv, Client PROVE IInv'
  OBVIOUS
<1>t. Counts
  BY Numbers
<1>s. slotOf(seq) \in 0..1 /\ slotOf(seq + 1) \in 0..1 /\ slotOf(seq) # slotOf(seq + 1)
  <2>1. seq \in Nat /\ seq + 1 \in Nat
    BY <1>t DEF Counts
  <2> QED
    BY <2>1, Slots
<1> USE DEF IInv, Counts
<1>1. CASE Begin
  <2>1. ClientOK' /\ FilesOK' /\ HostOK'
    BY <1>1, Untouched DEF Begin, ClientOK, Pics
  <2>2. SeqInv' /\ PendInv'
    BY <1>1, <1>t, SMTT(30) DEF Begin, SeqInv, PendInv, InFlight, control, main, finish, Active, Works
  <2>3. InputInv' /\ ViewInv'
    BY <1>1 DEF Begin, InputInv, ViewInv, ViewsStayValid, control, main, finish, oldest, Active
  <2> QED
    BY <1>1, <2>1, <2>2, <2>3, ClientLeavesHost DEF Begin, control
<1>2. CASE BeginCopy
  <2>1. ClientOK' /\ FilesOK' /\ HostOK'
    BY <1>2, <1>s, Untouched, SMTT(30) DEF BeginCopy, ClientOK, FilesOK, Pics, control
  <2>2. SeqInv'
    BY <1>2, <1>t, SMTT(30) DEF BeginCopy, SlotIsAnswered, SeqInv, control, main, finish, Active, Works
  <2>4. PendInv' /\ ViewInv'
    BY <1>2, <1>t DEF BeginCopy, PendInv, ViewInv, ViewsStayValid, control
  <2>3. InputInv'
    BY <1>2, <1>t, <1>s DEF BeginCopy, InputInv, FilesOK, main, finish, oldest, Active
  <2> QED
    BY <1>2, <2>1, <2>2, <2>3, <2>4, ClientLeavesHost DEF BeginCopy, control
<1>3. CASE EndCopy
  <2>1. ClientOK' /\ FilesOK' /\ HostOK'
    BY <1>3, <1>s, Untouched DEF EndCopy, ClientOK, FilesOK, Pics, control
  <2>2. SeqInv' /\ PendInv' /\ ViewInv'
    BY <1>3, <1>t DEF EndCopy, SeqInv, PendInv, ViewInv, ViewsStayValid,
       control, main, finish, Active, Works
  <2>3. InputInv'
    BY <1>3, <1>t, <1>s DEF EndCopy, InputInv, FilesOK, main, finish, oldest, Active
  <2> QED
    BY <1>3, <2>1, <2>2, <2>3, ClientLeavesHost DEF EndCopy, control
<1>4. CASE Publish
  <2>a. /\ asked' \in Seq(Pics) /\ Len(asked') = seq + 1 /\ asked'[seq + 1] = call
        /\ \A i \in 1..seq : asked'[i] = asked[i]
    <3>1. asked \in Seq(Pics) /\ Len(asked) = seq /\ call \in Pics /\ asked' = Append(asked, call)
      BY <1>4 DEF Publish, ClientOK, SeqInv
    <3> QED
      BY <3>1, Appended
  <2>p. /\ pend' \in Seq(Nat) /\ Len(pend') = Len(pend) + 1 /\ pend'[Len(pend) + 1] = seq + 1
        /\ \A i \in 1..Len(pend) : pend'[i] = pend[i]
    BY <1>4, <1>t, Appended DEF Publish
  <2>u. UNCHANGED <<ack, quit, inSlot, res, ring, main, slotFree, upload, done, device, finish,
                    views, hpc, next, gpu, fence, readback, cpc, cur, stalls>>
    BY <1>4 DEF Publish, main, device, finish
  <2>1. ClientOK' /\ FilesOK' /\ HostOK'
    BY <1>4, <1>t, <2>a, <2>p, Untouched DEF Publish, ClientOK, FilesOK
  <2>2. SeqInv'
    BY <1>4, <1>t, <2>a, <2>u DEF Publish, SeqInv, Active, Works
  <2>8. QueueInv' /\ SlotInv'
    BY <2>u, Untouched
  <2>3. PendInv'
    <3>1. Len(pend) <= 1 /\ \A i \in 1..Len(pend) : pend[i] = seq - Len(pend) + i
      BY <1>4 DEF Publish, PendInv
    <3> QED
      BY <1>4, <1>t, <2>p, <3>1 DEF Publish, PendInv
  <2>4. InputInv'
    <3>1. /\ inSlot[slotOf(seq + 1)] = asked'[seq + 1]
          /\ seq >= 1 => inSlot[slotOf(seq)] = asked'[seq]
      BY <1>4, <1>t, <2>a DEF Publish, InputInv
    <3>2. \A s \in oldest..next - 1 : upload[slotOf(s)] = asked'[s]
      BY <1>t, <2>a DEF InputInv
    <3>3. hpc = "recording" => upload[slotOf(next)] = asked'[next]
      BY <1>t, <2>a DEF InputInv, SeqInv, Works
    <3>4. /\ seq' = seq + 1 /\ pc' = "idle" /\ pc = "publish" /\ seq' - 1 = seq
          /\ oldest' = oldest
      BY <1>4, <1>t, <2>u DEF Publish, oldest, Active
    <3> QED
      BY <1>t, <2>u, <3>1, <3>2, <3>3, <3>4 DEF InputInv
  <2>5. ViewInv'
    BY <1>4, <1>t, <2>u, SMTT(30) DEF Publish, ViewInv, ViewsStayValid, RING
  <2>6. GpuInv => GpuInv'
    <3> SUFFICES ASSUME GpuInv PROVE GpuInv'
      OBVIOUS
    <3>1. ASSUME NEW s \in oldest..executed, Generates(record(s))
          PROVE  readback[slotOf(s)] = asked'[s]
      <4>1. s \in 1..seq
        BY <1>t
      <4> QED
        BY <2>a, <3>1, <4>1 DEF GpuInv
    <3> QED
      BY <2>u, <3>1 DEF GpuInv, oldest, Active, executed, fenced, record
  <2>7. RingInv => RingInv'
    <3>1. converted <= seq /\ converted' = converted /\ converted \in Int
      BY <1>t, <2>u, SMTT(30) DEF SeqInv, converted, Active
    <3> QED
      BY <1>t, <2>a, <2>u, <3>1 DEF RingInv
  <2> QED
    BY <2>u, <2>1, <2>2, <2>3, <2>4, <2>5, <2>6, <2>7, <2>8 DEF Stalled
<1>5. CASE End
  <2>1. ClientOK' /\ FilesOK' /\ HostOK'
    BY <1>5, Untouched DEF End, ClientOK
  <2>2. SeqInv' /\ PendInv'
    BY <1>5, <1>t DEF End, SeqInv, PendInv, control, main, finish, Active, Works
  <2>3. InputInv' /\ ViewInv'
    BY <1>5 DEF End, InputInv, ViewInv, ViewsStayValid, control, main, finish, oldest, Active
  <2> QED
    BY <1>5, <2>1, <2>2, <2>3, ClientLeavesHost DEF End, control
<1>6. CASE EndReturns
  <2> DEFINE h == Head(pend)
             shows == IF res[h % RESULTS].gen THEN ring[h % RING] ELSE 0
             view == [of |-> h, shows |-> ring[h % RING]]
  <2>h. /\ h \in Nat /\ h \in 1..ack
        /\ h % RING \in 0..RING - 1 /\ ring[h % RING] \in Pics /\ shows \in Pics
    <3>1. pend # <<>> /\ h = pend[1] /\ h \in Nat /\ Len(pend) >= 1
      BY <1>6, <1>t, Taken DEF EndReturns, PendInv
    <3>2. h \in 1..ack
      BY <1>6, <1>t, <3>1 DEF EndReturns, PendInv
    <3>3. h % RING \in 0..RING - 1
      BY <3>1, Regions
    <3>4. ring[h % RING] \in Pics /\ 0 \in Pics
      BY <3>3 DEF FilesOK, Pics
    <3> QED
      BY <3>1, <3>2, <3>3, <3>4
  <2>v. /\ given' = [request |-> h, shows |-> shows]
        /\ views' = views \/ views' = views \cup {view}
        /\ pend' = Tail(pend) /\ pc' = "idle"
    BY <1>6, Zenon DEF EndReturns
  <2> HIDE DEF h, shows
  <2>1. ClientOK' /\ FilesOK' /\ HostOK'
    <3>1. given' \in [request : Nat, shows : Pics]
      BY <2>h, <2>v
    <3>2. views' \subseteq [of : Nat, shows : Pics]
      BY <2>h, <2>v DEF ClientOK
    <3>3. pend' \in Seq(Nat)
      BY <1>6, <1>t, <2>v, Taken DEF PendInv, EndReturns
    <3> QED
      BY <1>6, <2>v, <3>1, <3>2, <3>3, Untouched DEF EndReturns, ClientOK
  <2>2. SeqInv' /\ InputInv'
    BY <1>6, <1>t DEF EndReturns, SeqInv, InputInv, control, main, finish, Active, Works, oldest
  <2>3. PendInv'
    <3>1. /\ pend # <<>> /\ Len(pend') = Len(pend) - 1
          /\ \A i \in 1..Len(pend) - 1 : pend'[i] = pend[i + 1]
      BY <1>6, <1>t, <2>v, Taken DEF EndReturns, PendInv
    <3> QED
      BY <1>6, <1>t, <2>v, <3>1, SMTT(30) DEF EndReturns, PendInv
  <2>4. ViewInv'
    BY <1>6, <2>v, <2>h DEF EndReturns, ViewInv, ViewsStayValid, control
  <2> QED
    BY <1>6, <2>1, <2>2, <2>3, <2>4, ClientLeavesHost DEF EndReturns, control
<1>7. CASE EndFails
  <2>u. UNCHANGED <<req, ack, inSlot, res, ring, seq, call, asked, views, cpc, cur, next, hpc, upload,
                    main, slotFree, done, device, finish>>
    BY <1>7 DEF EndFails, main, finish
  <2>v. /\ given' = [request |-> Head(pend), shows |-> 0] /\ pend' = Tail(pend)
        /\ pc' \in {"idle", "closed"} /\ quit' \in {quit, TRUE} /\ pc = "endwait"
    BY <1>7 DEF EndFails, GiveUp
  <2>p. /\ pend # <<>> /\ Head(pend) \in Nat /\ pend' \in Seq(Nat)
        /\ Len(pend') = Len(pend) - 1
        /\ \A i \in 1..Len(pend) - 1 : pend'[i] = pend[i + 1]
    BY <1>t, <2>v, Taken DEF PendInv
  <2>1. ClientOK' /\ FilesOK' /\ HostOK'
    <3>0. quit' \in BOOLEAN
      BY <2>v, Zenon DEF FilesOK
    <3>1. UNCHANGED <<caller, timeouts>> /\ 0 \in Pics
      BY <1>7 DEF EndFails, Pics
    <3>2. ClientOK'
      BY <2>u, <2>v, <2>p, <3>1 DEF ClientOK
    <3> QED
      BY <2>u, <3>0, <3>2, Untouched DEF FilesOK
  <2>2. SeqInv' /\ InputInv' /\ ViewInv'
    BY <1>t, <2>u, <2>v DEF SeqInv, InputInv, ViewInv, ViewsStayValid, Active, Works, oldest
  <2>3. PendInv'
    BY <1>t, <2>u, <2>v, <2>p DEF PendInv
  <2> QED
    BY <2>u, <2>1, <2>2, <2>3, ClientLeavesHost
<1>8. CASE WaitRaises
  <2>u. UNCHANGED <<caller, req, ack, inSlot, res, ring, seq, call, given, asked, views, cpc, cur, next, hpc,
                    upload, main, slotFree, done, device, finish>>
    BY <1>8 DEF WaitRaises, main, finish
  <2>v. /\ pc' \in {"idle", "closed"} /\ quit' \in {quit, TRUE}
        /\ timeouts' \in 0..MaxTimeouts /\ pc \in {"slotwait", "endwait"}
    <3>1. pc' \in {"idle", "closed"} /\ quit' \in {quit, TRUE} /\ pc \in {"slotwait", "endwait"}
      BY <1>8 DEF WaitRaises, GiveUp
    <3>2. timeouts' \in 0..MaxTimeouts
      BY <1>8 DEF WaitRaises, ClientOK
    <3> QED
      BY <3>1, <3>2
  <2>w. pend' = pend \/ (pend # <<>> /\ pend' = Tail(pend))
    BY <1>8 DEF WaitRaises, PendInv
  <2>1. ClientOK' /\ FilesOK' /\ HostOK'
    <3>1. pend' \in Seq(Nat)
      BY <1>t, <2>w, Taken
    <3>2. quit' \in BOOLEAN
      BY <2>v, Zenon DEF FilesOK
    <3> QED
      BY <2>u, <2>v, <3>1, <3>2, Untouched DEF ClientOK, FilesOK
  <2>2. SeqInv' /\ InputInv' /\ ViewInv'
    BY <1>t, <2>u, <2>v DEF SeqInv, InputInv, ViewInv, ViewsStayValid, Active, Works, oldest
  <2>3. PendInv'
    <3>1. CASE pend' = pend
      BY <2>u, <2>v, <3>1 DEF PendInv
    <3>2. CASE pend # <<>> /\ pend' = Tail(pend)
      BY <1>t, <2>u, <2>v, <3>2, Taken DEF PendInv
    <3> QED
      BY <2>w, <3>1, <3>2
  <2> QED
    BY <2>u, <2>1, <2>2, <2>3, ClientLeavesHost
<1>9. CASE Close
  <2>1. ClientOK' /\ FilesOK' /\ HostOK'
    BY <1>9, Untouched DEF Close, ClientOK, FilesOK
  <2>2. SeqInv' /\ PendInv'
    BY <1>9, <1>t DEF Close, SeqInv, PendInv, main, finish, Active, Works
  <2>3. InputInv' /\ ViewInv'
    BY <1>9 DEF Close, InputInv, ViewInv, ViewsStayValid, main, finish, oldest, Active
  <2> QED
    BY <1>9, <2>1, <2>2, <2>3, ClientLeavesHost DEF Close
<1>10. CASE Kill
  <2>u. UNCHANGED <<cpc, cur, stalls, gpu, fence, readback, req, ack, quit>>
    BY <1>10 DEF Kill, finish, device, control
  <2>1. ClientOK' /\ FilesOK' /\ HostOK'
    BY <1>10, <2>u, Untouched DEF Kill, ClientOK, HostOK
  <2>2. SeqInv' /\ PendInv' /\ QueueInv' /\ ViewInv' /\ (~Stalled' => GpuInv' /\ RingInv')
    BY <1>10, <1>t, <2>u, Untouched DEF Kill, SeqInv, Active, Works, Stalled
  <2>3. InputInv' /\ SlotInv'
    BY <1>10, <1>t, <2>u DEF Kill, InputInv, SlotInv, Owns, oldest, Active
  <2> QED
    BY <2>1, <2>2, <2>3
<1> QED
  BY <1>1, <1>2, <1>3, <1>4, <1>5, <1>6, <1>7, <1>8, <1>9, <1>10 DEF Client

----------------------------------------------------------------------------
(* The host's main thread and the GPU                                       *)

\* The slot of the request being copied holds its picture: it is the newest one,
\* or the client does not fill that slot yet.
LEMMA WholeInput == IInv => InputWhole
<1> SUFFICES ASSUME IInv, hpc = "copying" PROVE inSlot[slotOf(next)] = asked[next]
  BY DEF InputWhole
<1>t. Counts
  BY Numbers
<1>1. /\ next >= ack + 1 /\ next <= seq /\ seq <= ack + 2 /\ next >= 1
      /\ pc \in {"copying", "publish"} => seq <= ack + 1
  BY <1>t DEF IInv, Counts, HostOK, SeqInv, Works
<1>2. next = seq \/ (next = seq - 1 /\ pc \notin {"copying", "publish"})
  BY <1>t, <1>1 DEF Counts
<1> QED
  BY <1>t, <1>1, <1>2 DEF IInv, Counts, InputInv

\* The host's steps leave the client's parts alone, but for the ring and views.
LEMMA HostLeavesClient ==
  ASSUME IInv, UNCHANGED client
  PROVE  ClientOK' /\ PendInv'
BY Untouched DEF IInv, client

LEMMA MainStep == IInv /\ (Main \/ HostDies) => IInv'
<1> SUFFICES ASSUME IInv, Main \/ HostDies PROVE IInv'
  OBVIOUS
<1>t. Counts
  BY Numbers
<1>u. UNCHANGED <<client, caller, pc, seq, call, pend, timeouts, given, asked, views, control, req, ack,
                  quit, inSlot, res, ring, fence, readback, finish, cpc, cur, stalls>>
  BY DEF Main, TakeSlot, OwnSlot, CopiedIn, SubmitFrame, MainStops, Exit, HostDies, client, control,
         device, finish
<1>o. oldest' = oldest
  BY <1>u DEF oldest, Active
<1>s. /\ slotOf(next) \in 0..1 /\ slotOf(next - 1) \in 0..1 /\ slotOf(next + 1) # slotOf(next)
      /\ slotOf(next - 1) # slotOf(next) /\ slotOf(oldest + 2) = slotOf(oldest)
  <2>1. next \in Nat /\ next - 1 \in Nat /\ next - 1 + 1 = next /\ oldest \in Nat
    BY <1>t DEF Counts, IInv, SeqInv
  <2> QED
    BY <2>1, Slots
<1>c. ClientOK' /\ FilesOK' /\ PendInv' /\ ViewInv' /\ (~Stalled => RingInv')
  BY <1>u, HostLeavesClient, Untouched DEF IInv
<1>n. next = cur.seq + Len(done) + 1 /\ (Works => next <= seq)
  BY DEF IInv, SeqInv
<1> USE DEF IInv, Counts
<1>1. CASE TakeSlot
  <2>u. UNCHANGED <<slotFree, upload, done, device, gpu, next>>
    BY <1>1 DEF TakeSlot, device
  <2>1. HostOK'
    BY <1>1, <1>u, <2>u DEF TakeSlot, HostOK
  <2>2. SeqInv' /\ QueueInv' /\ (~Stalled => GpuInv')
    BY <1>1, <1>t, <1>u, <2>u, Untouched DEF TakeSlot, SeqInv, Active, Works
  <2>3. SlotInv' /\ InputInv'
    BY <1>1, <1>u, <1>o, <2>u DEF TakeSlot, SlotInv, InputInv, Owns
  <2> QED
    BY <1>c, <1>u, <2>1, <2>2, <2>3 DEF Stalled
<1>2. CASE OwnSlot
  <2>u. UNCHANGED <<done, device, gpu, next>>
    BY <1>2 DEF OwnSlot, device
  <2>1. HostOK'
    BY <1>2, <1>u, <1>s, <2>u DEF OwnSlot, HostOK, Pics
  <2>2. SeqInv' /\ QueueInv' /\ (~Stalled => GpuInv')
    BY <1>2, <1>t, <1>u, <2>u, Untouched DEF OwnSlot, SeqInv, Active, Works
  <2>3. next <= oldest + 1
    <3> SUFFICES ASSUME next = oldest + 2 PROVE FALSE
      BY <1>t DEF SlotInv
    <3>1. oldest \in oldest..next - 1
      BY <1>t
    <3> QED
      BY <1>2, <1>s, <3>1 DEF OwnSlot, SlotInv
  <2>4. \A s \in oldest..next - 1 : s = next - 1
    BY <1>t, <2>3
  <2>5. SlotInv'
    BY <1>2, <1>t, <1>u, <1>o, <1>s, <2>1, <2>3, <2>4, <2>u DEF OwnSlot, SlotInv, Owns, HostOK
  <2>6. InputInv'
    <3>1. ASSUME NEW s \in oldest..next - 1 PROVE upload'[slotOf(s)] = asked[s]
      <4>1. s = next - 1 /\ upload[slotOf(s)] = asked[s]
        BY <2>4 DEF InputInv
      <4> QED
        BY <1>2, <1>s, <4>1 DEF OwnSlot, HostOK
    <3> QED
      BY <1>2, <1>u, <1>o, <2>u, <3>1 DEF OwnSlot, InputInv
  <2> QED
    BY <1>c, <1>u, <2>1, <2>2, <2>5, <2>6 DEF Stalled
<1>3. CASE CopiedIn
  <2>u. UNCHANGED <<slotFree, done, device, gpu, next>>
    BY <1>3 DEF CopiedIn, device
  <2>w. inSlot[slotOf(next)] = asked[next] /\ inSlot[slotOf(next)] \in Pics
    BY <1>3, <1>s, WholeInput DEF CopiedIn, InputWhole, FilesOK
  <2>1. HostOK'
    BY <1>3, <1>u, <1>s, <2>u, <2>w DEF CopiedIn, HostOK
  <2>2. SeqInv' /\ QueueInv' /\ (~Stalled => GpuInv')
    BY <1>3, <1>t, <1>u, <2>u, Untouched DEF CopiedIn, SeqInv, Active, Works
  <2>3. SlotInv'
    BY <1>3, <1>u, <1>o, <2>u DEF CopiedIn, SlotInv, Owns
  <2>4. \A s \in oldest..next - 1 : s = next - 1
    BY <1>3, <1>t DEF CopiedIn, SlotInv, Owns
  <2>5. InputInv'
    <3>1. ASSUME NEW s \in oldest..next - 1 PROVE upload'[slotOf(s)] = asked[s]
      <4>1. s = next - 1 /\ upload[slotOf(s)] = asked[s]
        BY <2>4 DEF InputInv
      <4> QED
        BY <1>3, <1>s, <4>1 DEF CopiedIn, HostOK
    <3>2. upload'[slotOf(next)] = asked[next]
      BY <1>3, <1>s, <2>w DEF CopiedIn, HostOK
    <3> QED
      BY <1>3, <1>u, <1>o, <2>u, <3>1, <3>2 DEF CopiedIn, InputInv
  <2> QED
    BY <1>c, <1>u, <2>1, <2>2, <2>3, <2>5 DEF Stalled
<1>4. CASE SubmitFrame
  <2>1. PICK ok \in BOOLEAN : gpu' = Append(gpu, Done(next, ok)) /\ done' = Append(done, Done(next, ok))
    BY <1>4 DEF SubmitFrame
  <2> DEFINE d == Done(next, ok)
  <2>d. d \in Record /\ d.seq = next
    BY <1>t DEF Done, Record, SeqInv
  <2>u. UNCHANGED <<slotFree, upload>> /\ next' = next + 1 /\ hpc = "recording" /\ hpc' = "polling"
    BY <1>4 DEF SubmitFrame
  <2>a. /\ done' \in Seq(Record) /\ Len(done') = Len(done) + 1 /\ done'[Len(done) + 1] = d
        /\ \A i \in 1..Len(done) : done'[i] = done[i]
    BY <2>1, <2>d, Appended DEF HostOK
  <2>b. /\ gpu' \in Seq(Record) /\ Len(gpu') = Len(gpu) + 1 /\ gpu'[Len(gpu) + 1] = d
        /\ \A i \in 1..Len(gpu) : gpu'[i] = gpu[i]
    BY <2>1, <2>d, Appended DEF HostOK
  <2> HIDE DEF d
  <2>n. /\ seq \in Nat /\ next \in Nat /\ cur.seq \in Nat /\ Len(done) \in Nat /\ Len(gpu) \in Nat
        /\ oldest \in Nat /\ executed \in Int /\ next <= seq
    BY <1>t, <1>n, <2>u DEF Works
  <2> HIDE DEF IInv, Counts
  <2>e. executed' = executed /\ fenced' = fenced
    BY <2>n, <1>u, <2>u, <2>b DEF executed, fenced
  <2>2. HostOK'
    BY <2>n, <1>u, <2>u, <2>a, <2>b DEF IInv, HostOK
  <2>3. SeqInv'
    <3>1. next' = cur.seq + Len(done') + 1 /\ next' <= seq + 1
      BY <2>n, <1>n, <2>u, <2>a
    <3> QED
      BY <1>u, <2>u, <3>1 DEF IInv, SeqInv, Active, Works
  <2>4. QueueInv'
    <3>1. ASSUME NEW i \in 1..Len(done) + 1 PROVE done'[i].seq = cur.seq + i
      <4>1. CASE i = Len(done) + 1
        BY <2>n, <1>n, <2>a, <2>d, <4>1
      <4>2. CASE i \in 1..Len(done)
        BY <2>a, <4>2 DEF IInv, QueueInv
      <4> QED
        BY <2>n, <4>1, <4>2
    <3>2. ASSUME NEW i \in 1..Len(gpu) + 1 PROVE gpu'[i].seq = executed + i
      <4>1. CASE i = Len(gpu) + 1
        BY <2>n, <2>b, <2>d, <4>1 DEF executed
      <4>2. CASE i \in 1..Len(gpu)
        BY <2>b, <4>2 DEF IInv, QueueInv
      <4> QED
        BY <2>n, <4>1, <4>2
    <3> QED
      BY <1>u, <2>a, <2>b, <2>e, <3>1, <3>2 DEF IInv, QueueInv
  <2>5. SlotInv'
    BY <2>n, <1>u, <1>o, <2>u DEF IInv, SlotInv, Owns
  <2>6. InputInv'
    BY <2>n, <1>u, <1>o, <2>u DEF IInv, InputInv
  <2>7. GpuInv => GpuInv'
    <3> SUFFICES ASSUME GpuInv PROVE GpuInv'
      OBVIOUS
    <3>1. ASSUME NEW s \in Nat, cur.seq <= s, s <= next - 1 PROVE record(s)' = record(s)
      <4>1. s = cur.seq \/ s - cur.seq \in 1..Len(done)
        BY <2>n, <1>n, <3>1
      <4> QED
        BY <1>u, <2>a, <4>1 DEF record
    <3>2. ASSUME NEW s \in Nat, s = next PROVE record(s)' = d
      <4>1. s # cur.seq /\ s - cur.seq = Len(done) + 1
        BY <2>n, <1>n, <3>2
      <4> QED
        BY <1>u, <2>a, <4>1 DEF record
    <3>3. executed >= cur.seq - 1 /\ executed <= next - 1 /\ fenced \in Nat /\ oldest >= cur.seq
      BY <2>n DEF GpuInv, fenced, executed, oldest
    <3>4. ASSUME NEW i \in 1..Len(gpu) + 1 PROVE gpu'[i] = record(executed + i)'
      <4>1. CASE i = Len(gpu) + 1
        <5>1. executed + i = next /\ executed + i \in Nat
          BY <2>n, <4>1 DEF executed
        <5>2. record(executed + i)' = d
          BY <2>e, <3>2, <5>1
        <5> QED
          BY <2>b, <4>1, <5>2
      <4>2. CASE i \in 1..Len(gpu)
        <5>1. executed + i \in Nat /\ cur.seq <= executed + i /\ executed + i <= next - 1
          BY <2>n, <3>3, <4>2 DEF executed
        <5>2. record(executed + i)' = record(executed + i)
          BY <2>e, <3>1, <5>1
        <5> QED
          BY <2>b, <4>2, <5>2 DEF GpuInv
      <4> QED
        BY <2>n, <4>1, <4>2
    <3>5. ASSUME NEW s \in oldest..executed, Generates(record(s)')
          PROVE  readback[slotOf(s)] = asked[s]
      <4>1. record(s)' = record(s)
        BY <2>n, <3>1, <3>3
      <4> QED
        BY <3>5, <4>1 DEF GpuInv
    <3> QED
      BY <1>u, <1>o, <2>b, <2>e, <3>4, <3>5 DEF GpuInv
  <2> QED
    BY <1>c, <1>u, <2>2, <2>3, <2>4, <2>5, <2>6, <2>7 DEF IInv, Stalled
<1>5. CASE MainStops \/ Exit \/ HostDies
  <2>u. /\ UNCHANGED <<slotFree, upload, done, device, gpu, next>>
        /\ hpc' \in {"stopping", "exited", "dead"}
    BY <1>5 DEF MainStops, Exit, HostDies, device
  <2>1. HostOK'
    BY <1>u, <2>u DEF HostOK
  <2>2. SeqInv' /\ QueueInv' /\ (~Stalled => GpuInv')
    BY <1>t, <1>u, <2>u, Untouched DEF SeqInv, Active, Works
  <2>3. SlotInv' /\ InputInv'
    BY <1>u, <1>o, <2>u DEF SlotInv, InputInv, Owns
  <2> QED
    BY <1>c, <1>u, <2>1, <2>2, <2>3 DEF Stalled
<1> QED
  BY <1>1, <1>2, <1>3, <1>4, <1>5 DEF Main

\* The GPU executes the next command buffer: the requests on their way have their
\* own slots, so it reads the staging buffer of that one and no other.
LEMMA GpuStep == IInv /\ GpuExecutes => IInv'
<1> SUFFICES ASSUME IInv, GpuExecutes PROVE IInv'
  OBVIOUS
<1>t. Counts
  BY Numbers
<1> DEFINE d == Head(gpu)
<1>u. UNCHANGED <<client, caller, pc, seq, call, pend, timeouts, given, asked, views, control, req, ack, quit, inSlot,
                  res, ring, finish, cpc, cur, stalls, main, hpc, next, slotFree, upload, done>>
  BY DEF GpuExecutes, client, control, main, finish
<1>g. /\ d = gpu[1] /\ d \in Record /\ Len(gpu) >= 1
      /\ gpu' \in Seq(Record) /\ Len(gpu') = Len(gpu) - 1
      /\ \A i \in 1..Len(gpu) - 1 : gpu'[i] = gpu[i + 1]
  BY Taken DEF GpuExecutes, IInv, HostOK
<1>f. /\ fence' = [fence EXCEPT ![slotOf(d.seq)] = TRUE]
      /\ readback' = IF Generates(d)
                     THEN [readback EXCEPT ![slotOf(d.seq)] = upload[slotOf(d.seq)]] ELSE readback
  BY DEF GpuExecutes
<1> HIDE DEF d
<1>d. d.seq = executed + 1 /\ d.seq \in Nat /\ d.seq + 1 \in Nat /\ executed' = d.seq /\ d.seq <= next - 1
  BY <1>t, <1>u, <1>g DEF IInv, Counts, QueueInv, executed, Record
<1>s. slotOf(d.seq) \in 0..1 /\ slotOf(d.seq + 1) \in 0..1 /\ slotOf(d.seq + 1) # slotOf(d.seq)
  BY <1>d, Slots
<1>o. oldest' = oldest /\ fenced' = fenced
  BY <1>u DEF oldest, fenced, Active
<1> USE DEF IInv, Counts
<1>1. ClientOK' /\ FilesOK' /\ SeqInv' /\ PendInv' /\ SlotInv' /\ InputInv' /\ ViewInv' /\ (~Stalled => RingInv')
  BY <1>u, Untouched
<1>2. HostOK'
  <2>1. upload[slotOf(d.seq)] \in Pics
    BY <1>s DEF HostOK
  <2>2. fence' \in [0..1 -> BOOLEAN]
    BY <1>f, <1>s DEF HostOK
  <2>3. readback' \in [0..1 -> Pics]
    BY <1>f, <1>s, <2>1 DEF HostOK
  <2> QED
    BY <1>u, <1>g, <2>2, <2>3 DEF HostOK
<1>3. QueueInv'
  <2>1. ASSUME NEW i \in 1..Len(gpu) - 1 PROVE gpu'[i].seq = executed' + i
    <3>1. i + 1 \in 1..Len(gpu) /\ gpu'[i] = gpu[i + 1]
      BY <1>t, <1>g
    <3>2. gpu[i + 1].seq = executed + (i + 1)
      BY <3>1 DEF QueueInv
    <3>3. executed \in Int /\ executed' = executed + 1
      <4> executed \in Int
        BY <1>t DEF executed
      <4> QED
        BY <1>d
    <3>4. executed + (i + 1) = (executed + 1) + i
      BY <3>3
    <3> QED
      BY <3>1, <3>2, <3>3, <3>4
  <2> QED
    BY <1>u, <1>g, <2>1 DEF QueueInv
<1>4. ASSUME GpuInv PROVE GpuInv'
  <2>0. d.seq >= fenced /\ fenced >= oldest /\ d.seq >= oldest /\ fenced \in Nat
    BY <1>4, <1>t, <1>d DEF GpuInv, fenced, oldest, Active
  <2>1. ASSUME NEW i \in 1..Len(gpu) - 1 PROVE gpu'[i] = record(executed' + i)
    <3>1. i + 1 \in 1..Len(gpu) /\ executed + (i + 1) = executed' + i
      BY <1>t, <1>d
    <3> QED
      BY <1>4, <1>g, <3>1 DEF GpuInv
  <2>2. d = record(d.seq)
    BY <1>4, <1>t, <1>g, <1>d DEF GpuInv
  <2>n. executed \in Int /\ d.seq = executed + 1 /\ d.seq \in Nat
    BY <1>t, <1>d
  <2>3. ASSUME NEW s \in fenced..fenced + 1, fence'[slotOf(s)] PROVE s <= d.seq
    <3>1. CASE s = d.seq + 1
      <4>1. fence[slotOf(s)]
        BY <1>f, <1>s, <2>3, <3>1 DEF HostOK
      <4> QED
        BY <1>4, <2>3, <2>n, <3>1, <4>1 DEF GpuInv
    <3>2. CASE s # d.seq + 1
      BY <1>d, <1>t, <2>0, <3>2
    <3> QED
      BY <3>1, <3>2
  <2>4. ASSUME NEW s \in oldest..d.seq, Generates(record(s)) PROVE readback'[slotOf(s)] = asked[s]
    <3>1. s \in oldest..next - 1
      BY <1>t, <1>d
    <3>2. CASE s = d.seq
      BY <1>f, <1>s, <2>2, <2>4, <3>1, <3>2 DEF InputInv, HostOK
    <3>3. CASE s # d.seq
      <4>1. s = executed /\ s + 1 = d.seq /\ s \in Nat /\ s \in oldest..executed
        BY <1>t, <1>d, <3>3 DEF SlotInv
      <4>2. slotOf(s) # slotOf(d.seq) /\ slotOf(s) \in 0..1
        BY <4>1, Slots
      <4> QED
        BY <1>4, <1>f, <2>4, <4>1, <4>2 DEF GpuInv, HostOK
    <3> QED
      BY <3>2, <3>3
  <2>5. \A s : record(s)' = record(s)
    BY <1>u DEF record
  <2>6. executed' >= fenced' - 1
    BY <1>4, <1>t, <1>d, <1>o, <2>0
  <2> QED
    BY <1>u, <1>o, <1>g, <1>d, <2>1, <2>3, <2>4, <2>5, <2>6 DEF GpuInv
<1> QED
  BY <1>u, <1>1, <1>2, <1>3, <1>4 DEF Stalled

----------------------------------------------------------------------------
(* The host's completion thread                                             *)

\* The completion thread writes the region of a request that has no answer yet:
\* views of answered ones are four requests older when it is theirs.
LEMMA ViewsApart ==
  ASSUME IInv, cpc \in {"fence", "converting"}, NEW v \in views, seq - v.of < RING
  PROVE  v.of % RING # cur.seq % RING /\ v.of % RING \in 0..RING - 1
<1>t. Counts
  BY Numbers
<1>1. v.of \in 1..ack /\ ack = cur.seq - 1 /\ ack \in Nat /\ v.of \in Nat /\ cur.seq \in Nat
  BY <1>t, SMTT(30) DEF Counts, IInv, ViewInv, SeqInv
<1>2. cur.seq <= seq /\ seq \in Nat
  BY <1>t DEF Counts, IInv, SeqInv
<1>3. v.of < cur.seq /\ cur.seq < v.of + RING
  BY <1>1, <1>2 DEF RING
<1>4. v.of % RING \in 0..RING - 1
  BY <1>1, Regions
<1>5. v.of % RING = cur.seq % RING => cur.seq >= v.of + RING
  BY <1>1, <1>3, Regions
<1> QED
  BY <1>1, <1>3, <1>4, <1>5 DEF RING

\* Converting begins: the region of cur.seq is wiped, its fence taken back.
LEMMA Converting ==
  ASSUME IInv, cpc = "fence", StartConverting, stalls' \in 0..MaxStalls,
         stalls' = stalls => fence[slotOf(cur.seq)],
         stalls' = stalls \/ stalls' = stalls + 1
  PROVE  IInv'
<1>t. Counts
  BY Numbers
<1>u. /\ UNCHANGED <<client, caller, pc, seq, call, pend, timeouts, given, asked, views, control, req, ack, quit, inSlot,
                     res, main, hpc, next, slotFree, upload, done, gpu, readback, cur>>
      /\ cpc' = "converting"
  BY DEF StartConverting, client, control, main
<1>r. cur.seq \in Nat /\ cur.seq + 1 \in Nat /\ cur.seq >= 1 /\ oldest = cur.seq
  BY <1>t DEF Counts, oldest, Active
<1>s. /\ slotOf(cur.seq) \in 0..1 /\ slotOf(cur.seq + 1) # slotOf(cur.seq)
      /\ slotOf(cur.seq + 2) = slotOf(cur.seq) /\ slotOf(cur.seq + 1) \in 0..1
      /\ cur.seq % RING \in 0..RING - 1
  BY <1>r, Slots, Regions
<1>f. fence' = [fence EXCEPT ![slotOf(cur.seq)] = FALSE]
  BY DEF StartConverting
<1>g. ring' = [ring EXCEPT ![cur.seq % RING] = 0] \/ ring' = ring
  BY DEF StartConverting
<1>o. /\ oldest' = oldest /\ converted' = converted /\ executed' = executed
      /\ fenced = cur.seq /\ fenced' = cur.seq + 1
  BY <1>u DEF oldest, converted, executed, fenced, Active
<1>1. ClientOK' /\ PendInv'
  BY <1>u, HostLeavesClient
<1>2. FilesOK'
  <2>1. ring' \in [0..RING - 1 -> Pics]
    BY <1>g, <1>s DEF IInv, FilesOK, Pics
  <2> QED
    BY <1>u, <2>1 DEF IInv, FilesOK
<1>3. HostOK'
  <2>1. fence' \in [0..1 -> BOOLEAN]
    BY <1>f, <1>s DEF IInv, HostOK
  <2> QED
    BY <1>u, <2>1 DEF IInv, HostOK
<1>4. SeqInv' /\ QueueInv'
  BY <1>u, Untouched DEF IInv, SeqInv, Active, Works
<1>5. SlotInv' /\ InputInv'
  BY <1>u, <1>o DEF IInv, SlotInv, InputInv, Owns
<1>6. ViewInv'
  <2>1. ASSUME NEW v \in views, seq - v.of < RING PROVE ring'[v.of % RING] = v.shows
    BY <1>g, <2>1, ViewsApart DEF IInv, ViewInv, ViewsStayValid, FilesOK
  <2> QED
    BY <1>u, <2>1 DEF IInv, ViewInv, ViewsStayValid
<1>7. ~Stalled' => GpuInv' /\ RingInv'
  <2> SUFFICES ASSUME ~Stalled' PROVE GpuInv' /\ RingInv'
    OBVIOUS
  <2>1. ~Stalled /\ stalls' = stalls
    BY DEF Stalled, IInv, HostOK
  <2>2. GpuInv /\ RingInv /\ fence[slotOf(cur.seq)]
    BY <2>1 DEF IInv
  <2>3. executed >= cur.seq /\ executed \in Int
    <3>1. executed \in Int
      BY <1>t DEF Counts
    <3>2. cur.seq \in fenced..fenced + 1
      BY <1>r, <1>o
    <3>3. cur.seq <= executed
      BY <2>2, <3>2 DEF GpuInv
    <3> QED
      BY <1>r, <3>1, <3>3
  <2>4. ASSUME NEW s \in cur.seq + 1..cur.seq + 2, fence'[slotOf(s)] PROVE s <= executed
    <3>1. CASE s = cur.seq + 1
      <4>1. fence[slotOf(s)]
        BY <1>f, <1>s, <2>4, <3>1 DEF IInv, HostOK
      <4>2. s \in fenced..fenced + 1
        BY <1>r, <1>o, <3>1
      <4> QED
        BY <2>2, <4>1, <4>2 DEF GpuInv
    <3>2. CASE s = cur.seq + 2
      BY <1>f, <1>s, <2>4, <3>2 DEF IInv, HostOK
    <3> QED
      BY <1>r, <3>1, <3>2
  <2>5. GpuInv'
    <3>1. fenced' + 1 = cur.seq + 2
      BY <1>o, <1>r
    <3> QED
      BY <1>u, <1>o, <1>r, <2>2, <2>3, <2>4, <3>1 DEF GpuInv, record
  <2>6. RingInv'
    <3>1. ASSUME NEW s \in 1..converted, s > cur.seq - RING, res[s % RESULTS].gen
          PROVE  ring'[s % RING] = asked[s]
      <4>1. s \in Nat /\ s < cur.seq /\ cur.seq < s + RING
        BY <1>r, <3>1 DEF converted, RING
      <4>2. s % RING # cur.seq % RING /\ s % RING \in 0..RING - 1
        BY <1>r, <4>1, Regions DEF RING
      <4> QED
        BY <1>g, <2>2, <3>1, <4>2 DEF RingInv, IInv, FilesOK
    <3> QED
      BY <1>u, <1>o, <3>1 DEF RingInv
  <2> QED
    BY <2>5, <2>6
<1> QED
  BY <1>1, <1>2, <1>3, <1>4, <1>5, <1>6, <1>7 DEF IInv

LEMMA CompletionStep == IInv /\ Completion => IInv'
<1> SUFFICES ASSUME IInv, Completion PROVE IInv'
  OBVIOUS
<1>t. Counts
  BY Numbers
<1>r. cur.seq \in Nat /\ cur.seq + 1 \in Nat
  BY <1>t DEF Counts
<1>s. /\ slotOf(cur.seq) \in 0..1 /\ slotOf(cur.seq + 1) # slotOf(cur.seq)
      /\ slotOf(cur.seq + 1) \in 0..1
      /\ cur.seq % RING \in 0..RING - 1 /\ cur.seq % RESULTS \in 0..RESULTS - 1
  BY <1>r, Slots, Regions
<1>1. CASE TakeDone
  <2>u. /\ UNCHANGED <<client, caller, pc, seq, call, pend, timeouts, given, asked, views, control, req, ack, quit, inSlot,
                       res, ring, main, hpc, next, slotFree, upload, device, gpu, fence, readback, stalls>>
        /\ cpc = "waiting" /\ cpc' = "fence"
    BY <1>1 DEF TakeDone, client, control, main, device
  <2>d. /\ cur' = done[1] /\ cur' \in Record /\ Len(done) >= 1
        /\ done' \in Seq(Record) /\ Len(done') = Len(done) - 1
        /\ \A i \in 1..Len(done) - 1 : done'[i] = done[i + 1]
    BY <1>1, Taken DEF TakeDone, IInv, HostOK
  <2>l. Len(done') = Len(done) - 1
    BY <2>d
  <2>c. cur'.seq = cur.seq + 1
    BY <1>t, <2>d DEF IInv, QueueInv, Counts
  <2>o. /\ oldest' = oldest /\ converted' = converted /\ executed' = executed /\ fenced' = fenced
        /\ oldest = cur.seq + 1 /\ converted = cur.seq /\ fenced = cur.seq + 1
    BY <1>r, <2>u, <2>c DEF oldest, converted, executed, fenced, Active
  <2>1. ClientOK' /\ PendInv' /\ FilesOK' /\ ViewInv'
    BY <2>u, HostLeavesClient, Untouched DEF IInv
  <2>2. HostOK'
    BY <2>u, <2>d DEF IInv, HostOK, Record
  <2>3. SeqInv'
    <3>1. next' = cur'.seq + Len(done') + 1 /\ cur'.seq >= 1 /\ cur'.seq - 1 = cur.seq
      <4>1. next = cur.seq + Len(done) + 1 /\ next' = next
        BY <2>u DEF IInv, SeqInv
      <4>2. Len(done) \in Nat
        BY <1>t DEF Counts
      <4> QED
        BY <1>r, <2>l, <2>c, <4>1, <4>2
    <3> QED
      BY <2>u, <3>1 DEF IInv, SeqInv, Active, Works
  <2>4. QueueInv'
    <3>1. ASSUME NEW i \in 1..Len(done) - 1 PROVE done'[i].seq = cur'.seq + i
      <4>1. i + 1 \in 1..Len(done) /\ cur'.seq + i = cur.seq + (i + 1)
        BY <1>t, <2>c, SMTT(30) DEF Counts
      <4> QED
        BY <2>d, <4>1 DEF IInv, QueueInv
    <3> QED
      BY <2>u, <2>d, <2>o, <3>1 DEF IInv, QueueInv
  <2>5. SlotInv' /\ InputInv'
    BY <2>u, <2>o DEF IInv, SlotInv, InputInv, Owns
  <2>6. GpuInv => GpuInv'
    <3>1. ASSUME NEW s \in Nat, cur.seq < s, s <= next - 1 PROVE record(s)' = record(s)
      <4>1. next = cur.seq + Len(done) + 1 /\ Len(done) \in Nat /\ next \in Nat
        BY <1>t DEF IInv, SeqInv, Counts
      <4>2. CASE s = cur.seq + 1
        BY <1>r, <2>c, <2>d, <4>2 DEF record
      <4>3. CASE s > cur.seq + 1
        <5>1. s - (cur.seq + 1) \in 1..Len(done) - 1
          BY <1>r, <3>1, <4>1, <4>3, SMTT(30)
        <5>2. (s - (cur.seq + 1)) + 1 = s - cur.seq
          BY <1>r
        <5>3. done'[s - (cur.seq + 1)] = done[s - cur.seq]
          BY <2>d, <5>1, <5>2
        <5>4. s # cur.seq /\ s # cur.seq + 1
          BY <1>r, <4>3
        <5> QED
          BY <2>c, <5>3, <5>4 DEF record
      <4> QED
        BY <1>r, <3>1, <4>2, <4>3
    <3> SUFFICES ASSUME GpuInv PROVE GpuInv'
      OBVIOUS
    <3>2. /\ executed \in Int /\ executed >= cur.seq /\ executed + Len(gpu) = next - 1
          /\ Len(gpu) \in Nat /\ next \in Nat
      BY <1>t, <2>o, SMTT(30) DEF GpuInv, Counts, executed
    <3>3. ASSUME NEW i \in 1..Len(gpu) PROVE gpu[i] = record(executed + i)'
      <4>1. executed + i \in Nat /\ cur.seq < executed + i /\ executed + i <= next - 1
        BY <1>r, <3>2
      <4>2. record(executed + i)' = record(executed + i)
        BY <2>o, <3>1, <4>1
      <4> QED
        BY <4>2 DEF GpuInv
    <3>4. ASSUME NEW s \in oldest..executed, Generates(record(s)')
          PROVE  readback[slotOf(s)] = asked[s]
      <4>1. record(s)' = record(s)
        BY <1>r, <2>o, <3>1, <3>2
      <4> QED
        BY <3>4, <4>1 DEF GpuInv
    <3> QED
      BY <2>u, <2>o, <3>3, <3>4 DEF GpuInv
  <2>7. RingInv => RingInv'
    BY <1>r, <2>u, <2>o, <2>c DEF RingInv, RING
  <2> QED
    BY <2>u, <2>1, <2>2, <2>3, <2>4, <2>5, <2>6, <2>7 DEF IInv, Stalled
<1>2. CASE CompletionEnds
  <2>u. /\ UNCHANGED <<client, caller, pc, seq, call, pend, timeouts, given, asked, views, control, req, ack, quit, inSlot,
                       res, ring, main, hpc, next, slotFree, upload, done, device, gpu, fence, readback, cur, stalls>>
        /\ cpc = "waiting" /\ cpc' = "ended"
    BY <1>2 DEF CompletionEnds, client, control, main, device
  <2>o. oldest' = oldest /\ converted' = converted /\ executed' = executed /\ fenced' = fenced
    BY <2>u DEF oldest, converted, executed, fenced, Active
  <2>1. ClientOK' /\ PendInv' /\ FilesOK' /\ ViewInv' /\ QueueInv'
    BY <2>u, HostLeavesClient, Untouched DEF IInv
  <2>2. HostOK' /\ SeqInv'
    BY <2>u DEF IInv, HostOK, SeqInv, Active, Works
  <2>3. SlotInv' /\ InputInv'
    BY <2>u, <2>o DEF IInv, SlotInv, InputInv, Owns
  <2>4. (GpuInv => GpuInv') /\ (RingInv => RingInv')
    BY <2>u, <2>o DEF GpuInv, RingInv, record
  <2> QED
    BY <2>u, <2>1, <2>2, <2>3, <2>4 DEF IInv, Stalled
<1>3. CASE Finished
  BY <1>3, Converting DEF Finished, IInv, HostOK
<1>4. CASE FenceTimesOut
  <2>1. stalls' \in 0..MaxStalls /\ stalls' = stalls + 1 /\ stalls' # stalls
    BY <1>4 DEF FenceTimesOut, IInv, HostOK
  <2> QED
    BY <1>4, <2>1, Converting DEF FenceTimesOut
<1>5. CASE Converted
  <2>u. /\ UNCHANGED <<client, caller, pc, seq, call, pend, timeouts, given, asked, views, control, req, ack, quit, inSlot,
                       main, hpc, next, slotFree, upload, done, device, gpu, fence, readback, cur, stalls>>
        /\ cpc = "converting" /\ cpc' = "answering"
    BY <1>5 DEF Converted, client, control, main, device
  <2>r. /\ ring' = IF Generates(cur)
                   THEN [ring EXCEPT ![cur.seq % RING] = readback[slotOf(cur.seq)]] ELSE ring
        /\ res' = [res EXCEPT ![cur.seq % RESULTS] = [ok |-> cur.ok, gen |-> Generates(cur)]]
    BY <1>5 DEF Converted
  <2>o. /\ oldest' = oldest /\ executed' = executed /\ fenced' = fenced
        /\ oldest = cur.seq /\ fenced = cur.seq + 1 /\ converted = cur.seq - 1 /\ converted' = cur.seq
    BY <2>u DEF oldest, converted, executed, fenced, Active
  <2>1. ClientOK' /\ PendInv' /\ QueueInv'
    BY <2>u, HostLeavesClient, Untouched DEF IInv
  <2>2. FilesOK'
    <3>1. readback[slotOf(cur.seq)] \in Pics /\ cur.ok \in BOOLEAN
      BY <1>s DEF IInv, HostOK
    <3>2. ring' \in [0..RING - 1 -> Pics]
      BY <1>s, <2>r, <3>1 DEF IInv, FilesOK
    <3>3. [ok |-> cur.ok, gen |-> Generates(cur)] \in [ok : BOOLEAN, gen : BOOLEAN]
      BY <3>1, Zenon DEF Generates
    <3>4. res' \in [0..RESULTS - 1 -> [ok : BOOLEAN, gen : BOOLEAN]]
      BY <1>s, <2>r, <3>3 DEF IInv, FilesOK
    <3> QED
      BY <2>u, <3>2, <3>4 DEF IInv, FilesOK
  <2>3. HostOK' /\ SeqInv'
    BY <2>u DEF IInv, HostOK, SeqInv, Active, Works
  <2>4. SlotInv' /\ InputInv'
    BY <2>u, <2>o DEF IInv, SlotInv, InputInv, Owns
  <2>5. ViewInv'
    <3>1. ASSUME NEW v \in views, seq - v.of < RING PROVE ring'[v.of % RING] = v.shows
      BY <2>r, <2>u, <3>1, ViewsApart DEF IInv, ViewInv, ViewsStayValid, FilesOK
    <3> QED
      BY <2>u, <3>1 DEF IInv, ViewInv, ViewsStayValid
  <2>6. GpuInv => GpuInv'
    BY <2>u, <2>o DEF GpuInv, record
  <2>7. GpuInv /\ RingInv => RingInv'
    <3> SUFFICES ASSUME GpuInv, RingInv,
                        NEW s \in 1..cur.seq, s > cur.seq - RING, res'[s % RESULTS].gen
                 PROVE  ring'[s % RING] = asked[s]
      BY <2>u, <2>o DEF RingInv
    <3>1. CASE s = cur.seq
      <4>1. res'[s % RESULTS] = [ok |-> cur.ok, gen |-> Generates(cur)]
        BY <1>s, <2>r, <3>1 DEF IInv, FilesOK
      <4>2. Generates(cur)
        BY <4>1
      <4>3. executed >= cur.seq /\ executed \in Int
        BY <1>t, <1>r, <2>o DEF GpuInv, Counts
      <4>4. readback[slotOf(cur.seq)] = asked[cur.seq]
        BY <1>r, <2>o, <4>2, <4>3 DEF GpuInv, record
      <4> QED
        BY <1>s, <2>r, <3>1, <4>2, <4>4 DEF IInv, FilesOK
    <3>2. CASE s # cur.seq
      <4>1. s \in Nat /\ s < cur.seq /\ cur.seq < s + RING /\ s \in 1..converted
        BY <1>r, <2>o, <3>2 DEF RING
      <4>2. /\ s % RING # cur.seq % RING /\ s % RING \in 0..RING - 1
            /\ s % RESULTS # cur.seq % RESULTS /\ s % RESULTS \in 0..RESULTS - 1
        <5>1. RING \in Nat
          BY DEF RING
        <5> QED
          BY <1>r, <4>1, <5>1, Regions
      <4>3. res'[s % RESULTS] = res[s % RESULTS] /\ ring'[s % RING] = ring[s % RING]
        BY <2>r, <4>2 DEF IInv, FilesOK
      <4> QED
        BY <4>1, <4>3 DEF RingInv
    <3> QED
      BY <3>1, <3>2
  <2> QED
    BY <2>u, <2>1, <2>2, <2>3, <2>4, <2>5, <2>6, <2>7 DEF IInv, Stalled
<1>6. CASE Acknowledge
  <2>u. /\ UNCHANGED <<client, caller, pc, seq, call, pend, timeouts, given, asked, views, req, quit, inSlot,
                       res, ring, main, hpc, next, slotFree, upload, done, device, gpu, fence, readback, cur, stalls>>
        /\ cpc = "answering" /\ cpc' = "freeing" /\ ack' = cur.seq
    BY <1>6 DEF Acknowledge, client, main, device
  <2>a. ack \in Nat /\ ack' = ack + 1 /\ seq \in Nat
    BY <1>t, <2>u, SMTT(30) DEF IInv, SeqInv, Counts
  <2>o. oldest' = oldest /\ converted' = converted /\ executed' = executed /\ fenced' = fenced
    BY <2>u DEF oldest, converted, executed, fenced, Active
  <2>1. ClientOK' /\ PendInv' /\ QueueInv'
    BY <2>u, HostLeavesClient, Untouched DEF IInv
  <2>2. FilesOK' /\ HostOK'
    BY <2>u, <2>a DEF IInv, FilesOK, HostOK
  <2>3. SeqInv'
    BY <2>u, <2>a DEF IInv, SeqInv, Active, Works
  <2>4. SlotInv' /\ InputInv'
    BY <2>u, <2>o DEF IInv, SlotInv, InputInv, Owns
  <2>5. ViewInv'
    BY <2>u, <2>a DEF IInv, ViewInv, ViewsStayValid
  <2>6. (GpuInv => GpuInv') /\ (RingInv => RingInv')
    BY <2>u, <2>o DEF GpuInv, RingInv, record
  <2> QED
    BY <2>u, <2>1, <2>2, <2>3, <2>4, <2>5, <2>6 DEF IInv, Stalled
<1>7. CASE FreeSlot
  <2>u. /\ UNCHANGED <<client, caller, pc, seq, call, pend, timeouts, given, asked, views, control, req, ack, quit, inSlot,
                       res, ring, main, hpc, next, upload, done, device, gpu, fence, readback, cur, stalls>>
        /\ cpc = "freeing" /\ cpc' = "waiting"
        /\ slotFree' = [slotFree EXCEPT ![slotOf(cur.seq)] = TRUE]
    BY <1>7 DEF FreeSlot, client, control, main, device
  <2>o. /\ converted' = converted /\ executed' = executed /\ fenced' = fenced
        /\ oldest = cur.seq /\ oldest' = cur.seq + 1
    BY <2>u DEF oldest, converted, executed, fenced, Active
  <2>1. ClientOK' /\ PendInv' /\ FilesOK' /\ ViewInv' /\ QueueInv'
    BY <2>u, HostLeavesClient, Untouched DEF IInv
  <2>2. HostOK'
    <3>1. slotFree' \in [0..1 -> BOOLEAN]
      BY <1>s, <2>u DEF IInv, HostOK
    <3> QED
      BY <2>u, <3>1 DEF IInv, HostOK
  <2>3. SeqInv'
    BY <2>u DEF IInv, SeqInv, Active, Works
  <2>4. InputInv'
    BY <1>r, <2>u, <2>o DEF IInv, InputInv
  <2>5. SlotInv'
    <3>1. next \in Nat /\ next <= cur.seq + 2 /\ (Owns => next <= cur.seq + 1) /\ next >= cur.seq + 1
      <4>1. next <= cur.seq + 2 /\ (Owns => next <= cur.seq + 1)
        BY <2>o DEF IInv, SlotInv
      <4>2. next \in Nat /\ Len(done) \in Nat
        BY <1>t DEF Counts
      <4>3. next = cur.seq + Len(done) + 1
        BY DEF IInv, SeqInv
      <4> QED
        BY <1>r, <4>1, <4>2, <4>3
    <3>2. ~slotFree[slotOf(cur.seq + 1)] => ~slotFree'[slotOf(cur.seq + 1)]
      BY <1>s, <2>u DEF IInv, HostOK
    <3>3. ASSUME NEW s \in cur.seq + 1..next - 1 PROVE ~slotFree'[slotOf(s)]
      <4>1. s = cur.seq + 1 /\ s \in oldest..next - 1
        BY <1>r, <2>o, <3>1
      <4> QED
        BY <3>2, <4>1 DEF IInv, SlotInv
    <3>4. Owns => ~slotFree'[slotOf(next)]
      <4>1. Owns => next = cur.seq + 1
        BY <1>r, <3>1
      <4> QED
        BY <3>2, <4>1 DEF IInv, SlotInv
    <3> QED
      BY <1>r, <2>u, <2>o, <3>1, <3>3, <3>4 DEF SlotInv, Owns
  <2>6. GpuInv => GpuInv'
    BY <1>r, <2>u, <2>o DEF GpuInv, record
  <2>7. RingInv => RingInv'
    BY <2>u, <2>o DEF RingInv
  <2> QED
    BY <2>u, <2>1, <2>2, <2>3, <2>4, <2>5, <2>6, <2>7 DEF IInv, Stalled
<1> QED
  BY <1>1, <1>2, <1>3, <1>4, <1>5, <1>6, <1>7 DEF Completion

----------------------------------------------------------------------------
(* The theorems                                                             *)

LEMMA Inductive == IInv /\ [Next]_vars => IInv'
<1> SUFFICES ASSUME IInv, [Next]_vars PROVE IInv'
  OBVIOUS
<1>1. CASE UNCHANGED vars
  <2>1. /\ UNCHANGED <<client, control, req, ack, inSlot, res, ring, main, hpc, next, slotFree, upload,
                       done, device, gpu, finish, cpc, cur, stalls, pc, seq, call, pend, asked, views>>
    BY <1>1 DEF vars, client, control, main, device, finish
  <2> QED
    BY <2>1, Untouched DEF IInv, Stalled
<1> QED
  BY <1>1, ClientStep, MainStep, GpuStep, CompletionStep DEF Next

LEMMA Invariant == Spec => []IInv
<1>1. IInv /\ [Next]_vars => IInv'
  BY Inductive
<1> QED
  BY <1>1, InitInvariant, PTL DEF Spec

\* Every variable of the link keeps its type, for any number of calls.
THEOREM TypeCorrect == Spec => []TypeOK
<1>1. IInv => TypeOK
  BY DEF IInv, TypeOK
<1> QED
  BY <1>1, Invariant, PTL

\* What the completion thread converts is the GPU's finished picture of the very
\* request being answered, as long as no fence wait has timed out.
LEMMA FinishedConverted == IInv => ConvertsFinished
<1> SUFFICES ASSUME IInv, ~Stalled, cpc = "converting", Generates(cur)
             PROVE  readback[slotOf(cur.seq)] = asked[cur.seq]
  BY DEF ConvertsFinished
<1>1. oldest = cur.seq /\ fenced = cur.seq + 1 /\ cur.seq \in Nat /\ executed \in Int
  BY Numbers DEF Counts, oldest, fenced, Active
<1>2. GpuInv
  BY DEF IInv
<1>3. cur.seq \in oldest..executed /\ record(cur.seq) = cur
  BY <1>1, <1>2 DEF GpuInv, record
<1> QED
  BY <1>2, <1>3 DEF GpuInv

\* The buffers nobody locks hold whole pictures while somebody looks at them: the
\* input slot while the host copies it, the readback buffer while it is converted,
\* the region of a view until the fourth request after its own is published
\* (module_client.py:71-95, ngxdlssg_vk_host.cpp:195-207).
THEOREM BuffersAreHeld == Spec => []BuffersHold
<1>1. IInv => BuffersHold
  BY WholeInput, FinishedConverted DEF BuffersHold, IInv, ViewInv
<1> QED
  BY <1>1, Invariant, PTL

\* What end() returns for a token: it has been answered, and its region shows it.
LEMMA CollectsItsOwn ==
  ASSUME IInv, ~Stalled, pc = "endwait", ack >= Head(pend)
  PROVE  /\ Head(pend) \in 1..ack
         /\ res[Head(pend) % RESULTS].gen => ring[Head(pend) % RING] = asked[Head(pend)]
<1>t. Counts
  BY Numbers
<1> DEFINE h == Head(pend)
<1>1. pend # <<>> /\ h = pend[1] /\ h \in Nat /\ Len(pend) >= 1 /\ ack >= h
  BY <1>t, Taken DEF Counts, IInv, PendInv
<1> HIDE DEF h
<1>2. h >= 1 /\ h >= seq - 1
  BY <1>t, <1>1 DEF IInv, PendInv, Counts
<1>3. cur.seq \in Nat /\ cur.seq <= seq /\ ack <= converted /\ ack \in Nat /\ seq \in Nat /\ converted \in Int
  <2>1. next = cur.seq + Len(done) + 1
    BY DEF IInv, SeqInv
  <2>2. ack <= converted /\ converted \in Int
    BY <1>t, SMTT(30) DEF IInv, SeqInv, HostOK, converted, Counts
  <2> QED
    BY <1>t, <2>1, <2>2 DEF Counts
<1>4. h \in 1..converted /\ h > cur.seq - RING
  BY <1>1, <1>2, <1>3 DEF RING
<1>5. res[h % RESULTS].gen => ring[h % RING] = asked[h]
  BY <1>4 DEF IInv, RingInv
<1> QED
  BY <1>1, <1>2, <1>3, <1>5 DEF h

\* Every step of the link is one of the service or changes nothing it speaks of.
LEMMA StepSimulates ==
  IInv /\ [Next]_vars => [Service!Next \/ Stalled']_<<asked, ack, given>>
<1> SUFFICES ASSUME IInv, [Next]_vars, ~Stalled', ~UNCHANGED <<asked, ack, given>>
             PROVE  Service!Next
  OBVIOUS
<1>t. Counts
  BY Numbers
<1>1. CASE Publish
  <2>1. asked' = Append(asked, call) /\ UNCHANGED <<ack, given>>
    BY <1>1 DEF Publish
  <2>2. call \in 1..MaxCalls /\ Len(asked) - ack < 2
    BY <1>1, <1>t DEF Publish, IInv, SeqInv, ClientOK, Pics, Counts
  <2> QED
    BY <2>1, <2>2 DEF Service!Next, Service!Ask
<1>2. CASE Acknowledge
  <2>1. ack' = cur.seq /\ UNCHANGED <<asked, given>> /\ cpc = "answering"
    BY <1>2 DEF Acknowledge, client
  <2>2. cur.seq = ack + 1 /\ ack \in Nat
    BY <1>t, <2>1 DEF IInv, SeqInv, Counts
  <2>3. ack < Len(asked)
    <3>1. next = cur.seq + Len(done) + 1 /\ Len(asked) = seq
      BY DEF IInv, SeqInv
    <3> QED
      BY <1>t, <2>2, <3>1 DEF Counts
  <2> QED
    BY <2>1, <2>2, <2>3 DEF Service!Next, Service!AnswerNext
<1>3. CASE EndReturns \/ EndFails
  <2> DEFINE h == Head(pend)
             shows == IF res[h % RESULTS].gen THEN ring[h % RING] ELSE 0
  <2>1. UNCHANGED <<asked, ack, stalls>> /\ pc = "endwait" /\ ack >= Head(pend)
    BY <1>3 DEF EndReturns, EndFails, control, finish
  <2>2. /\ h \in 1..ack
        /\ res[h % RESULTS].gen => ring[h % RING] = asked[h]
    BY <2>1, CollectsItsOwn DEF Stalled
  <2>3. given' = [request |-> h, shows |-> shows] \/ given' = [request |-> h, shows |-> 0]
    BY <1>3, Zenon DEF EndReturns, EndFails
  <2>4. shows \in {0, asked[h]}
    BY <2>2
  <2> HIDE DEF h, shows
  <2>5. \E p \in {0, asked[h]} : given' = [request |-> h, shows |-> p]
    BY <2>3, <2>4
  <2> QED
    BY <2>1, <2>2, <2>5 DEF Service!Next, Service!Collect
<1>4. CASE Client /\ ~(Publish \/ EndReturns \/ EndFails)
  BY <1>4 DEF Client, Begin, BeginCopy, EndCopy, End, WaitRaises, Close, Kill, control
<1>5. CASE Main \/ GpuExecutes \/ HostDies
  BY <1>5 DEF Main, TakeSlot, OwnSlot, CopiedIn, SubmitFrame, MainStops, Exit, GpuExecutes,
     HostDies,
     control, client
<1>6. CASE Completion /\ ~Acknowledge
  BY <1>6 DEF Completion, TakeDone, CompletionEnds, Finished, FenceTimesOut, StartConverting,
     Converted,
     FreeSlot, control, client
<1>7. CASE UNCHANGED vars
  BY <1>7 DEF vars, control, client
<1> QED
  BY <1>1, <1>2, <1>3, <1>4, <1>5, <1>6, <1>7 DEF Next

\* The link implements the two-deep first-in first-out service: whatever the client
\* gives up on, fails or dies, at most two frames are unanswered, answers come in
\* order, and what end() gives for a frame is made from that frame; until a fence
\* wait has timed out (module_client.py:71-95).
THEOREM ImplementsService == Spec => ServiceSpec
<1>1. Init => Service!Init
  BY DEF Init, Service!Init
<1>2. IInv /\ [Next]_vars => [Service!Next \/ Stalled']_<<asked, ack, given>>
  BY StepSimulates
<1> QED
  BY <1>1, <1>2, Invariant, PTL DEF Spec, ServiceSpec

=============================================================================
