--------------------------- MODULE UpscalerHostProofs ---------------------------
(***************************************************************************)
(* Proofs about UpscalerHost for any methods and any number of frames,      *)
(* events and pictures queued: its types, that no thread works with what    *)
(* another has replaced, dropped or closed, and that pictures go out in     *)
(* display order.                                                           *)
(***************************************************************************)
EXTENDS UpscalerHost, TLAPS

USE MethodsAssumption, BoundsAssumption

----------------------------------------------------------------------------
(* The inductive invariant                                                  *)

\* Where the frame-generation thread collects a result; where it has a job before it.
Collecting == fpc \in {"finish", "generated", "real"}
Holding ==
  \/ fpc \in {"release", "show", "ensure", "make", "begin"}
  \/ Collecting /\ after \in {"release", "ensure"}

\* _fg_q holds one job at most.
RoomInv == Len(fgq) <= 1

\* The process thread is in the geometry of the upscaler unless it has just asked for
\* another; every event gives one geometry more at most.
CallInv ==
  /\ geo <= events + 1
  /\ cmd.op = "configure" => ppc = "calling" /\ cmd.geo = geo
  /\ cmd.op = "close" => ppc = "closing"
  /\ ppc = "run" => geo = upGeo
  /\ ppc = "calling" => cmd.op = "configure"
  /\ ppc \in {"closing", "ending", "closed"} => late \/ fpc = "ended"
  /\ ppc \in {"ending", "closed"} => up = "absent" /\ upc = "wait"

\* A frame for the upscaler has its geometry and a number above all before it.
SlotInv ==
  /\ slot # NoFrame => slot.geo = upGeo /\ job.n < slot.n /\ slot.n <= sent
  /\ job.n <= sent
  /\ upc # "wait" => job.n > 0
  /\ upc = "upscale" => job.geo = upGeo /\ up # "absent"

\* The newest frame that has left the upscaler thread; the numbers rise from the frame
\* being collected to it.
Handed == IF upc = "wait" THEN job.n ELSE job.n - 1

ChainInv ==
  /\ pend.n <= Handed /\ token.n <= Handed /\ fjob.n <= Handed
  /\ pend # NoToken => pend.n > 0
  /\ token # NoToken => Collecting /\ after = "keep"
  /\ Collecting => pend # NoToken
  /\ Collecting /\ after = "keep" => token.n > pend.n
  /\ fpc \in {"stop", "release", "show", "ended"} => pend = NoToken
  /\ Holding => fjob.n > pend.n
  /\ \A i \in 1..Len(fgq) : \* there is one at most
       /\ fgq[i].n <= Handed
       /\ fgq[i] # StopJob => fgq[i].n > pend.n /\ fgq[i].n > token.n /\ fgq[i].n > fjob.n

\* Whose result is to be collected, and what the flag says; the key is the backend's.
BackendInv ==
  /\ fg # NoBackend => fgKey.geo = fg.geo
  /\ fpc = "begin" => fg # NoBackend /\ fg.geo = fjob.geo
  /\ fpc = "ended" => fg = NoBackend
  /\ fpc \in {"generated", "real", "show"} => (active <=> fg # NoBackend)
  /\ fpc = "get" /\ pend = NoToken => (active <=> fg # NoBackend)

TokenInv ==
  ~astray =>
    /\ fpc \in {"ensure", "make"} /\ pend # NoToken =>
         fg = NoBackend \/ fgKey = Key(seen, fjob.geo)
    /\ ~Collecting /\ pend.inst # 0 => fg.inst = pend.inst /\ fg # NoBackend
    /\ Collecting /\ token.inst # 0 => fg.inst = token.inst /\ fg # NoBackend
    /\ fpc = "finish" /\ pend.inst # 0 /\ fg # NoBackend => fg.inst = pend.inst

\* The pictures of a queue rise, from one shown before on; none is above a limit.
Rising(q, s) ==
  /\ \A i \in 1..Len(q) : s < q[i]
  /\ \A i, j \in 1..Len(q) : i < j => q[i] < q[j]
Upto(q, s, x) == s <= x /\ \A i \in 1..Len(q) : q[i] <= x

\* What is out is older than every frame still to be shown.
OrderInv ==
  ~overtook =>
    /\ Rising(pq, shown)
    /\ Upto(pq, shown, 2 * Handed)
    /\ pend # NoToken => Upto(pq, shown, IF fpc = "real" THEN 2 * pend.n - 1 ELSE 2 * pend.n - 2)
    /\ Holding => Upto(pq, shown, 2 * fjob.n - 2)
    /\ \A i \in 1..Len(fgq) : fgq[i] # StopJob => Upto(pq, shown, 2 * fgq[i].n - 2)

IInv ==
  /\ CallersOK /\ UpscalerOK /\ GeneratorOK /\ PresenterOK /\ RoomInv
  /\ CallInv /\ SlotInv /\ ChainInv /\ BackendInv /\ TokenInv /\ OrderInv

----------------------------------------------------------------------------
(* Lemmas                                                                   *)

\* What arithmetic on the frames needs to know.
Numbers ==
  /\ sent \in Nat /\ geo \in Nat /\ events \in Nat /\ made \in Nat
  /\ job.n \in Nat /\ slot.n \in Nat /\ pend.n \in Nat /\ token.n \in Nat /\ fjob.n \in Int
  /\ Len(fgq) \in Nat /\ \A i \in 1..Len(fgq) : fgq[i] \in Job /\ fgq[i].n \in Int

LEMMA NumbersAlways == IInv => Numbers
<1> SUFFICES ASSUME IInv PROVE Numbers
  OBVIOUS
<1>1. sent \in Nat /\ geo \in Nat /\ events \in Nat /\ slot.n \in Nat
  BY DEF IInv, CallersOK, Frames, Geos, Frame
<1>2. job.n \in Nat /\ Len(fgq) \in Nat /\ \A i \in 1..Len(fgq) : fgq[i] \in Job
  BY DEF IInv, UpscalerOK, Frame, Frames
<1>3. made \in Nat /\ pend.n \in Nat /\ token.n \in Nat /\ fjob.n \in Int
  BY DEF IInv, GeneratorOK, Token, Job, Frames
<1>4. \A j \in Job : j.n \in Int
  BY DEF Job, Frames
<1> QED
  BY <1>1, <1>2, <1>3, <1>4 DEF Numbers

\* The three kinds of nothing are of their types.
LEMMA Nothings ==
  /\ NoFrame \in Frame /\ NoFrame.n = 0
  /\ NoJob \in Job /\ NoJob.n = 0 /\ StopJob \in Job /\ StopJob.n = -1 /\ ~StopJob.plan
  /\ NoToken \in Token /\ NoToken.n = 0 /\ NoToken.inst = 0
  /\ NoBackend \in [inst : Nat, method : Settings, geo : Geos] /\ Key("off", 0) \in Keys
<1>1. 0 \in Frames /\ 0 \in Geos /\ "off" \in Settings
  BY DEF Frames, Geos, Settings
<1>2. NoFrame \in Frame /\ NoFrame.n = 0
  BY <1>1 DEF NoFrame, Frame
<1>3. NoJob \in Job /\ NoJob.n = 0 /\ StopJob \in Job /\ StopJob.n = -1
  BY <1>1 DEF NoJob, StopJob, Job
<1>4. ~StopJob.plan
  BY DEF StopJob
<1>5. NoToken \in Token /\ NoToken.n = 0 /\ NoToken.inst = 0
  BY <1>1 DEF NoToken, Token
<1>6. NoBackend \in [inst : Nat, method : Settings, geo : Geos] /\ Key("off", 0) \in Keys
  BY <1>1 DEF NoBackend, Key, Keys
<1> QED
  BY <1>2, <1>3, <1>4, <1>5, <1>6

\* A queue that takes a higher picture rises still; one that gives its first does too.
LEMMA PutHigher ==
  ASSUME NEW q \in Seq(Nat), NEW s \in Nat, NEW x \in Int, NEW p \in Nat,
         Rising(q, s), Upto(q, s, x), x < p
  PROVE  Rising(Append(q, p), s) /\ Upto(Append(q, p), s, p)
<1>1. Len(Append(q, p)) = Len(q) + 1 /\ Len(q) \in Nat
  OBVIOUS
<1>2. \A i \in 1..Len(q) : Append(q, p)[i] = q[i] /\ q[i] \in Nat
  OBVIOUS
<1>3. Append(q, p)[Len(q) + 1] = p
  OBVIOUS
<1>4. \A i \in 1..Len(q) + 1 : i \in 1..Len(q) \/ i = Len(q) + 1
  BY <1>1
<1>5. \A i \in 1..Len(q) + 1 : s < Append(q, p)[i] /\ Append(q, p)[i] <= p
  BY <1>1, <1>2, <1>3, <1>4 DEF Rising, Upto
<1>6. \A i, j \in 1..Len(q) + 1 : i < j => Append(q, p)[i] < Append(q, p)[j]
  <2> SUFFICES ASSUME NEW i \in 1..Len(q) + 1, NEW j \in 1..Len(q) + 1, i < j
               PROVE  Append(q, p)[i] < Append(q, p)[j]
    OBVIOUS
  <2>1. i \in 1..Len(q)
    BY <1>1
  <2> QED
    BY <1>1, <1>2, <1>3, <1>4, <2>1 DEF Rising, Upto
<1> QED
  BY <1>1, <1>5, <1>6 DEF Rising, Upto

LEMMA TakeFirst ==
  ASSUME NEW q \in Seq(Nat), NEW s \in Nat, q # <<>>
  PROVE  /\ Head(q) \in Nat /\ Tail(q) \in Seq(Nat)
         /\ Rising(q, s) => s < Head(q) /\ Rising(Tail(q), Head(q)) /\ Rising(Tail(q), s)
         /\ \A x \in Int : Upto(q, s, x) => Upto(Tail(q), Head(q), x) /\ Upto(Tail(q), s, x)
<1>1. Len(q) \in Nat /\ Len(q) >= 1 /\ Len(Tail(q)) = Len(q) - 1
  OBVIOUS
<1>2. Head(q) = q[1] /\ Head(q) \in Nat /\ Tail(q) \in Seq(Nat)
  OBVIOUS
<1>3. \A i \in 1..Len(q) - 1 : Tail(q)[i] = q[i + 1] /\ i + 1 \in 1..Len(q) /\ 1 < i + 1
  BY <1>1
<1>4. \A i \in 1..Len(q) : q[i] \in Nat
  OBVIOUS
<1>5. 1 \in 1..Len(q)
  BY <1>1
<1>6. ASSUME Rising(q, s) PROVE s < Head(q) /\ Rising(Tail(q), Head(q)) /\ Rising(Tail(q), s)
  <2>1. s < q[1]
    BY <1>5, <1>6 DEF Rising
  <2>2. \A i \in 1..Len(q) - 1 : q[1] < Tail(q)[i] /\ s < Tail(q)[i]
    BY <1>3, <1>5, <1>6 DEF Rising
  <2>3. \A i, j \in 1..Len(q) - 1 : i < j => Tail(q)[i] < Tail(q)[j]
    <3> SUFFICES ASSUME NEW i \in 1..Len(q) - 1, NEW j \in 1..Len(q) - 1, i < j
                 PROVE  Tail(q)[i] < Tail(q)[j]
      OBVIOUS
    <3>1. i + 1 < j + 1
      BY <1>1
    <3> QED
      BY <1>3, <1>6, <3>1 DEF Rising
  <2> QED
    BY <1>1, <1>2, <2>1, <2>2, <2>3 DEF Rising
<1>7. ASSUME NEW x \in Int, Upto(q, s, x) PROVE Upto(Tail(q), Head(q), x) /\ Upto(Tail(q), s, x)
  BY <1>1, <1>2, <1>3, <1>5, <1>7 DEF Upto
<1> QED
  BY <1>2, <1>6, <1>7

LEMMA Higher ==
  ASSUME NEW q \in Seq(Nat), NEW s \in Nat, NEW x \in Int, NEW y \in Int, Upto(q, s, x), x <= y
  PROVE  Upto(q, s, y)
<1>1. \A i \in 1..Len(q) : q[i] \in Nat
  OBVIOUS
<1> QED
  BY <1>1 DEF Upto


\* An event more leaves room for the geometry.
LEMMA Later == \A g, k, l \in Nat : g <= k + 1 /\ l >= k => g <= l + 1
  OBVIOUS

\* A picture put behind lower ones.
LEMMA Put ==
  ASSUME NEW q \in Seq(Nat), NEW s \in Nat, NEW x \in Int, NEW p \in Nat,
         Rising(q, s), Upto(q, s, x), x < p
  PROVE  /\ Append(q, p) \in Seq(Nat) /\ Rising(Append(q, p), s)
         /\ \A y \in Int : p <= y => Upto(Append(q, p), s, y)
<1>1. Append(q, p) \in Seq(Nat)
  OBVIOUS
<1>2. Rising(Append(q, p), s) /\ Upto(Append(q, p), s, p)
  BY PutHigher
<1>3. ASSUME NEW y \in Int, p <= y PROVE Upto(Append(q, p), s, y)
  <2> DEFINE r == Append(q, p)
  <2>1. r \in Seq(Nat) /\ Upto(r, s, p) /\ p \in Int
    BY <1>1, <1>2
  <2> HIDE DEF r
  <2>2. Upto(r, s, y)
    BY <1>3, <2>1, Higher
  <2> QED
    BY <2>2 DEF r
<1> QED
  BY <1>1, <1>2, <1>3

\* The pictures of two frames, one after the other.
LEMMA Twice ==
  ASSUME NEW a \in Int, NEW b \in Int
  PROVE  /\ a <= b => 2 * a <= 2 * b /\ 2 * a - 1 <= 2 * b
         /\ a < b => 2 * a <= 2 * b - 2 /\ 2 * a - 1 <= 2 * b - 2
         /\ 2 * a \in Int /\ 2 * a - 1 \in Int /\ 2 * a - 2 \in Int
         /\ 2 * a - 2 < 2 * a - 1 /\ 2 * a - 1 < 2 * a /\ 2 * a - 2 < 2 * a
         /\ a > 0 => 2 * a \in Nat /\ 2 * a - 1 \in Nat
  OBVIOUS

\* The numbers of what has left the upscaler thread.
LEMMA HandedIsNumber == IInv => Handed \in Nat
<1> SUFFICES ASSUME IInv PROVE Handed \in Nat
  OBVIOUS
<1>1. job.n \in Nat
  BY NumbersAlways DEF Numbers
<1>2. upc # "wait" => job.n > 0
  BY DEF IInv, SlotInv
<1> QED
  BY <1>1, <1>2 DEF Handed

\* The job the frame-generation thread takes is newer than what it has begun.
LEMMA Taken ==
  IInv /\ Take =>
    /\ fgq' = <<>> /\ Len(fgq') = 0 /\ fjob' \in Job /\ fjob'.n <= Handed
    /\ fjob' # StopJob => fjob'.n > pend.n
    /\ ~overtook /\ fjob' # StopJob => Upto(pq, shown, 2 * fjob'.n - 2)
<1> SUFFICES ASSUME IInv, Take PROVE
    /\ fgq' = <<>> /\ Len(fgq') = 0 /\ fjob' \in Job /\ fjob'.n <= Handed
    /\ fjob' # StopJob => fjob'.n > pend.n
    /\ ~overtook /\ fjob' # StopJob => Upto(pq, shown, 2 * fjob'.n - 2)
  OBVIOUS
<1>1. fgq \in Seq(Job) /\ fgq # <<>> /\ fgq' = <<>> /\ fjob' = Head(fgq)
  BY DEF IInv, UpscalerOK, Take
<1>2. 1 \in 1..Len(fgq) /\ fjob' = fgq[1] /\ fjob' \in Job /\ Len(fgq') = 0
  BY <1>1
<1>3. fjob'.n <= Handed /\ (fjob' # StopJob => fjob'.n > pend.n)
  BY <1>2 DEF IInv, ChainInv
<1>4. ~overtook /\ fjob' # StopJob => Upto(pq, shown, 2 * fjob'.n - 2)
  BY <1>2 DEF IInv, OrderInv
<1> QED
  BY <1>1, <1>2, <1>3, <1>4

\* A frame just begun: the previous one is collected now, or it is itself the next one
\* to be collected.
LEMMA BegunKeeps ==
  ASSUME IInv, NEW inst \in Nat, NEW m \in BOOLEAN, Begun(inst, m), fpc \in {"make", "begin"},
         UNCHANGED <<upc, job, fgq, pq, shown, overtook>>
  PROVE  /\ ChainInv' /\ OrderInv'
         /\ pend' \in Token /\ token' \in Token /\ fjob' \in Job
         /\ \/ /\ pend # NoToken /\ pend' = pend /\ token'.inst = inst
               /\ fpc' = "finish" /\ after' = "keep"
            \/ /\ pend = NoToken /\ pend' # NoToken /\ pend'.inst = inst /\ token' = NoToken
               /\ fpc' = "get" /\ after' = after
<1> DEFINE t == [n |-> fjob.n, inst |-> inst, made |-> m]
<1>1. Numbers /\ Handed \in Nat /\ Handed' = Handed
  BY NumbersAlways, HandedIsNumber DEF Handed
<1>2. Holding /\ token = NoToken /\ fjob.n > pend.n /\ fjob.n <= Handed
      /\ (pend # NoToken => pend.n > 0)
  BY DEF IInv, ChainInv, Holding, Collecting
<1>3. fjob.n > 0 /\ t.n = fjob.n /\ t.inst = inst
  BY <1>1, <1>2 DEF Numbers
<1>4. t \in Token
  <2>1. fjob.n \in Frames
    BY <1>3 DEF IInv, GeneratorOK, Job
  <2> QED
    BY <2>1 DEF Token
<1>5. t # NoToken
  BY <1>3, Nothings
<1>6. pend \in Token /\ token \in Token /\ fjob \in Job
  BY DEF IInv, GeneratorOK
<1>7. \A i \in 1..Len(fgq) : fgq[i].n <= Handed /\ (fgq[i] # StopJob =>
        fgq[i].n > pend.n /\ fgq[i].n > fjob.n /\ fgq[i].n > 0)
  BY <1>1, <1>3 DEF IInv, ChainInv, Numbers
<1>8. ~overtook => /\ Rising(pq, shown) /\ Upto(pq, shown, 2 * Handed)
                   /\ Upto(pq, shown, 2 * fjob.n - 2)
                   /\ pend # NoToken => Upto(pq, shown, 2 * pend.n - 2)
                   /\ \A i \in 1..Len(fgq) :
                        fgq[i] # StopJob => Upto(pq, shown, 2 * fgq[i].n - 2)
  BY <1>2 DEF IInv, OrderInv
<1>9. CASE pend # NoToken
  <2>1. /\ token' = t /\ pend' = pend /\ fjob' = fjob /\ fpc' = "finish" /\ after' = "keep"
    BY <1>9 DEF Begun, FinishThen
  <2> HIDE DEF t
  <2>2. ChainInv'
    BY <1>1, <1>2, <1>3, <1>7, <1>9, <2>1 DEF ChainInv, Holding, Collecting, Numbers
  <2>3. ~Holding'
    BY <2>1 DEF Holding, Collecting
  <2>4. OrderInv'
    BY <1>1, <1>8, <1>9, <2>1, <2>3 DEF OrderInv
  <2> QED
    BY <1>3, <1>4, <1>6, <1>9, <2>1, <2>2, <2>4
<1>10. CASE pend = NoToken
  <2>1. /\ pend' = t /\ fpc' = "get" /\ fjob' = NoJob /\ token' = NoToken /\ after' = after
    BY <1>2, <1>10 DEF Begun
  <2> HIDE DEF t
  <2>2. ChainInv'
    BY <1>1, <1>2, <1>3, <1>7, <2>1, Nothings DEF ChainInv, Holding, Collecting, Numbers
  <2>3. ~Holding'
    BY <2>1 DEF Holding, Collecting
  <2>4. OrderInv'
    BY <1>1, <1>3, <1>8, <2>1, <2>3 DEF OrderInv
  <2> QED
    BY <1>3, <1>4, <1>5, <1>6, <1>10, <2>1, <2>2, <2>4, Nothings
<1> QED
  BY <1>9, <1>10

\* A part of the invariant stays as long as what it speaks of does.
LEMMA Untouched ==
  /\ CallersOK /\ UNCHANGED <<framegen, ppc, cmd, geo, sent, slot, events, late>>
       => CallersOK'
  /\ UpscalerOK /\ UNCHANGED <<upc, job, up, upGeo, plan, ready, fgq>> => UpscalerOK'
  /\ GeneratorOK /\ UNCHANGED <<fpc, fjob, pend, token, after, seen, cfg, fg, fgKey, made, active>>
       => GeneratorOK'
  /\ PresenterOK /\ UNCHANGED <<pq, shown, overtook, astray>> => PresenterOK'
  /\ RoomInv /\ UNCHANGED <<fgq>> => RoomInv'
  /\ CallInv /\ UNCHANGED <<geo, events, cmd, ppc, upGeo, late, fpc, up, upc>> => CallInv'
  /\ SlotInv /\ UNCHANGED <<slot, upGeo, job, sent, upc, up>> => SlotInv'
  /\ ChainInv /\ UNCHANGED <<pend, token, fjob, fgq, fpc, after, upc, job>> => ChainInv'
  /\ BackendInv /\ UNCHANGED <<fg, fgKey, fpc, fjob, active, pend>> => BackendInv'
  /\ TokenInv /\ UNCHANGED <<astray, fpc, pend, fg, fgKey, seen, fjob, token>>
       => TokenInv'
  /\ OrderInv /\ UNCHANGED <<overtook, pq, shown, upc, job, pend, fpc, after, fjob, fgq>>
       => OrderInv'
<1>1. CallersOK /\ UNCHANGED <<framegen, ppc, cmd, geo, sent, slot, events, late>>
        => CallersOK'
  BY DEF CallersOK
<1>2. UpscalerOK /\ UNCHANGED <<upc, job, up, upGeo, plan, ready, fgq>> => UpscalerOK'
  BY DEF UpscalerOK
<1>3. GeneratorOK /\ UNCHANGED <<fpc, fjob, pend, token, after, seen, cfg, fg, fgKey, made, active>>
        => GeneratorOK'
  BY DEF GeneratorOK
<1>4. PresenterOK /\ UNCHANGED <<pq, shown, overtook, astray>> => PresenterOK'
  BY Zenon DEF PresenterOK
<1>5. RoomInv /\ UNCHANGED <<fgq>> => RoomInv'
  BY DEF RoomInv
<1>6. CallInv /\ UNCHANGED <<geo, events, cmd, ppc, upGeo, late, fpc, up, upc>>
        => CallInv'
  BY DEF CallInv
<1>7. SlotInv /\ UNCHANGED <<slot, upGeo, job, sent, upc, up>> => SlotInv'
  BY DEF SlotInv
<1>8. ChainInv /\ UNCHANGED <<pend, token, fjob, fgq, fpc, after, upc, job>> => ChainInv'
  BY DEF ChainInv, Handed, Holding, Collecting
<1>9. BackendInv /\ UNCHANGED <<fg, fgKey, fpc, fjob, active, pend>> => BackendInv'
  BY DEF BackendInv
<1>10. TokenInv /\ UNCHANGED <<astray, fpc, pend, fg, fgKey, seen, fjob, token>>
        => TokenInv'
  BY DEF TokenInv, Collecting, Key
<1>11. OrderInv /\ UNCHANGED <<overtook, pq, shown, upc, job, pend, fpc, after, fjob, fgq>>
        => OrderInv'
  BY DEF OrderInv, Handed, Holding, Collecting
<1> QED
  BY <1>1, <1>2, <1>3, <1>4, <1>5, <1>6, <1>7, <1>8, <1>9, <1>10, <1>11

LEMMA InitInvariant == Init => IInv
<1> SUFFICES ASSUME Init PROVE IInv
  OBVIOUS
<1> USE DEF Init
<1>b. late = FALSE /\ plan = FALSE /\ active = FALSE /\ overtook = FALSE /\ astray = FALSE
  BY Zenon
<1>1. CallersOK
  <2>1. framegen \in Settings /\ 1 \in Geos /\ 0 \in Geos /\ 0 \in Frames /\ 0 \in 0..MaxEvents
    BY DEF Settings, Geos, Frames
  <2> QED
    BY <1>b, <2>1, Nothings DEF CallersOK, NoCmd
<1>2. UpscalerOK /\ RoomInv
  <2>1. 1 \in Geos
    BY DEF Geos
  <2>2. fgq \in Seq(Job) /\ Len(fgq) = 0
    OBVIOUS
  <2>3. upc = "wait" /\ job \in Frame /\ up = "chosen" /\ upGeo \in Geos
    BY <2>1, Nothings
  <2>4. plan \in BOOLEAN
    BY <1>b, Zenon
  <2>7. ready \in Frames
    BY DEF Frames
  <2>5. upc \in {"wait", "upscale", "handover", "put"} /\ up \in {"absent", "chosen", "plain"}
    BY <2>3
  <2>6. RoomInv
    BY <2>2 DEF RoomInv
  <2> QED
    BY <2>2, <2>3, <2>4, <2>5, <2>6, <2>7, Zenon DEF UpscalerOK
<1>3. GeneratorOK
  <2>1. "off" \in Settings
    BY DEF Settings
  <2> QED
    BY <1>b, <2>1, Nothings DEF GeneratorOK
<1>4. PresenterOK
  <2>1. pq \in Seq(Nat) /\ shown \in Nat
    OBVIOUS
  <2>2. overtook \in BOOLEAN /\ astray \in BOOLEAN
    BY <1>b, Zenon
  <2> QED
    BY <2>1, <2>2, Zenon DEF PresenterOK
<1>5. CallInv
  BY DEF CallInv, NoCmd
<1>6. SlotInv
  BY Nothings DEF SlotInv
<1>7. ChainInv
  BY Nothings DEF ChainInv, Handed, Holding, Collecting
<1>8. BackendInv /\ TokenInv
  BY <1>b, Nothings DEF BackendInv, TokenInv, Collecting
<1>9. OrderInv
  <2>1. Rising(pq, shown) /\ Upto(pq, shown, 0)
    BY DEF Rising, Upto
  <2>2. 2 * Handed = 0
    BY Nothings DEF Handed
  <2> QED
    BY <2>1, <2>2 DEF OrderInv, Holding, Collecting
<1> QED
  BY <1>1, <1>2, <1>3, <1>4, <1>5, <1>6, <1>7, <1>8, <1>9 DEF IInv


----------------------------------------------------------------------------
(* The panel, and the process thread                                        *)

LEMMA ProcessStep == IInv /\ (ChangeFramegen \/ Process) => IInv'
<1> SUFFICES ASSUME IInv, (ChangeFramegen \/ Process) PROVE IInv'
  OBVIOUS
<1>t. Numbers
  BY NumbersAlways DEF IInv
<1> USE DEF IInv, process, upscaler, flow, reads, backend, rest
<1>1. CASE ChangeFramegen
  <2>u. UNCHANGED <<ppc, cmd, geo, sent, slot, late, upc, job, up, upGeo, plan, ready, fgq, fpc,
                   fjob, pend, token, after, seen, cfg, fg, fgKey, made, active, pq, shown,
                   overtook, astray>>
    BY <1>1 DEF ChangeFramegen
  <2>a. framegen' \in Settings
    BY <1>1 DEF ChangeFramegen, Settings
  <2>b. events' \in 0..MaxEvents /\ events' = events + 1
    BY <1>1 DEF ChangeFramegen, Event, CallersOK
  <2>1. /\ UpscalerOK' /\ GeneratorOK' /\ PresenterOK' /\ RoomInv' /\ SlotInv' /\ ChainInv'
        /\ BackendInv' /\ TokenInv' /\ OrderInv'
    BY <2>u, Untouched
  <2>2. CallersOK'
    BY <2>u, <2>a, <2>b DEF CallersOK
  <2>3. CallInv'
    BY <1>t, <2>u, <2>a, <2>b DEF CallInv, Numbers
  <2> QED
    BY <2>1, <2>2, <2>3
<1>2. CASE Submit
  <2>u. UNCHANGED <<framegen, ppc, cmd, geo, events, late, upc, job, up, upGeo, plan, ready, fgq,
                   fpc, fjob, pend, token, after, seen, cfg, fg, fgKey, made, active, pq,
                   shown, overtook, astray>>
    BY <1>2 DEF Submit
  <2>a. ppc = "run" /\ sent < MaxFrames /\ sent' = sent + 1 /\ slot' = [n |-> sent + 1, geo |-> geo]
    BY <1>2 DEF Submit
  <2>1. /\ UpscalerOK' /\ GeneratorOK' /\ PresenterOK' /\ RoomInv' /\ CallInv' /\ ChainInv'
        /\ BackendInv' /\ TokenInv' /\ OrderInv'
    BY <2>u, Untouched
  <2>2. CallersOK'
    <3>1. sent' \in Frames /\ slot' \in Frame
      BY <1>t, <2>a DEF CallersOK, Frames, Frame, Numbers
    <3> QED
      BY <2>u, <3>1 DEF CallersOK
  <2>3. SlotInv'
    BY <1>t, <2>u, <2>a, Nothings DEF SlotInv, CallInv, Numbers
  <2> QED
    BY <2>1, <2>2, <2>3
<1>3. CASE Configure
  <2>u. UNCHANGED <<framegen, sent, slot, late, upc, job, up, upGeo, plan, ready, fgq, fpc, fjob,
                   pend, token, after, seen, cfg, fg, fgKey, made, active, pq, shown,
                   overtook, astray>>
    BY <1>3 DEF Configure
  <2>a. /\ ppc = "run" /\ ppc' = "calling" /\ cmd' = [op |-> "configure", geo |-> geo']
        /\ geo' \in {geo, geo + 1} /\ events' \in 0..MaxEvents /\ events' = events + 1
    BY <1>3 DEF Configure, Event, CallersOK
  <2>1. /\ UpscalerOK' /\ GeneratorOK' /\ PresenterOK' /\ RoomInv' /\ SlotInv' /\ ChainInv'
        /\ BackendInv' /\ TokenInv' /\ OrderInv'
    BY <2>u, Untouched
  <2>2. CallersOK'
    <3>1. geo' \in Geos
      BY <1>t, <2>a DEF CallersOK, CallInv, Geos, Numbers
    <3>2. cmd' \in [op : {"none", "configure", "close"}, geo : Geos]
      BY <2>a, <3>1
    <3> QED
      BY <2>u, <2>a, <3>1, <3>2 DEF CallersOK
  <2>3. CallInv'
    BY <1>t, <2>u, <2>a DEF CallInv, Numbers
  <2> QED
    BY <2>1, <2>2, <2>3
<1>4. CASE Close
  <2>u. UNCHANGED <<framegen, cmd, geo, sent, slot, events, late, upc, job, up, upGeo, plan, ready,
                   fgq, fpc, fjob, pend, token, after, seen, cfg, fg, fgKey, made, active,
                   pq, shown, overtook, astray>>
    BY <1>4 DEF Close
  <2>a. ppc = "run" /\ ppc' = "putting"
    BY <1>4 DEF Close
  <2>1. /\ UpscalerOK' /\ GeneratorOK' /\ PresenterOK' /\ RoomInv' /\ SlotInv' /\ ChainInv'
        /\ BackendInv' /\ TokenInv' /\ OrderInv'
    BY <2>u, Untouched
  <2>2. CallersOK'
    BY <2>u, <2>a DEF CallersOK
  <2>3. CallInv'
    BY <1>t, <2>u, <2>a DEF CallInv, Numbers
  <2> QED
    BY <2>1, <2>2, <2>3
<1>5. CASE PutStop
  <2>u. UNCHANGED <<framegen, cmd, geo, sent, slot, events, late, upc, job, up, upGeo, plan, ready,
                   fpc, fjob, pend, token, after, seen, cfg, fg, fgKey, made, active, pq,
                   shown, overtook, astray>>
    BY <1>5 DEF PutStop
  <2>a. ppc = "putting" /\ ppc' = "joining" /\ fgq = <<>> /\ fgq' = <<StopJob>>
    BY <1>5 DEF PutStop
  <2>b. Len(fgq') = 1 /\ fgq'[1] = StopJob /\ fgq' \in Seq(Job)
    BY <2>a, Nothings
  <2>1. GeneratorOK' /\ PresenterOK' /\ SlotInv' /\ BackendInv' /\ TokenInv'
    BY <2>u, Untouched
  <2>2. CallersOK'
    BY <2>u, <2>a, <2>b DEF CallersOK
  <2>3. UpscalerOK'
    BY <2>u, <2>b DEF UpscalerOK
  <2>4. RoomInv'
    BY <2>b DEF RoomInv
  <2>5. CallInv'
    BY <1>t, <2>u, <2>a, <2>b DEF CallInv, Numbers
  <2>6. ChainInv'
    <3>1. StopJob.n <= Handed
      BY <1>t, Nothings DEF Handed, SlotInv, Numbers
    <3> QED
      BY <2>u, <2>b, <3>1 DEF ChainInv, Handed, Holding, Collecting
  <2>7. OrderInv'
    BY <2>u, <2>b DEF OrderInv, Handed, Holding, Collecting
  <2> QED
    BY <2>1, <2>2, <2>3, <2>4, <2>5, <2>6, <2>7
<1>6. CASE JoinGenerator
  <2>u. UNCHANGED <<framegen, geo, sent, slot, upc, job, up, upGeo, plan, ready, fgq, fpc, fjob,
                   pend, token, after, seen, cfg, fg, fgKey, made, active, pq, shown,
                   overtook, astray>>
    BY <1>6 DEF JoinGenerator
  <2>a. ppc = "joining" /\ ppc' = "closing" /\ cmd' = [op |-> "close", geo |-> 0]
    BY <1>6 DEF JoinGenerator
  <2>b. late' \in BOOLEAN /\ (late' \/ fpc = "ended")
    BY <1>6, Zenon DEF JoinGenerator
  <2>c. events' \in 0..MaxEvents /\ events' >= events
    BY <1>6 DEF JoinGenerator, Event, CallersOK
  <2>1. /\ UpscalerOK' /\ GeneratorOK' /\ PresenterOK' /\ RoomInv' /\ SlotInv' /\ ChainInv'
        /\ BackendInv' /\ TokenInv' /\ OrderInv'
    BY <2>u, Untouched
  <2>2. CallersOK'
    <3>1. cmd' \in [op : {"none", "configure", "close"}, geo : Geos]
      BY <2>a DEF Geos
    <3> QED
      BY <2>u, <2>a, <2>b, <2>c, <3>1 DEF CallersOK
  <2>3. CallInv'
    <3>0. geo' = geo /\ geo <= events + 1
      BY <2>u DEF CallInv
    <3>n. geo' \in Nat /\ geo \in Nat /\ events \in Nat /\ events' \in Nat
      BY <1>t, <2>c, <3>0 DEF Numbers
    <3>p. geo <= events' + 1
      BY <2>c, <3>0, <3>n, Later
    <3>1. geo' <= events' + 1
      BY <3>0, <3>p
    <3>2. fpc' = fpc
      BY <2>u
    <3>3. late' \/ fpc' = "ended"
      BY <2>b, <3>2, Zenon
    <3>4. cmd'.op = "close"
      BY <2>a
    <3> QED
      BY <2>u, <2>a, <3>1, <3>3, <3>4 DEF CallInv
  <2> QED
    BY <2>1, <2>2, <2>3
<1>7. CASE EndThreads
  <2>u. UNCHANGED <<framegen, cmd, geo, sent, slot, events, late, upc, job, up, upGeo, plan, ready,
                   fgq, fpc, fjob, pend, token, after, seen, cfg, fg, fgKey, made, active,
                   pq, shown, overtook, astray>>
    BY <1>7 DEF EndThreads
  <2>a. ppc = "ending" /\ upc = "wait" /\ ppc' = "closed"
    BY <1>7 DEF EndThreads
  <2>1. /\ UpscalerOK' /\ GeneratorOK' /\ PresenterOK' /\ RoomInv' /\ SlotInv' /\ ChainInv'
        /\ BackendInv' /\ TokenInv' /\ OrderInv'
    BY <2>u, Untouched
  <2>2. CallersOK'
    BY <2>u, <2>a DEF CallersOK
  <2>3. CallInv'
    BY <1>t, <2>u, <2>a DEF CallInv, Numbers
  <2> QED
    BY <2>1, <2>2, <2>3
<1> QED
  BY <1>1, <1>2, <1>3, <1>4, <1>5, <1>6, <1>7 DEF Process

----------------------------------------------------------------------------
(* The upscaler thread                                                      *)

LEMMA UpscalerStep == IInv /\ Upscaler => IInv'
<1> SUFFICES ASSUME IInv, Upscaler PROVE IInv'
  OBVIOUS
<1>t. Numbers
  BY NumbersAlways DEF IInv
<1> USE DEF IInv, process, upscaler, flow, reads, backend, rest
<1>1. CASE RunConfigure
  <2>u. UNCHANGED <<framegen, geo, sent, late, upc, job, plan, ready, fgq, fpc, fjob, pend, token,
                   after, seen, cfg, fg, fgKey, made, active, pq, shown, overtook, astray>>
    BY <1>1 DEF RunConfigure
  <2>a. upc = "wait" /\ cmd.op = "configure" /\ slot' = NoFrame /\ upGeo' = cmd.geo
        /\ cmd' = NoCmd /\ ppc' = "run" /\ up' \in {"chosen", "plain"}
    BY <1>1 DEF RunConfigure
  <2>b. events' \in 0..MaxEvents /\ events' >= events
    BY <1>1 DEF RunConfigure, Event, CallersOK
  <2>c. cmd.geo = geo /\ geo \in Geos /\ NoCmd.op = "none" /\ NoCmd.geo = 0 /\ 0 \in Geos
    BY <2>a DEF CallInv, CallersOK, NoCmd, Geos
  <2>g. geo \in Nat /\ events \in Nat /\ events' \in Nat /\ geo <= events + 1
    BY <1>t, <2>b DEF Numbers, CallInv
  <2>h. geo <= events' + 1
    BY <2>b, <2>g, Later
  <2>1. /\ GeneratorOK' /\ PresenterOK' /\ RoomInv' /\ ChainInv' /\ BackendInv' /\ TokenInv'
        /\ OrderInv'
    BY <2>u, Untouched
  <2>2. CallersOK'
    <3>1. NoCmd \in [op : {"none", "configure", "close"}, geo : Geos]
      BY <2>c DEF NoCmd
    <3> QED
      BY <2>u, <2>a, <2>b, <3>1, Nothings DEF CallersOK
  <2>3. UpscalerOK'
    BY <2>u, <2>a, <2>b, <2>c DEF UpscalerOK
  <2>4. CallInv'
    BY <2>u, <2>a, <2>c, <2>h DEF CallInv
  <2>5. SlotInv'
    BY <2>u, <2>a, <2>c, Nothings DEF SlotInv
  <2> QED
    BY <2>1, <2>2, <2>3, <2>4, <2>5
<1>2. CASE RunClose
  <2>u. UNCHANGED <<framegen, geo, sent, slot, events, late, upc, job, upGeo, plan, ready, fgq, fpc,
                   fjob, pend, token, after, seen, cfg, fg, fgKey, made, active, pq, shown,
                   overtook, astray>>
    BY <1>2 DEF RunClose
  <2>a. upc = "wait" /\ cmd.op = "close" /\ up' = "absent" /\ cmd' = NoCmd /\ ppc' = "ending"
    BY <1>2 DEF RunClose
  <2>b. ppc = "closing" /\ NoCmd.op = "none"
    BY <2>a DEF CallInv, NoCmd
  <2>1. /\ GeneratorOK' /\ PresenterOK' /\ RoomInv' /\ ChainInv' /\ BackendInv' /\ TokenInv'
        /\ OrderInv'
    BY <2>u, Untouched
  <2>2. CallersOK'
    <3>1. NoCmd \in [op : {"none", "configure", "close"}, geo : Geos]
      BY DEF NoCmd, Geos
    <3> QED
      BY <2>u, <2>a, <3>1 DEF CallersOK
  <2>3. UpscalerOK'
    BY <2>u, <2>a, <2>b DEF UpscalerOK
  <2>4. CallInv'
    <3>1. late' \/ fpc' = "ended"
      <4>1. late \/ fpc = "ended"
        BY <2>b DEF CallInv
      <4> QED
        BY <2>u, <4>1
    <3> QED
      BY <2>u, <2>a, <2>b, <3>1 DEF CallInv
  <2>5. SlotInv'
    BY <2>u, <2>a DEF SlotInv
  <2> QED
    BY <2>1, <2>2, <2>3, <2>4, <2>5
<1>3. CASE TakeSlot
  <2>u. UNCHANGED <<framegen, ppc, cmd, geo, sent, events, late, up, upGeo, plan, ready, fgq, fpc,
                   fjob, pend, token, after, seen, cfg, fg, fgKey, made, active, pq, shown,
                   overtook, astray>>
    BY <1>3 DEF TakeSlot
  <2>a. upc = "wait" /\ slot # NoFrame /\ slot' = NoFrame
    BY <1>3 DEF TakeSlot
  <2>b. \/ up = "absent" /\ upc' = upc /\ job' = job
        \/ up # "absent" /\ upc' = "upscale" /\ job' = slot
    BY <1>3 DEF TakeSlot
  <2>c. slot.geo = upGeo /\ job.n < slot.n /\ slot.n <= sent /\ job.n <= sent
    BY <2>a DEF SlotInv
  <2>d. Handed \in Int /\ Handed' \in Int /\ Handed <= Handed'
    BY <1>t, <2>a, <2>b, <2>c DEF Handed, Numbers
  <2>1. GeneratorOK' /\ PresenterOK' /\ RoomInv' /\ BackendInv' /\ TokenInv'
    BY <2>u, Untouched
  <2>2. CallersOK'
    BY <2>u, <2>a, Nothings DEF CallersOK
  <2>3. UpscalerOK'
    BY <2>u, <2>a, <2>b DEF UpscalerOK, CallersOK
  <2>4. CallInv'
    BY <2>u, <2>a, <2>b DEF CallInv
  <2>5. SlotInv'
    BY <1>t, <2>u, <2>a, <2>b, <2>c, Nothings DEF SlotInv, Numbers
  <2>6. ChainInv'
    <3>1. pend.n <= Handed' /\ token.n <= Handed' /\ fjob.n <= Handed'
          /\ \A i \in 1..Len(fgq) : fgq[i].n <= Handed'
      BY <1>t, <2>d, SMTT(30) DEF ChainInv, Numbers
    <3> QED
      BY <2>u, <3>1 DEF ChainInv, Holding, Collecting
  <2>7. OrderInv'
    <3> SUFFICES ASSUME ~overtook PROVE OrderInv'
      BY <2>u DEF OrderInv
    <3>1. pq \in Seq(Nat) /\ shown \in Nat
      BY DEF PresenterOK
    <3>2. 2 * Handed \in Int /\ 2 * Handed' \in Int /\ 2 * Handed <= 2 * Handed'
      <4>1. \A x, y \in Int : x <= y => 2 * x \in Int /\ 2 * y \in Int /\ 2 * x <= 2 * y
        OBVIOUS
      <4> QED
        BY <2>d, <4>1
    <3>3. Upto(pq, shown, 2 * Handed')
      <4>1. Upto(pq, shown, 2 * Handed)
        BY DEF OrderInv
      <4> QED
        BY <3>1, <3>2, <4>1, Higher
    <3> QED
      BY <2>u, <3>3 DEF OrderInv, Holding, Collecting
  <2> QED
    BY <2>1, <2>2, <2>3, <2>4, <2>5, <2>6, <2>7
<1>4. CASE Upscale
  <2>u. UNCHANGED <<framegen, ppc, cmd, geo, sent, slot, late, job, upGeo, fgq, fpc, fjob,
                   pend, token, after, seen, cfg, fg, fgKey, made, active, pq, shown,
                   overtook, astray>>
    BY <1>4 DEF Upscale
  <2>a. upc = "upscale" /\ upc' = "handover" /\ (up' = up \/ up' = "plain")
    BY <1>4 DEF Upscale
  <2>b. events' \in 0..MaxEvents /\ events' >= events
    BY <1>4 DEF Upscale, Event, CallersOK
  <2>c. plan' \in BOOLEAN
    BY <1>4, Zenon DEF Upscale
  <2>d. Handed' = Handed
    BY <2>u, <2>a DEF Handed
  <2>g. geo \in Nat /\ events \in Nat /\ events' \in Nat /\ geo <= events + 1
    BY <1>t, <2>b DEF Numbers, CallInv
  <2>h. geo <= events' + 1
    BY <2>b, <2>g, Later
  <2>1. GeneratorOK' /\ PresenterOK' /\ RoomInv' /\ BackendInv' /\ TokenInv'
    BY <2>u, Untouched
  <2>2. CallersOK'
    BY <2>u, <2>a, <2>b, <2>c, <2>d DEF CallersOK
  <2>3. UpscalerOK'
    <3>1. up' \in {"absent", "chosen", "plain"} /\ upc' \in {"wait", "upscale", "handover", "put"}
      BY <2>a DEF UpscalerOK
    <3>2. job' \in Frame /\ upGeo' \in Geos /\ fgq' \in Seq(Job)
      BY <2>u DEF UpscalerOK
    <3>3. ready' \in Frames
      BY <1>4, SMT DEF Upscale, UpscalerOK, Frame
    <3> QED
      BY <2>c, <3>1, <3>2, <3>3, Zenon DEF UpscalerOK
  <2>4. CallInv'
    BY <2>u, <2>a, <2>h DEF CallInv
  <2>5. SlotInv'
    BY <2>u, <2>a DEF SlotInv
  <2>6. ChainInv'
    BY <2>u, <2>d DEF ChainInv, Holding, Collecting
  <2>7. OrderInv'
    BY <2>u, <2>d DEF OrderInv, Holding, Collecting
  <2> QED
    BY <2>1, <2>2, <2>3, <2>4, <2>5, <2>6, <2>7
<1>5. ASSUME HandOver \/ HandOverTimesOut \/ (Decide /\ ShowDirectly) PROVE IInv'
  <2>u. UNCHANGED <<framegen, ppc, cmd, geo, sent, slot, late, job, up, upGeo, ready, fpc,
                   fjob, pend, token, after, seen, cfg, fg, fgKey, made, active, shown,
                   astray>>
    BY <1>5 DEF HandOver, HandOverTimesOut, Decide
  <2>a. upc \in {"handover", "put"} /\ upc' = "wait"
    BY <1>5 DEF HandOver, HandOverTimesOut, Decide, ShowDirectly
  <2>b. plan' = FALSE
    BY <1>5, Zenon DEF HandOver, HandOverTimesOut, ShowDirectly
  <2>c. events' \in 0..MaxEvents /\ events' >= events
    BY <1>5 DEF HandOver, HandOverTimesOut, Decide, Event, CallersOK
  <2>d. job.n > 0 /\ job.n <= sent /\ job \in Frame
    BY <2>a DEF SlotInv, UpscalerOK
  <2>e. Handed = job.n - 1 /\ Handed' = job.n
    BY <2>u, <2>a DEF Handed
  <2>g. geo \in Nat /\ events \in Nat /\ events' \in Nat /\ geo <= events + 1
    BY <1>t, <2>c DEF Numbers, CallInv
  <2>h. geo <= events' + 1
    BY <2>c, <2>g, Later
  <2>f. ASSUME ShowDirectly, UNCHANGED fgq
        PROVE  UpscalerOK' /\ RoomInv' /\ PresenterOK' /\ ChainInv' /\ OrderInv'
    <3>u. UNCHANGED fgq /\ pq' = Append(pq, 2 * job.n)
      BY <2>f DEF ShowDirectly
    <3>v. overtook' = (overtook \/ Generating)
      BY <2>f DEF ShowDirectly
    <3>1. UpscalerOK'
      <4>1. plan' \in BOOLEAN
        BY <2>b, Zenon
      <4>2. job' \in Frame /\ up' \in {"absent", "chosen", "plain"} /\ upGeo' \in Geos
            /\ ready' \in Frames /\ fgq' \in Seq(Job) /\ upc' \in {"wait", "upscale", "handover", "put"}
        BY <2>u, <2>a, <3>u DEF UpscalerOK
      <4> QED
        BY <4>1, <4>2, Zenon DEF UpscalerOK
    <3>2. RoomInv'
      BY <3>u DEF RoomInv
    <3>3. pq \in Seq(Nat) /\ shown \in Nat /\ 2 * job.n \in Nat
      BY <1>t DEF PresenterOK, Numbers
    <3>4. PresenterOK'
      <4>1. pq' \in Seq(Nat) /\ shown' \in Nat
        BY <2>u, <3>u, <3>3
      <4>2. overtook' \in BOOLEAN
        BY <3>v, Zenon
      <4>3. astray' \in BOOLEAN
        BY <2>u DEF PresenterOK
      <4> QED
        BY <4>1, <4>2, <4>3, Zenon DEF PresenterOK
    <3>5. ChainInv'
      <4>1. pend.n <= job.n /\ token.n <= job.n /\ fjob.n <= job.n
            /\ \A i \in 1..Len(fgq) : fgq[i].n <= job.n
        BY <1>t, <2>e DEF ChainInv, Numbers
      <4> QED
        BY <2>u, <2>e, <3>u, <4>1 DEF ChainInv, Holding, Collecting
    <3>6. OrderInv'
      <4> SUFFICES ASSUME ~overtook' PROVE OrderInv'
        BY DEF OrderInv
      <4>1. ~overtook /\ ~Generating
        BY <3>v, Zenon
      <4>2. fgq = <<>> /\ fpc \in {"get", "ended"} /\ pend = NoToken
        BY <1>t, <4>1 DEF Generating, ChainInv, Numbers
      <4>3. Rising(pq, shown) /\ Upto(pq, shown, 2 * Handed)
        BY <4>1 DEF OrderInv
      <4>4. 2 * Handed \in Int /\ 2 * Handed < 2 * job.n
        BY <1>t, <2>e DEF Numbers
      <4>5. Rising(Append(pq, 2 * job.n), shown) /\ Upto(Append(pq, 2 * job.n), shown, 2 * job.n)
        BY <3>3, <4>3, <4>4, PutHigher
      <4>6. Rising(pq', shown') /\ Upto(pq', shown', 2 * Handed')
        BY <2>u, <2>e, <3>u, <4>5
      <4>7. Len(fgq') = 0 /\ pend' = NoToken /\ ~Holding'
        BY <2>u, <3>u, <4>2 DEF Holding, Collecting
      <4> QED
        BY <4>6, <4>7 DEF OrderInv
    <3> QED
      BY <3>1, <3>2, <3>4, <3>5, <3>6, Zenon
  <2>i. ASSUME fgq = <<>>, fgq' = <<[n |-> job.n, geo |-> job.geo, plan |-> plan]>>,
               pq' = pq, overtook' = overtook
        PROVE  UpscalerOK' /\ RoomInv' /\ PresenterOK' /\ ChainInv' /\ OrderInv'
    <3> DEFINE j == [n |-> job.n, geo |-> job.geo, plan |-> plan]
    <3>1. j \in Job /\ j.n = job.n
      <4>1. job.n \in Frames \cup {-1} /\ job.geo \in Geos
        BY <2>d DEF Frame
      <4>2. plan \in BOOLEAN
        BY DEF UpscalerOK
      <4> QED
        BY <4>1, <4>2, Zenon DEF Job
    <3> HIDE DEF j
    <3>2. fgq' = <<j>>
      BY <2>i DEF j
    <3>3. fgq' \in Seq(Job) /\ Len(fgq') = 1 /\ fgq'[1] = j
      BY <3>1, <3>2
    <3>4. UpscalerOK'
      <4>1. plan' \in BOOLEAN
        BY <2>b, Zenon
      <4>2. job' \in Frame /\ up' \in {"absent", "chosen", "plain"} /\ upGeo' \in Geos
            /\ ready' \in Frames /\ upc' \in {"wait", "upscale", "handover", "put"}
        BY <2>u, <2>a DEF UpscalerOK
      <4> QED
        BY <3>3, <4>1, <4>2, Zenon DEF UpscalerOK
    <3>5. RoomInv'
      BY <3>3 DEF RoomInv
    <3>6. PresenterOK'
      BY <2>u, <2>i DEF PresenterOK
    <3>7. pend.n < job.n /\ token.n < job.n /\ fjob.n < job.n
      BY <1>t, <2>e DEF ChainInv, Numbers
    <3>8. ChainInv'
      <4>1. pend.n <= job.n /\ token.n <= job.n /\ fjob.n <= job.n
        BY <1>t, <3>7 DEF Numbers
      <4>2. \A i \in 1..Len(fgq') : fgq'[i].n = job.n
        BY <3>1, <3>3
      <4>3. job.n \in Int
        BY <1>t DEF Numbers
      <4>4. \A i \in 1..Len(fgq') : fgq'[i].n <= Handed' /\ fgq'[i].n > pend'.n
              /\ fgq'[i].n > token'.n /\ fgq'[i].n > fjob'.n
        BY <2>u, <2>e, <3>7, <4>2, <4>3
      <4> QED
        BY <2>u, <2>e, <4>1, <4>4 DEF ChainInv, Holding, Collecting
    <3>9. OrderInv'
      <4> SUFFICES ASSUME ~overtook PROVE OrderInv'
        BY <2>i DEF OrderInv
      <4>1. pq \in Seq(Nat) /\ shown \in Nat
        BY DEF PresenterOK
      <4>2. 2 * Handed \in Int /\ 2 * job.n \in Int /\ 2 * Handed <= 2 * job.n
            /\ 2 * Handed = 2 * job.n - 2
        <5>1. \A n \in Nat : 2 * (n - 1) \in Int /\ 2 * n \in Int /\ 2 * (n - 1) <= 2 * n
                             /\ 2 * (n - 1) = 2 * n - 2
          OBVIOUS
        <5>2. job.n \in Nat
          BY <1>t DEF Numbers
        <5> QED
          BY <2>e, <5>1, <5>2
      <4>3. Upto(pq, shown, 2 * Handed)
        BY DEF OrderInv
      <4>4. Upto(pq, shown, 2 * job.n)
        BY <4>1, <4>2, <4>3, Higher
      <4>5. Upto(pq', shown', 2 * Handed')
        BY <2>u, <2>i, <2>e, <4>4
      <4>6. \A i \in 1..Len(fgq') : Upto(pq', shown', 2 * fgq'[i].n - 2)
        BY <2>u, <2>i, <3>1, <3>3, <4>2, <4>3
      <4> QED
        BY <2>u, <2>i, <4>5, <4>6 DEF OrderInv, Holding, Collecting
    <3> QED
      BY <3>4, <3>5, <3>6, <3>8, <3>9
  <2>j. UpscalerOK' /\ RoomInv' /\ PresenterOK' /\ ChainInv' /\ OrderInv'
    BY <1>5, <2>f, <2>i DEF HandOver, HandOverTimesOut, Decide
  <2>1. GeneratorOK' /\ BackendInv' /\ TokenInv'
    BY <2>u, Untouched
  <2>2. CallersOK'
    BY <2>u, <2>c DEF CallersOK
  <2>3. UpscalerOK'
    BY <2>j
  <2>4. PresenterOK'
    BY <2>j
  <2>5. RoomInv'
    BY <2>j
  <2>6. CallInv'
    BY <2>u, <2>a, <2>h DEF CallInv
  <2>7. SlotInv'
    BY <2>u, <2>a DEF SlotInv
  <2>8. ChainInv'
    BY <2>j
  <2>9. OrderInv'
    BY <2>j
  <2> QED
    BY <2>1, <2>2, <2>3, <2>4, <2>5, <2>6, <2>7, <2>8, <2>9
<1>6. ASSUME Decide, ~ShowDirectly PROVE IInv'
  <2>u. UNCHANGED <<framegen, ppc, cmd, geo, sent, slot, events, late, job, up, upGeo, plan,
                   ready, fgq, fpc, fjob, pend, token, after, seen, cfg, fg, fgKey, made,
                   active, pq, shown, overtook, astray>>
    BY <1>6 DEF Decide
  <2>a. upc = "handover" /\ upc' = "put"
    BY <1>6 DEF Decide
  <2>b. Handed' = Handed
    BY <2>u, <2>a DEF Handed
  <2>1. CallersOK' /\ GeneratorOK' /\ PresenterOK' /\ RoomInv' /\ BackendInv' /\ TokenInv'
    BY <2>u, Untouched
  <2>2. UpscalerOK'
    <3>1. plan' \in BOOLEAN
      BY <2>u, Zenon DEF UpscalerOK
    <3>2. /\ job' \in Frame /\ up' \in {"absent", "chosen", "plain"} /\ upGeo' \in Geos
          /\ ready' \in Frames /\ fgq' \in Seq(Job) /\ upc' \in {"wait", "upscale", "handover", "put"}
      BY <2>u, <2>a DEF UpscalerOK
    <3> QED
      BY <3>1, <3>2, Zenon DEF UpscalerOK
  <2>3. CallInv'
    BY <2>u, <2>a DEF CallInv
  <2>4. SlotInv'
    BY <2>u, <2>a DEF SlotInv
  <2>5. ChainInv'
    BY <2>u, <2>b DEF ChainInv, Holding, Collecting
  <2>6. OrderInv'
    BY <2>u, <2>b DEF OrderInv, Holding, Collecting
  <2> QED
    BY <2>1, <2>2, <2>3, <2>4, <2>5, <2>6
<1>7. CASE UpscaleFails
  <2>u. UNCHANGED <<framegen, ppc, cmd, geo, sent, slot, late, job, upGeo, plan, ready, fgq,
                   fpc, fjob, pend, token, after, seen, cfg, fg, fgKey, made, active, pq,
                   shown, overtook, astray>>
    BY <1>7 DEF UpscaleFails
  <2>a. upc = "upscale" /\ upc' = "wait" /\ (up' = up \/ up' = "plain")
    BY <1>7 DEF UpscaleFails
  <2>b. events' \in 0..MaxEvents /\ events' >= events
    BY <1>7 DEF UpscaleFails, Event, CallersOK
  <2>c. job.n > 0 /\ job.n <= sent /\ job.n \in Nat
    BY <1>t, <2>a DEF SlotInv, Numbers
  <2>d. Handed = job.n - 1 /\ Handed' = job.n
    BY <2>u, <2>a DEF Handed
  <2>g. geo \in Nat /\ events \in Nat /\ events' \in Nat /\ geo <= events + 1
    BY <1>t, <2>b DEF Numbers, CallInv
  <2>h. geo <= events' + 1
    BY <2>b, <2>g, Later
  <2>1. GeneratorOK' /\ PresenterOK' /\ RoomInv' /\ BackendInv' /\ TokenInv'
    BY <2>u, Untouched
  <2>2. CallersOK'
    BY <2>u, <2>b DEF CallersOK
  <2>3. UpscalerOK'
    <3>1. plan' \in BOOLEAN
      BY <2>u, Zenon DEF UpscalerOK
    <3>2. /\ job' \in Frame /\ up' \in {"absent", "chosen", "plain"} /\ upGeo' \in Geos
          /\ ready' \in Frames /\ fgq' \in Seq(Job) /\ upc' \in {"wait", "upscale", "handover", "put"}
      BY <2>u, <2>a DEF UpscalerOK
    <3> QED
      BY <3>1, <3>2, Zenon DEF UpscalerOK
  <2>4. CallInv'
    BY <2>u, <2>a, <2>h DEF CallInv
  <2>5. SlotInv'
    BY <2>u, <2>a DEF SlotInv
  <2>6. ChainInv'
    <3>1. pend.n <= Handed' /\ token.n <= Handed' /\ fjob.n <= Handed'
          /\ \A i \in 1..Len(fgq) : fgq[i].n <= Handed'
      BY <1>t, <2>c, <2>d DEF ChainInv, Numbers
    <3> QED
      BY <2>u, <3>1 DEF ChainInv, Holding, Collecting
  <2>7. OrderInv'
    <3> SUFFICES ASSUME ~overtook PROVE OrderInv'
      BY <2>u DEF OrderInv
    <3>1. pq \in Seq(Nat) /\ shown \in Nat
      BY DEF PresenterOK
    <3>2. 2 * Handed \in Int /\ 2 * Handed' \in Int /\ 2 * Handed <= 2 * Handed'
      <4>1. \A n \in Nat : 2 * (n - 1) \in Int /\ 2 * n \in Int /\ 2 * (n - 1) <= 2 * n
        OBVIOUS
      <4> QED
        BY <2>c, <2>d, <4>1
    <3>3. Upto(pq, shown, 2 * Handed')
      <4>1. Upto(pq, shown, 2 * Handed)
        BY DEF OrderInv
      <4> QED
        BY <3>1, <3>2, <4>1, Higher
    <3> QED
      BY <2>u, <3>3 DEF OrderInv, Holding, Collecting
  <2> QED
    BY <2>1, <2>2, <2>3, <2>4, <2>5, <2>6, <2>7
<1> QED
  BY <1>1, <1>2, <1>3, <1>4, <1>5, <1>6, <1>7, Zenon DEF Upscaler

----------------------------------------------------------------------------
(* The frame-generation thread: a job taken, and jobs without a plan        *)

LEMMA GeneratorTakes == IInv /\ (GetNothing \/ GetStop \/ Stop \/ GetSwitchedOff \/ Release \/ Show) => IInv'
<1> SUFFICES ASSUME IInv, (GetNothing \/ GetStop \/ Stop \/ GetSwitchedOff \/ Release \/ Show) PROVE IInv'
  OBVIOUS
<1>t. Numbers
  BY NumbersAlways DEF IInv
<1> USE DEF IInv, process, upscaler, flow, reads, backend, rest
<1>1. CASE GetNothing
  <2>u. UNCHANGED <<framegen, ppc, cmd, geo, sent, slot, events, late, upc, job, up, upGeo,
                   plan, ready, fgq, fjob, pend, token, seen, cfg, fg, fgKey, made, active, pq,
                   shown, overtook, astray>>
    BY <1>1 DEF GetNothing, FinishThen
  <2>a. fpc = "get" /\ fgq = <<>> /\ pend # NoToken /\ fpc' = "finish" /\ after' = "get"
    BY <1>1 DEF GetNothing, FinishThen
  <2>b. token = NoToken
    BY <2>a DEF ChainInv, Collecting
  <2>1. CallersOK' /\ UpscalerOK' /\ PresenterOK' /\ RoomInv' /\ SlotInv'
    BY <2>u, Untouched
  <2>2. GeneratorOK'
    BY <2>u, <2>a, <2>b DEF GeneratorOK
  <2>3. CallInv'
    <3>1. geo' <= events' + 1
      BY <2>u DEF CallInv
    <3>2. ppc \in {"closing", "ending", "closed"} => late'
      BY <2>u, <2>a DEF CallInv
    <3> QED
      BY <2>u, <2>a, <3>1, <3>2 DEF CallInv
  <2>4. ChainInv'
    BY <1>t, <2>u, <2>a, <2>b DEF ChainInv, Handed, Holding, Collecting, Numbers
  <2>5. BackendInv'
    BY <2>u, <2>a, <2>b DEF BackendInv
  <2>6. TokenInv'
    BY <2>u, <2>a, <2>b, Nothings DEF TokenInv, Collecting
  <2>7. OrderInv'
    BY <1>t, <2>u, <2>a, <2>b DEF OrderInv, Handed, Holding, Collecting, Numbers
  <2> QED
    BY <2>1, <2>2, <2>3, <2>4, <2>5, <2>6, <2>7
<1>2. CASE GetStop
  <2>u. UNCHANGED <<framegen, ppc, cmd, geo, sent, slot, events, late, upc, job, up, upGeo,
                   plan, ready, pend, token, seen, cfg, fg, fgKey, made, active, pq, shown,
                   overtook, astray>>
    BY <1>2 DEF GetStop, FinishThen, Take
  <2>a. fpc = "get" /\ fjob' = StopJob
    BY <1>2, Nothings DEF GetStop, Take
  <2>b. token = NoToken
    BY <2>a DEF ChainInv, Collecting
  <2>c. /\ fgq' = <<>> /\ Len(fgq') = 0 /\ fjob' \in Job /\ fjob'.n <= Handed
        /\ fjob' # StopJob => fjob'.n > pend.n
        /\ ~overtook /\ fjob' # StopJob => Upto(pq, shown, 2 * fjob'.n - 2)
    BY <1>2, Taken DEF GetStop
  <2>d. /\ pend # NoToken => fpc' = "finish" /\ after' = "stop"
        /\ pend = NoToken => fpc' = "stop" /\ after' = after
    BY <1>2 DEF GetStop, FinishThen
  <2>1. CallersOK' /\ PresenterOK' /\ SlotInv'
    BY <2>u, Untouched
  <2>2. UpscalerOK'
    BY <2>u, <2>c DEF UpscalerOK
  <2>3. GeneratorOK'
    BY <2>u, <2>a, <2>c, <2>d DEF GeneratorOK
  <2>4. RoomInv'
    BY <2>c DEF RoomInv
  <2>5. CallInv'
    <3>1. geo' <= events' + 1
      BY <2>u DEF CallInv
    <3>2. ppc \in {"closing", "ending", "closed"} => late'
      BY <2>u, <2>a DEF CallInv
    <3> QED
      BY <2>u, <2>a, <2>d, <3>1, <3>2 DEF CallInv
  <2>6. ChainInv'
    <3>1. Handed' = Handed
      BY <2>u DEF Handed
    <3> QED
      BY <1>t, <2>u, <2>a, <2>b, <2>c, <2>d, <3>1, Nothings DEF ChainInv, Holding, Collecting,
         Numbers
  <2>7. BackendInv'
    BY <2>u, <2>a, <2>d DEF BackendInv
  <2>8. TokenInv'
    BY <2>u, <2>a, <2>b, <2>c, <2>d, Nothings DEF TokenInv, Collecting, Key
  <2>9. OrderInv'
    <3> SUFFICES ASSUME ~overtook PROVE OrderInv'
      BY <2>u DEF OrderInv
    <3>1. Handed' = Handed
      BY <2>u DEF Handed
    <3>2. Rising(pq, shown) /\ Upto(pq, shown, 2 * Handed)
          /\ (pend # NoToken => Upto(pq, shown, 2 * pend.n - 2))
      BY <2>a DEF OrderInv
    <3>3. ~Holding'
      BY <2>a, <2>d DEF Holding, Collecting
    <3> QED
      BY <2>u, <2>a, <2>c, <2>d, <3>1, <3>2, <3>3 DEF OrderInv
  <2> QED
    BY <2>1, <2>2, <2>3, <2>4, <2>5, <2>6, <2>7, <2>8, <2>9
<1>3. CASE Stop
  <2>u. UNCHANGED <<framegen, ppc, cmd, geo, sent, slot, events, late, upc, job, up, upGeo,
                   plan, ready, fgq, fjob, pend, token, after, seen, cfg, made, active, pq, shown,
                   overtook, astray>>
    BY <1>3 DEF Stop
  <2>a. fpc = "stop" /\ fpc' = "ended" /\ fg' = NoBackend /\ fgKey' = Key("off", 0)
    BY <1>3 DEF Stop
  <2>b. token = NoToken /\ pend = NoToken
    BY <2>a DEF ChainInv, Collecting
  <2>1. CallersOK' /\ UpscalerOK' /\ PresenterOK' /\ RoomInv' /\ SlotInv'
    BY <2>u, Untouched
  <2>2. GeneratorOK'
    BY <2>u, <2>a, Nothings DEF GeneratorOK
  <2>3. CallInv'
    <3>1. geo' <= events' + 1
      BY <2>u DEF CallInv
    <3> QED
      BY <2>u, <2>a, <3>1 DEF CallInv
  <2>4. ChainInv'
    BY <1>t, <2>u, <2>a, <2>b DEF ChainInv, Handed, Holding, Collecting, Numbers
  <2>5. BackendInv'
    BY <2>u, <2>a, <2>b DEF BackendInv
  <2>6. TokenInv'
    BY <2>u, <2>a, <2>b, Nothings DEF TokenInv, Collecting
  <2>7. OrderInv'
    BY <1>t, <2>u, <2>a, <2>b DEF OrderInv, Handed, Holding, Collecting, Numbers
  <2> QED
    BY <2>1, <2>2, <2>3, <2>4, <2>5, <2>6, <2>7
<1>4. CASE GetSwitchedOff
  <2>u. UNCHANGED <<framegen, ppc, cmd, geo, sent, slot, events, late, upc, job, up, upGeo,
                   plan, ready, pend, token, seen, cfg, fg, fgKey, made, active, pq, shown,
                   overtook, astray>>
    BY <1>4 DEF GetSwitchedOff, FinishThen, Take
  <2>a. fpc = "get" /\ fjob' # StopJob
    BY <1>4, Nothings DEF GetSwitchedOff, Take
  <2>b. token = NoToken
    BY <2>a DEF ChainInv, Collecting
  <2>c. /\ fgq' = <<>> /\ Len(fgq') = 0 /\ fjob' \in Job /\ fjob'.n <= Handed
        /\ fjob' # StopJob => fjob'.n > pend.n
        /\ ~overtook /\ fjob' # StopJob => Upto(pq, shown, 2 * fjob'.n - 2)
    BY <1>4, Taken DEF GetSwitchedOff
  <2>d. /\ pend # NoToken => fpc' = "finish" /\ after' = "release"
        /\ pend = NoToken => fpc' = "release" /\ after' = after
    BY <1>4 DEF GetSwitchedOff, FinishThen
  <2>1. CallersOK' /\ PresenterOK' /\ SlotInv'
    BY <2>u, Untouched
  <2>2. UpscalerOK'
    BY <2>u, <2>c DEF UpscalerOK
  <2>3. GeneratorOK'
    BY <2>u, <2>a, <2>c, <2>d DEF GeneratorOK
  <2>4. RoomInv'
    BY <2>c DEF RoomInv
  <2>5. CallInv'
    <3>1. geo' <= events' + 1
      BY <2>u DEF CallInv
    <3>2. ppc \in {"closing", "ending", "closed"} => late'
      BY <2>u, <2>a DEF CallInv
    <3> QED
      BY <2>u, <2>a, <2>d, <3>1, <3>2 DEF CallInv
  <2>6. ChainInv'
    <3>1. Handed' = Handed
      BY <2>u DEF Handed
    <3> QED
      BY <1>t, <2>u, <2>a, <2>b, <2>c, <2>d, <3>1, Nothings DEF ChainInv, Holding, Collecting,
         Numbers
  <2>7. BackendInv'
    BY <2>u, <2>a, <2>d DEF BackendInv
  <2>8. TokenInv'
    BY <2>u, <2>a, <2>b, <2>c, <2>d, Nothings DEF TokenInv, Collecting, Key
  <2>9. OrderInv'
    <3> SUFFICES ASSUME ~overtook PROVE OrderInv'
      BY <2>u DEF OrderInv
    <3>1. Handed' = Handed
      BY <2>u DEF Handed
    <3>2. Rising(pq, shown) /\ Upto(pq, shown, 2 * Handed)
          /\ (pend # NoToken => Upto(pq, shown, 2 * pend.n - 2))
      BY <2>a DEF OrderInv
    <3>3. Holding' => Upto(pq, shown, 2 * fjob'.n - 2)
      BY <2>a, <2>c, <2>d DEF Holding, Collecting
    <3> QED
      BY <2>u, <2>a, <2>c, <2>d, <3>1, <3>2, <3>3 DEF OrderInv
  <2> QED
    BY <2>1, <2>2, <2>3, <2>4, <2>5, <2>6, <2>7, <2>8, <2>9
<1>5. CASE Release
  <2>u. UNCHANGED <<framegen, ppc, cmd, geo, sent, slot, events, late, upc, job, up, upGeo,
                   plan, ready, fgq, fjob, pend, token, after, seen, cfg, made, pq, shown, overtook,
                   astray>>
    BY <1>5 DEF Release
  <2>a. fpc = "release" /\ fpc' = "show" /\ fg' = NoBackend /\ fgKey' = Key("off", 0)
    BY <1>5 DEF Release
  <2>b. token = NoToken /\ pend = NoToken
    BY <2>a DEF ChainInv, Collecting
  <2>c. active' = FALSE
    BY <1>5, Zenon DEF Release
  <2>1. CallersOK' /\ UpscalerOK' /\ PresenterOK' /\ RoomInv' /\ SlotInv'
    BY <2>u, Untouched
  <2>2. GeneratorOK'
    <3>1. active' \in BOOLEAN
      BY <2>c, Zenon
    <3> QED
      BY <2>u, <2>a, <3>1, Nothings DEF GeneratorOK
  <2>3. CallInv'
    <3>1. geo' <= events' + 1
      BY <2>u DEF CallInv
    <3>2. ppc \in {"closing", "ending", "closed"} => late'
      BY <2>u, <2>a DEF CallInv
    <3> QED
      BY <2>u, <2>a, <3>1, <3>2 DEF CallInv
  <2>4. ChainInv'
    BY <2>u, <2>a DEF ChainInv, Handed, Holding, Collecting
  <2>5. BackendInv'
    <3>1. active' <=> fg' # NoBackend
      BY <2>a, <2>c, Zenon
    <3> QED
      BY <2>u, <2>a, <3>1 DEF BackendInv
  <2>6. TokenInv'
    BY <2>u, <2>a, <2>b, Nothings DEF TokenInv, Collecting
  <2>7. OrderInv'
    BY <2>u, <2>a DEF OrderInv, Handed, Holding, Collecting
  <2> QED
    BY <2>1, <2>2, <2>3, <2>4, <2>5, <2>6, <2>7
<1>6. CASE Show
  <2>u. UNCHANGED <<framegen, ppc, cmd, geo, sent, slot, events, late, upc, job, up, upGeo,
                   plan, ready, fgq, pend, token, after, seen, cfg, fg, fgKey, made, active, shown,
                   overtook, astray>>
    BY <1>6 DEF Show
  <2>a. fpc = "show" /\ fpc' = "get" /\ fjob' = NoJob /\ pq' = Append(pq, 2 * fjob.n)
    BY <1>6 DEF Show
  <2>b. token = NoToken /\ pend = NoToken /\ Holding
    BY <2>a DEF ChainInv, Collecting, Holding
  <2>c. fjob.n > 0 /\ fjob.n \in Int /\ fjob.n <= Handed
    BY <1>t, <2>b, Nothings DEF ChainInv, Numbers
  <2>d. Handed' = Handed /\ Handed \in Nat
    BY <2>u, HandedIsNumber DEF Handed, IInv
  <2>e. pq \in Seq(Nat) /\ shown \in Nat
    BY <1>t DEF PresenterOK
  <2>f. \A i \in 1..Len(fgq) : fgq[i].n \in Int /\ (fgq[i] # StopJob => fjob.n < fgq[i].n)
    BY <1>t DEF ChainInv, Numbers
  <2>g. 2 * fjob.n \in Nat /\ pq' \in Seq(Nat)
    BY <2>a, <2>c, <2>e
  <2>1. CallersOK' /\ UpscalerOK' /\ RoomInv' /\ SlotInv'
    BY <2>u, Untouched
  <2>2. GeneratorOK'
    BY <2>u, <2>a, Nothings DEF GeneratorOK
  <2>3. PresenterOK'
    <3>1. overtook' \in BOOLEAN /\ astray' \in BOOLEAN
      BY <2>u DEF PresenterOK
    <3>2. shown' \in Nat /\ pq' \in Seq(Nat)
      BY <2>u, <2>a, <2>g DEF PresenterOK
    <3> QED
      BY <3>1, <3>2, Zenon DEF PresenterOK
  <2>4. CallInv'
    <3>1. geo' <= events' + 1
      BY <2>u DEF CallInv
    <3>2. ppc \in {"closing", "ending", "closed"} => late'
      BY <2>u, <2>a DEF CallInv
    <3> QED
      BY <2>u, <2>a, <3>1, <3>2 DEF CallInv
  <2>5. ChainInv'
    <3>1. \A i \in 1..Len(fgq) : fgq[i] # StopJob => fgq[i].n > 0
      BY <2>c, <2>f
    <3> QED
      BY <2>u, <2>a, <2>b, <2>d, <3>1, Nothings DEF ChainInv, Holding, Collecting
  <2>6. BackendInv'
    BY <2>u, <2>a, <2>b DEF BackendInv
  <2>7. TokenInv'
    BY <2>u, <2>a, <2>b, Nothings DEF TokenInv, Collecting
  <2>8. OrderInv'
    <3> SUFFICES ASSUME ~overtook PROVE OrderInv'
      BY <2>u DEF OrderInv
    <3>1. Rising(pq, shown) /\ Upto(pq, shown, 2 * fjob.n - 2)
      BY <2>b DEF OrderInv
    <3>2. 2 * fjob.n - 2 \in Int /\ 2 * fjob.n - 2 < 2 * fjob.n
      BY <2>c, Twice
    <3>3. Rising(pq', shown) /\ \A y \in Int : 2 * fjob.n <= y => Upto(pq', shown, y)
      BY <2>a, <2>e, <2>g, <3>1, <3>2, Put
    <3>4. Upto(pq', shown, 2 * Handed)
      <4>1. 2 * Handed \in Int /\ 2 * fjob.n <= 2 * Handed
        BY <2>c, <2>d, Twice
      <4> QED
        BY <3>3, <4>1
    <3>5. \A i \in 1..Len(fgq) : fgq[i] # StopJob => Upto(pq', shown, 2 * fgq[i].n - 2)
      <4>1. \A i \in 1..Len(fgq) : fgq[i] # StopJob =>
              2 * fgq[i].n - 2 \in Int /\ 2 * fjob.n <= 2 * fgq[i].n - 2
        BY <2>c, <2>f, Twice
      <4> QED
        BY <3>3, <4>1
    <3> QED
      BY <2>u, <2>a, <2>b, <2>d, <3>3, <3>4, <3>5 DEF OrderInv, Holding, Collecting
  <2> QED
    BY <2>1, <2>2, <2>3, <2>4, <2>5, <2>6, <2>7, <2>8
<1> QED
  BY <1>1, <1>2, <1>3, <1>4, <1>5, <1>6

----------------------------------------------------------------------------
(* The frame-generation thread: the backend                                 *)

LEMMA GeneratorMakes == IInv /\ (GetPlan \/ ReadSettings \/ Ensure) => IInv'
<1> SUFFICES ASSUME IInv, (GetPlan \/ ReadSettings \/ Ensure) PROVE IInv'
  OBVIOUS
<1>t. Numbers
  BY NumbersAlways DEF IInv
<1> USE DEF IInv, process, upscaler, flow, reads, backend, rest
<1>1. CASE GetPlan
  <2>u. UNCHANGED <<framegen, ppc, cmd, geo, sent, slot, events, late, upc, job, up, upGeo,
                   plan, ready, pend, token, cfg, fg, fgKey, made, active, pq, shown, overtook,
                   astray>>
    BY <1>1 DEF GetPlan, FinishThen, Take
  <2>a. fpc = "get" /\ fjob' # StopJob /\ seen' = framegen
    <3>1. fpc = "get" /\ seen' = framegen
      BY <1>1 DEF GetPlan
    <3>2. fjob'.plan
      BY <1>1, Zenon DEF GetPlan
    <3>3. fjob' # StopJob
      BY <3>2, Nothings, Zenon
    <3> QED
      BY <3>1, <3>3
  <2>b. token = NoToken
    BY <2>a DEF ChainInv, Collecting
  <2>c. /\ fgq' = <<>> /\ Len(fgq') = 0 /\ fjob' \in Job /\ fjob'.n <= Handed
        /\ fjob' # StopJob => fjob'.n > pend.n
        /\ ~overtook /\ fjob' # StopJob => Upto(pq, shown, 2 * fjob'.n - 2)
    <3>1. Take
      BY <1>1 DEF GetPlan
    <3> QED
      BY <3>1, Taken
  <2>d. \/ /\ fpc' = "ensure" /\ after' = after
           /\ pend # NoToken => fg = NoBackend \/ fgKey = Key(framegen, fjob'.geo)
        \/ fpc' = "finish" /\ pend # NoToken /\ after' = "ensure"
    BY <1>1 DEF GetPlan, FinishThen
  <2>1. CallersOK' /\ PresenterOK' /\ SlotInv'
    BY <2>u, Untouched
  <2>2. UpscalerOK'
    BY <2>u, <2>c DEF UpscalerOK
  <2>3. GeneratorOK'
    BY <2>u, <2>a, <2>c, <2>d DEF GeneratorOK, CallersOK
  <2>4. RoomInv'
    BY <2>c DEF RoomInv
  <2>5. CallInv'
    <3>1. geo' <= events' + 1
      BY <2>u DEF CallInv
    <3>2. ppc \in {"closing", "ending", "closed"} => late'
      BY <2>u, <2>a DEF CallInv
    <3> QED
      BY <2>u, <2>a, <2>d, <3>1, <3>2 DEF CallInv
  <2>6. ChainInv'
    <3>1. Handed' = Handed
      BY <2>u DEF Handed
    <3> QED
      BY <1>t, <2>u, <2>a, <2>b, <2>c, <2>d, <3>1, Nothings DEF ChainInv, Holding, Collecting,
         Numbers
  <2>7. BackendInv'
    BY <2>u, <2>a, <2>d DEF BackendInv
  <2>8. TokenInv'
    BY <2>u, <2>a, <2>b, <2>c, <2>d, Nothings DEF TokenInv, Collecting, Key
  <2>9. OrderInv'
    <3> SUFFICES ASSUME ~overtook PROVE OrderInv'
      BY <2>u DEF OrderInv
    <3>1. Handed' = Handed
      BY <2>u DEF Handed
    <3>2. Rising(pq, shown) /\ Upto(pq, shown, 2 * Handed)
          /\ (pend # NoToken => Upto(pq, shown, 2 * pend.n - 2))
      BY <2>a DEF OrderInv
    <3>3. Holding' => Upto(pq, shown, 2 * fjob'.n - 2)
      BY <2>a, <2>c, <2>d DEF Holding, Collecting
    <3> QED
      BY <2>u, <2>a, <2>c, <2>d, <3>1, <3>2, <3>3 DEF OrderInv
  <2> QED
    BY <2>1, <2>2, <2>3, <2>4, <2>5, <2>6, <2>7, <2>8, <2>9
<1>2. CASE ReadSettings
  <2>u. UNCHANGED <<framegen, ppc, cmd, geo, sent, slot, events, late, upc, job, up, upGeo,
                   plan, ready, fgq, fjob, pend, token, after, seen, fg, fgKey, made, active, pq,
                   shown, overtook, astray>>
    BY <1>2 DEF ReadSettings
  <2>a. fpc = "ensure" /\ fpc' = "make" /\ cfg' = framegen
    BY <1>2 DEF ReadSettings
  <2>b. token = NoToken
    BY <2>a DEF ChainInv, Collecting
  <2>1. CallersOK' /\ UpscalerOK' /\ PresenterOK' /\ RoomInv' /\ SlotInv'
    BY <2>u, Untouched
  <2>2. GeneratorOK'
    BY <2>u, <2>a DEF GeneratorOK, CallersOK
  <2>3. CallInv'
    <3>1. geo' <= events' + 1
      BY <2>u DEF CallInv
    <3>2. ppc \in {"closing", "ending", "closed"} => late'
      BY <2>u, <2>a DEF CallInv
    <3> QED
      BY <2>u, <2>a, <3>1, <3>2 DEF CallInv
  <2>4. ChainInv'
    BY <2>u, <2>a DEF ChainInv, Handed, Holding, Collecting
  <2>5. BackendInv'
    BY <2>u, <2>a, <2>b DEF BackendInv
  <2>6. TokenInv'
    BY <2>u, <2>a, <2>b, Nothings DEF TokenInv, Collecting, Key
  <2>7. OrderInv'
    BY <2>u, <2>a DEF OrderInv, Handed, Holding, Collecting
  <2> QED
    BY <2>1, <2>2, <2>3, <2>4, <2>5, <2>6, <2>7
<1>3. CASE Ensure
  <2>u. UNCHANGED <<ppc, cmd, geo, sent, slot, late, upc, job, up, upGeo, plan, ready, fgq, active,
                   pq, shown, overtook>>
    BY <1>3 DEF Ensure, Ensure
  <2>a. fpc = "make" /\ seen' = "off" /\ cfg' = "off" /\ "off" \in Settings
    BY <1>3 DEF Ensure, Settings
  <2>b. ~astray' => ~astray /\ cfg = framegen /\ (pend # NoToken => seen = framegen)
    BY <1>3, Zenon DEF Ensure
  <2>c. token = NoToken /\ fjob \in Job /\ fjob.geo \in Geos
    BY <2>a DEF ChainInv, Collecting, GeneratorOK, Job
  <2>d. framegen' \in Settings
    BY <1>3, <2>a DEF Ensure, CallersOK
  <2>e. events' \in 0..MaxEvents /\ events' >= events
    <3>1. Event \/ events' = events
      BY <1>3 DEF Ensure
    <3> QED
      BY <3>1 DEF Event, CallersOK
  <2>g. geo \in Nat /\ events \in Nat /\ events' \in Nat /\ geo <= events + 1
    BY <1>t, <2>e DEF Numbers, CallInv
  <2>h. geo <= events' + 1
    BY <2>e, <2>g, Later
  <2>k. ASSUME fg # NoBackend, fgKey = Key(framegen, fjob.geo), fpc' = "begin",
               UNCHANGED <<fg, fgKey, made, fjob, pend, token, after>>
        PROVE  GeneratorOK' /\ ChainInv' /\ BackendInv' /\ TokenInv' /\ OrderInv'
    <3>1. GeneratorOK'
      BY <2>u, <2>a, <2>k DEF GeneratorOK
    <3>2. ChainInv'
      BY <2>u, <2>a, <2>k DEF ChainInv, Handed, Holding, Collecting
    <3>3. BackendInv'
      <4>1. fg.geo = fjob.geo
        BY <2>k DEF BackendInv, Key
      <4> QED
        BY <2>u, <2>k, <4>1 DEF BackendInv
    <3>4. TokenInv'
      BY <2>a, <2>b, <2>c, <2>k, Nothings DEF TokenInv, Collecting
    <3>5. OrderInv'
      BY <2>u, <2>a, <2>k DEF OrderInv, Handed, Holding, Collecting
    <3> QED
      BY <3>1, <3>2, <3>3, <3>4, <3>5
  <2>l. ASSUME fg = NoBackend \/ fgKey # Key(framegen, fjob.geo), fpc' = "begin",
               fg' = [inst |-> made + 1, method |-> cfg, geo |-> fjob.geo],
               fgKey' = Key(framegen, fjob.geo), made' = made + 1,
               UNCHANGED <<fjob, pend, token, after>>
        PROVE  GeneratorOK' /\ ChainInv' /\ BackendInv' /\ TokenInv' /\ OrderInv'
    <3>1. GeneratorOK'
      <4>1. made' \in Nat /\ fg' \in [inst : Nat, method : Settings, geo : Geos]
        BY <1>t, <2>c, <2>l DEF GeneratorOK, Numbers
      <4>2. fgKey' \in Keys
        BY <2>c, <2>l DEF Key, Keys, CallersOK
      <4> QED
        BY <2>u, <2>a, <2>l, <4>1, <4>2 DEF GeneratorOK
    <3>2. ChainInv'
      BY <2>u, <2>a, <2>l DEF ChainInv, Handed, Holding, Collecting
    <3>3. BackendInv'
      <4>1. fg'.geo = fjob'.geo /\ fgKey'.geo = fg'.geo /\ fg' # NoBackend
        <5>1. fg'.inst # 0
          BY <1>t, <2>l DEF Numbers
        <5> QED
          BY <2>l, <5>1 DEF Key, NoBackend
      <4> QED
        BY <2>l, <4>1 DEF BackendInv
    <3>4. TokenInv'
      <4> SUFFICES ASSUME ~astray' PROVE TokenInv'
        BY DEF TokenInv
      <4>1. ~astray /\ (pend # NoToken => seen = framegen)
        BY <2>b, Zenon
      <4>2. pend # NoToken => fg = NoBackend
        BY <2>a, <2>l, <4>1 DEF TokenInv
      <4>3. pend.inst # 0 => fg # NoBackend
        BY <2>a, <4>1 DEF TokenInv, Collecting
      <4>4. pend.inst = 0
        BY <4>2, <4>3, Nothings
      <4> QED
        BY <2>c, <2>l, <4>4, Nothings DEF TokenInv, Collecting
    <3>5. OrderInv'
      BY <2>u, <2>a, <2>l DEF OrderInv, Handed, Holding, Collecting
    <3> QED
      BY <3>1, <3>2, <3>3, <3>4, <3>5
  <2>m. ASSUME fg' = NoBackend, fgKey' = Key("off", 0), made' = made, Begun(0, FALSE)
        PROVE  GeneratorOK' /\ ChainInv' /\ BackendInv' /\ TokenInv' /\ OrderInv'
    <3> DEFINE Meanwhile == /\ pend # NoToken /\ pend' = pend /\ token'.inst = 0
                            /\ fpc' = "finish" /\ after' = "keep"
    <3> DEFINE AtOnce == /\ pend = NoToken /\ pend' # NoToken /\ pend'.inst = 0
                         /\ token' = NoToken /\ fpc' = "get" /\ after' = after
    <3>1. /\ ChainInv' /\ OrderInv'
          /\ pend' \in Token /\ token' \in Token /\ fjob' \in Job
          /\ Meanwhile \/ AtOnce
      BY <2>u, <2>a, <2>m, BegunKeeps
    <3>2. GeneratorOK'
      BY <2>u, <2>a, <2>m, <3>1, Nothings DEF GeneratorOK
    <3>3. BackendInv'
      BY <2>m, <3>1 DEF BackendInv
    <3>4. TokenInv'
      BY <2>m, <3>1, Nothings DEF TokenInv, Collecting
    <3> QED
      BY <3>1, <3>2, <3>3, <3>4
  <2>z. GeneratorOK' /\ ChainInv' /\ BackendInv' /\ TokenInv' /\ OrderInv'
    BY <1>3, <2>k, <2>l, <2>m DEF Ensure
  <2>1. UpscalerOK' /\ RoomInv' /\ SlotInv'
    BY <2>u, Untouched
  <2>2. CallersOK'
    BY <2>u, <2>d, <2>e DEF CallersOK
  <2>3. GeneratorOK'
    BY <2>z
  <2>4. PresenterOK'
    <3>1. astray' \in BOOLEAN
      BY <1>3, Zenon DEF Ensure
    <3>2. overtook' \in BOOLEAN /\ pq' \in Seq(Nat) /\ shown' \in Nat
      BY <2>u DEF PresenterOK
    <3> QED
      BY <3>1, <3>2, Zenon DEF PresenterOK
  <2>5. CallInv'
    <3>2. ppc \in {"closing", "ending", "closed"} => late'
      BY <2>u, <2>a DEF CallInv
    <3> QED
      BY <2>u, <2>z, <2>a, <2>h, <3>2 DEF CallInv
  <2>6. ChainInv'
    BY <2>z
  <2>7. BackendInv'
    BY <2>z
  <2>8. TokenInv'
    BY <2>z
  <2>9. OrderInv'
    BY <2>z
  <2> QED
    BY <2>1, <2>2, <2>3, <2>4, <2>5, <2>6, <2>7, <2>8, <2>9
<1> QED
  BY <1>1, <1>2, <1>3

----------------------------------------------------------------------------
(* The frame-generation thread: a frame begun, and its pictures             *)

LEMMA GeneratorGives == IInv /\ (Begin \/ GenerateEnd \/ PutGenerated \/ PutReal) => IInv'
<1> SUFFICES ASSUME IInv, (Begin \/ GenerateEnd \/ PutGenerated \/ PutReal) PROVE IInv'
  OBVIOUS
<1>t. Numbers
  BY NumbersAlways DEF IInv
<1> USE DEF IInv, process, upscaler, flow, reads, backend, rest
<1>1. CASE Begin
  <2>u. UNCHANGED <<ppc, cmd, geo, sent, slot, late, upc, job, up, upGeo, plan, ready, fgq, seen,
                   cfg, active, pq, shown, overtook>>
    BY <1>1 DEF Begin, Begin
  <2>a. fpc = "begin" /\ "off" \in Settings
    BY <1>1 DEF Begin, Settings
  <2>b. ~astray' => ~astray
    <3>1. UNCHANGED <<backend, astray>> \/ BackendFailed
      BY <1>1 DEF Begin
    <3>2. UNCHANGED <<backend, astray>> => astray' = astray
      OBVIOUS
    <3> QED
      BY <3>1, <3>2, Zenon DEF BackendFailed
  <2>c. fg # NoBackend /\ fg.inst \in Nat /\ token = NoToken
    BY <2>a DEF BackendInv, ChainInv, Collecting, GeneratorOK
  <2>d. framegen' \in Settings
    BY <1>1, <2>a DEF Begin, BackendFailed, CallersOK
  <2>e. events' \in 0..MaxEvents /\ events' >= events
    <3>1. Event \/ events' = events
      BY <1>1 DEF Begin, BackendFailed
    <3> QED
      BY <3>1 DEF Event, CallersOK
  <2>g. geo \in Nat /\ events \in Nat /\ events' \in Nat /\ geo <= events + 1
    BY <1>t, <2>e DEF Numbers, CallInv
  <2>h. geo <= events' + 1
    BY <2>e, <2>g, Later
  <2>m. ASSUME fg' = NoBackend, fgKey' = Key("off", 0), made' = made, Begun(0, FALSE)
        PROVE  GeneratorOK' /\ ChainInv' /\ BackendInv' /\ TokenInv' /\ OrderInv'
    <3> DEFINE Meanwhile == /\ pend # NoToken /\ pend' = pend /\ token'.inst = 0
                            /\ fpc' = "finish" /\ after' = "keep"
    <3> DEFINE AtOnce == /\ pend = NoToken /\ pend' # NoToken /\ pend'.inst = 0
                         /\ token' = NoToken /\ fpc' = "get" /\ after' = after
    <3>1. /\ ChainInv' /\ OrderInv'
          /\ pend' \in Token /\ token' \in Token /\ fjob' \in Job
          /\ Meanwhile \/ AtOnce
      BY <2>u, <2>a, <2>m, BegunKeeps
    <3>2. GeneratorOK'
      BY <2>u, <2>a, <2>m, <3>1, Nothings DEF GeneratorOK
    <3>3. BackendInv'
      BY <2>m, <3>1 DEF BackendInv
    <3>4. TokenInv'
      BY <2>m, <3>1, Nothings DEF TokenInv, Collecting
    <3> QED
      BY <3>1, <3>2, <3>3, <3>4
  <2>k. ASSUME NEW inst \in {0, fg.inst}, NEW m \in BOOLEAN, Begun(inst, m),
               UNCHANGED <<fg, fgKey, made>>
        PROVE  GeneratorOK' /\ ChainInv' /\ BackendInv' /\ TokenInv' /\ OrderInv'
    <3> DEFINE Meanwhile == /\ pend # NoToken /\ pend' = pend /\ token'.inst = inst
                            /\ fpc' = "finish" /\ after' = "keep"
    <3> DEFINE AtOnce == /\ pend = NoToken /\ pend' # NoToken /\ pend'.inst = inst
                         /\ token' = NoToken /\ fpc' = "get" /\ after' = after
    <3>1. inst \in Nat
      BY <2>c
    <3>2. /\ ChainInv' /\ OrderInv'
          /\ pend' \in Token /\ token' \in Token /\ fjob' \in Job
          /\ Meanwhile \/ AtOnce
      BY <2>u, <2>a, <2>k, <3>1, BegunKeeps
    <3>3. GeneratorOK'
      BY <2>u, <2>a, <2>k, <3>2 DEF GeneratorOK
    <3>4. BackendInv'
      BY <2>k, <3>2 DEF BackendInv
    <3>5. TokenInv'
      <4> SUFFICES ASSUME ~astray' PROVE TokenInv'
        BY DEF TokenInv
      <4>1. ~astray
        BY <2>b, Zenon
      <4>2. pend.inst # 0 => fg.inst = pend.inst
        BY <2>a, <4>1 DEF TokenInv, Collecting
      <4> QED
        BY <2>c, <2>k, <3>2, <4>2, Nothings DEF TokenInv, Collecting
    <3> QED
      BY <3>2, <3>3, <3>4, <3>5
  <2>z. GeneratorOK' /\ ChainInv' /\ BackendInv' /\ TokenInv' /\ OrderInv'
    <3>1. CASE fg.method \in Pipelined /\ Begun(fg.inst, FALSE) /\ UNCHANGED backend
      BY <2>k, <3>1
    <3>2. CASE (\E m \in BOOLEAN : Begun(0, m)) /\ UNCHANGED backend
      BY <2>k, <3>2
    <3>3. CASE BackendFailed /\ Begun(0, FALSE)
      BY <2>m, <3>3 DEF BackendFailed
    <3> QED
      BY <1>1, <3>1, <3>2, <3>3 DEF Begin
  <2>1. UpscalerOK' /\ RoomInv' /\ SlotInv'
    BY <2>u, Untouched
  <2>2. CallersOK'
    BY <2>u, <2>d, <2>e DEF CallersOK
  <2>3. GeneratorOK'
    BY <2>z
  <2>4. PresenterOK'
    <3>1. astray' \in BOOLEAN
      <4>1. UNCHANGED <<backend, astray>> \/ BackendFailed
        BY <1>1 DEF Begin
      <4>2. UNCHANGED <<backend, astray>> => astray' \in BOOLEAN
        BY DEF PresenterOK
      <4> QED
        BY <4>1, <4>2, Zenon DEF BackendFailed
    <3>2. overtook' \in BOOLEAN /\ pq' \in Seq(Nat) /\ shown' \in Nat
      BY <2>u DEF PresenterOK
    <3> QED
      BY <3>1, <3>2, Zenon DEF PresenterOK
  <2>5. CallInv'
    <3>2. ppc \in {"closing", "ending", "closed"} => late'
      BY <2>u, <2>a DEF CallInv
    <3> QED
      BY <2>u, <2>z, <2>a, <2>h, <3>2 DEF CallInv
  <2>6. ChainInv'
    BY <2>z
  <2>7. BackendInv'
    BY <2>z
  <2>8. TokenInv'
    BY <2>z
  <2>9. OrderInv'
    BY <2>z
  <2> QED
    BY <2>1, <2>2, <2>3, <2>4, <2>5, <2>6, <2>7, <2>8, <2>9
<1>2. CASE GenerateEnd
  <2>u. UNCHANGED <<ppc, cmd, geo, sent, slot, late, upc, job, up, upGeo, plan, ready, fgq, fjob,
                   pend, token, after, seen, cfg, pq, shown, overtook>>
    BY <1>2 DEF GenerateEnd, GenerateEnd
  <2>a. fpc = "finish" /\ fpc' \in {"generated", "real"} /\ pend # NoToken
    BY <1>2 DEF GenerateEnd, ChainInv, Collecting
  <2>b. UNCHANGED <<backend, astray>> \/ BackendFailed
    BY <1>2 DEF GenerateEnd
  <2>c. active' = (fg' # NoBackend)
    BY <1>2, Zenon DEF GenerateEnd
  <2>d. framegen' \in Settings
    BY <1>2 DEF GenerateEnd, BackendFailed, CallersOK, Settings
  <2>e. events' \in 0..MaxEvents /\ events' >= events
    <3>1. Event \/ events' = events
      BY <1>2 DEF GenerateEnd, BackendFailed
    <3> QED
      BY <3>1 DEF Event, CallersOK
  <2>f. \/ fg' = fg /\ fgKey' = fgKey /\ made' = made
        \/ fg' = NoBackend /\ fgKey' = Key("off", 0) /\ made' = made
    BY <2>b DEF BackendFailed
  <2>g. geo \in Nat /\ events \in Nat /\ events' \in Nat /\ geo <= events + 1
    BY <1>t, <2>e DEF Numbers, CallInv
  <2>h. geo <= events' + 1
    BY <2>e, <2>g, Later
  <2>i. ~astray' => ~astray /\ (fg' = fg \/ token.inst = 0)
    <3>1. UNCHANGED <<backend, astray>> => astray' = astray /\ fg' = fg
      OBVIOUS
    <3>2. BackendFailed => astray' = (astray \/ token.inst # 0)
      BY <2>a, Zenon DEF BackendFailed
    <3> QED
      BY <2>b, <3>1, <3>2, Zenon
  <2>1. UpscalerOK' /\ RoomInv' /\ SlotInv'
    BY <2>u, Untouched
  <2>2. CallersOK'
    BY <2>u, <2>d, <2>e DEF CallersOK
  <2>3. GeneratorOK'
    <3>1. active' \in BOOLEAN
      BY <2>c, Zenon
    <3>2. /\ fpc' \in {"get", "stop", "release", "show", "ensure", "make", "begin", "finish",
                      "generated", "real", "ended"}
          /\ fjob' \in Job /\ pend' \in Token /\ token' \in Token
          /\ after' \in {"get", "stop", "release", "ensure", "keep"}
          /\ seen' \in Settings /\ cfg' \in Settings
          /\ fg' \in [inst : Nat, method : Settings, geo : Geos] /\ fgKey' \in Keys
          /\ made' \in Nat
      BY <2>u, <2>a, <2>f, Nothings DEF GeneratorOK
    <3> QED
      BY <3>1, <3>2, Zenon DEF GeneratorOK
  <2>4. PresenterOK'
    <3>1. astray' \in BOOLEAN
      <4>2. UNCHANGED <<backend, astray>> => astray' \in BOOLEAN
        BY DEF PresenterOK
      <4> QED
        BY <2>b, <4>2, Zenon DEF BackendFailed
    <3>2. overtook' \in BOOLEAN /\ pq' \in Seq(Nat) /\ shown' \in Nat
      BY <2>u DEF PresenterOK
    <3> QED
      BY <3>1, <3>2, Zenon DEF PresenterOK
  <2>5. CallInv'
    <3>2. ppc \in {"closing", "ending", "closed"} => late'
      BY <2>u, <2>a DEF CallInv
    <3> QED
      BY <2>u, <2>a, <2>h, <3>2 DEF CallInv
  <2>6. ChainInv'
    BY <2>u, <2>a DEF ChainInv, Handed, Holding, Collecting
  <2>7. BackendInv'
    <3>1. active' <=> fg' # NoBackend
      BY <2>c, Zenon
    <3>2. fg' # NoBackend => fgKey'.geo = fg'.geo
      BY <2>f DEF BackendInv
    <3>3. fpc' \notin {"begin", "ended", "get"}
      BY <2>a
    <3> QED
      BY <3>1, <3>2, <3>3, Zenon DEF BackendInv
  <2>8. TokenInv'
    <3> SUFFICES ASSUME ~astray' PROVE TokenInv'
      BY DEF TokenInv
    <3>1. ~astray /\ (fg' = fg \/ token.inst = 0)
      BY <2>i, Zenon
    <3>2. token.inst # 0 => fg'.inst = token.inst /\ fg' # NoBackend
      BY <2>a, <3>1 DEF TokenInv, Collecting
    <3> QED
      BY <2>u, <2>a, <3>2 DEF TokenInv, Collecting
  <2>9. OrderInv'
    <3> SUFFICES ASSUME ~overtook PROVE OrderInv'
      BY <2>u DEF OrderInv
    <3>1. Upto(pq, shown, 2 * pend.n - 2)
      BY <2>a DEF OrderInv
    <3>2. Upto(pq, shown, 2 * pend.n - 1)
      <4>1. pend.n \in Int /\ pq \in Seq(Nat) /\ shown \in Nat
        BY <1>t DEF PresenterOK, Numbers
      <4>2. 2 * pend.n - 1 \in Int /\ 2 * pend.n - 2 \in Int /\ 2 * pend.n - 2 <= 2 * pend.n - 1
        BY <4>1
      <4> QED
        BY <3>1, <4>1, <4>2, Higher
    <3> QED
      BY <2>u, <2>a, <3>1, <3>2 DEF OrderInv, Handed, Holding, Collecting
  <2> QED
    BY <2>1, <2>2, <2>3, <2>4, <2>5, <2>6, <2>7, <2>8, <2>9
<1>3. CASE PutGenerated
  <2>u. UNCHANGED <<framegen, ppc, cmd, geo, sent, slot, events, late, upc, job, up, upGeo,
                   plan, ready, fgq, fjob, pend, token, after, seen, cfg, fg, fgKey, made, active,
                   shown, overtook, astray>>
    BY <1>3 DEF PutGenerated
  <2>a. fpc = "generated" /\ fpc' = "real" /\ pq' = Append(pq, 2 * pend.n - 1)
    BY <1>3 DEF PutGenerated
  <2>b. pend # NoToken /\ pend.n \in Int /\ pend.n > 0 /\ pend.n <= Handed
    BY <1>t, <2>a DEF ChainInv, Collecting, Numbers
  <2>c. /\ token.n \in Int /\ (after = "keep" => pend.n < token.n)
        /\ fjob.n \in Int /\ (Holding => pend.n < fjob.n)
    BY <1>t, <2>a DEF ChainInv, Collecting, Numbers
  <2>d. Handed' = Handed /\ Handed \in Nat
    BY <2>u, HandedIsNumber DEF Handed, IInv
  <2>e. pq \in Seq(Nat) /\ shown \in Nat
    BY <1>t DEF PresenterOK
  <2>f. \A i \in 1..Len(fgq) : fgq[i].n \in Int /\ (fgq[i] # StopJob => pend.n < fgq[i].n)
    BY <1>t DEF ChainInv, Numbers
  <2>g. 2 * pend.n - 1 \in Nat /\ pq' \in Seq(Nat)
    BY <2>a, <2>b, <2>e
  <2>1. CallersOK' /\ UpscalerOK' /\ RoomInv' /\ SlotInv'
    BY <2>u, Untouched
  <2>2. GeneratorOK'
    BY <2>u, <2>a, <2>b, <2>c, <2>d, <2>e, <2>f, <2>g DEF GeneratorOK
  <2>3. PresenterOK'
    <3>1. overtook' \in BOOLEAN /\ astray' \in BOOLEAN
      BY <2>u DEF PresenterOK
    <3>2. shown' \in Nat /\ pq' \in Seq(Nat)
      BY <2>u, <2>a, <2>g DEF PresenterOK
    <3> QED
      BY <3>1, <3>2, Zenon DEF PresenterOK
  <2>4. CallInv'
    <3>1. geo' <= events' + 1
      BY <2>u DEF CallInv
    <3>2. ppc \in {"closing", "ending", "closed"} => late'
      BY <2>u, <2>a DEF CallInv
    <3> QED
      BY <2>u, <2>a, <3>1, <3>2 DEF CallInv
  <2>5. ChainInv'
    BY <2>u, <2>a DEF ChainInv, Handed, Holding, Collecting
  <2>6. BackendInv'
    BY <2>u, <2>a DEF BackendInv
  <2>7. TokenInv'
    BY <2>u, <2>a DEF TokenInv, Collecting
  <2>8. OrderInv'
    <3> SUFFICES ASSUME ~overtook PROVE OrderInv'
      BY <2>u DEF OrderInv
    <3>1. Rising(pq, shown) /\ Upto(pq, shown, 2 * pend.n - 2)
      BY <2>a, <2>b DEF OrderInv
    <3>2. 2 * pend.n - 2 \in Int /\ 2 * pend.n - 2 < 2 * pend.n - 1
      BY <2>b, Twice
    <3>3. Rising(pq', shown) /\ \A y \in Int : 2 * pend.n - 1 <= y => Upto(pq', shown, y)
      BY <2>a, <2>e, <2>g, <3>1, <3>2, Put
    <3>4. Upto(pq', shown, 2 * Handed)
      <4>1. 2 * Handed \in Int /\ 2 * pend.n - 1 <= 2 * Handed
        BY <2>b, <2>d, Twice
      <4> QED
        BY <3>3, <4>1
    <3>5. \A i \in 1..Len(fgq) : fgq[i] # StopJob => Upto(pq', shown, 2 * fgq[i].n - 2)
      <4>1. \A i \in 1..Len(fgq) : fgq[i] # StopJob =>
              2 * fgq[i].n - 2 \in Int /\ 2 * pend.n - 1 <= 2 * fgq[i].n - 2
        BY <2>b, <2>f, Twice
      <4> QED
        BY <3>3, <4>1
    <3>6. Holding => Upto(pq', shown, 2 * fjob.n - 2)
      <4>1. Holding => 2 * fjob.n - 2 \in Int /\ 2 * pend.n - 1 <= 2 * fjob.n - 2
        BY <2>b, <2>c, Twice
      <4> QED
        BY <3>3, <4>1
    <3>7. Upto(pq', shown, 2 * pend.n - 1)
      BY <2>b, <2>g, <3>3
    <3>8. Holding' => Holding
      BY <2>u, <2>a DEF Holding, Collecting
    <3> QED
      BY <2>u, <2>a, <2>d, <3>3, <3>4, <3>5, <3>6, <3>7, <3>8 DEF OrderInv
  <2> QED
    BY <2>1, <2>2, <2>3, <2>4, <2>5, <2>6, <2>7, <2>8
<1>4. CASE PutReal
  <2>u. UNCHANGED <<framegen, ppc, cmd, geo, sent, slot, events, late, upc, job, up, upGeo,
                   plan, ready, fgq, seen, cfg, fg, fgKey, made, active, shown, overtook, astray>>
    BY <1>4 DEF PutReal, GoOn
  <2>a. fpc = "real" /\ pq' = Append(pq, 2 * pend.n) /\ after' = "get"
    BY <1>4 DEF PutReal, GoOn
  <2>b. pend # NoToken /\ pend.n \in Int /\ pend.n > 0 /\ pend.n <= Handed
    BY <1>t, <2>a DEF ChainInv, Collecting, Numbers
  <2>c. /\ token.n \in Int /\ (after = "keep" => pend.n < token.n)
        /\ fjob.n \in Int /\ (Holding => pend.n < fjob.n)
    BY <1>t, <2>a DEF ChainInv, Collecting, Numbers
  <2>d. Handed' = Handed /\ Handed \in Nat
    BY <2>u, HandedIsNumber DEF Handed, IInv
  <2>e. pq \in Seq(Nat) /\ shown \in Nat
    BY <1>t DEF PresenterOK
  <2>f. \A i \in 1..Len(fgq) : fgq[i].n \in Int /\ (fgq[i] # StopJob => pend.n < fgq[i].n)
    BY <1>t DEF ChainInv, Numbers
  <2>g. 2 * pend.n \in Nat /\ pq' \in Seq(Nat)
    BY <2>a, <2>b, <2>e
  <2>h. ASSUME after = "keep"
        PROVE  GeneratorOK' /\ ChainInv' /\ BackendInv' /\ TokenInv' /\ OrderInv'
    <3>a. pend' = token /\ token' = NoToken /\ fjob' = NoJob /\ fpc' = "get"
      BY <1>4, <2>h DEF PutReal, GoOn
    <3>b. pend'.n > 0 /\ pend' # NoToken /\ ~Holding' /\ ~Collecting'
      BY <2>b, <2>c, <2>h, <3>a, Nothings DEF Holding, Collecting
    <3>1. GeneratorOK'
      BY <2>u, <2>a, <3>a, Nothings DEF GeneratorOK
    <3>2. ChainInv'
      <4>1. pend'.n <= Handed /\ \A i \in 1..Len(fgq) : fgq[i].n <= Handed /\
              (fgq[i] # StopJob => fgq[i].n > pend'.n /\ fgq[i].n > 0)
        <5>1. \A i \in 1..Len(fgq) : fgq[i].n <= Handed /\
                (fgq[i] # StopJob => fgq[i].n > pend'.n)
          BY <3>a DEF ChainInv
        <5> QED
          BY <2>b, <2>c, <2>f, <3>a, <5>1 DEF ChainInv
      <4> QED
        BY <2>u, <2>a, <2>d, <3>a, <3>b, <4>1, Nothings DEF ChainInv
    <3>3. BackendInv'
      BY <2>u, <3>a, <3>b DEF BackendInv
    <3>4. TokenInv'
      BY <2>u, <2>a, <3>a, Nothings DEF TokenInv, Collecting
    <3>5. OrderInv'
      <4> SUFFICES ASSUME ~overtook PROVE OrderInv'
        BY <2>u DEF OrderInv
      <4>1. Rising(pq, shown) /\ Upto(pq, shown, 2 * pend.n - 1)
        BY <2>a, <2>b DEF OrderInv
      <4>2. 2 * pend.n - 1 \in Int /\ 2 * pend.n - 1 < 2 * pend.n
        BY <2>b, Twice
      <4>3. Rising(pq', shown) /\ \A y \in Int : 2 * pend.n <= y => Upto(pq', shown, y)
        BY <2>a, <2>e, <2>g, <4>1, <4>2, Put
      <4>4. Upto(pq', shown, 2 * Handed)
        <5>1. 2 * Handed \in Int /\ 2 * pend.n <= 2 * Handed
          BY <2>b, <2>d, Twice
        <5> QED
          BY <4>3, <5>1
      <4>5. \A i \in 1..Len(fgq) : fgq[i] # StopJob => Upto(pq', shown, 2 * fgq[i].n - 2)
        <5>1. \A i \in 1..Len(fgq) : fgq[i] # StopJob =>
                2 * fgq[i].n - 2 \in Int /\ 2 * pend.n <= 2 * fgq[i].n - 2
          BY <2>b, <2>f, Twice
        <5> QED
          BY <4>3, <5>1
      <4>6. Holding => Upto(pq', shown, 2 * fjob.n - 2)
        <5>1. Holding => 2 * fjob.n - 2 \in Int /\ 2 * pend.n <= 2 * fjob.n - 2
          BY <2>b, <2>c, Twice
        <5> QED
          BY <4>3, <5>1
      <4>7. 2 * token.n - 2 \in Int /\ 2 * pend.n <= 2 * token.n - 2
        BY <2>b, <2>c, <2>h, Twice
      <4>8. Upto(pq', shown, 2 * pend'.n - 2)
        BY <3>a, <4>3, <4>7
      <4> QED
        BY <2>u, <2>d, <3>a, <3>b, <4>3, <4>4, <4>5, <4>8 DEF OrderInv
    <3> QED
      BY <3>1, <3>2, <3>3, <3>4, <3>5
  <2>i. ASSUME after # "keep"
        PROVE  GeneratorOK' /\ ChainInv' /\ BackendInv' /\ TokenInv' /\ OrderInv'
    <3>a. pend' = NoToken /\ fpc' = after /\ token' = token /\ fjob' = fjob
      BY <1>4, <2>i DEF PutReal, GoOn
    <3>b. token = NoToken /\ ~Collecting' /\ after \in {"get", "stop", "release", "ensure"}
      BY <2>a, <2>i, <3>a DEF ChainInv, Collecting, GeneratorOK
    <3>c. Holding' => Holding
      BY <2>a, <3>a, <3>b DEF Holding, Collecting
    <3>1. GeneratorOK'
      BY <2>u, <2>a, <3>a, <3>b, Nothings DEF GeneratorOK
    <3>2. ChainInv'
      <4>1. Holding => fjob.n > 0
        BY <2>b, <2>c
      <4>2. \A i \in 1..Len(fgq) : fgq[i] # StopJob => fgq[i].n > 0
        BY <2>b, <2>f
      <4> QED
        BY <2>u, <2>d, <3>a, <3>b, <3>c, <4>1, <4>2, Nothings DEF ChainInv
    <3>3. BackendInv'
      BY <2>u, <2>a, <3>a, <3>b DEF BackendInv
    <3>4. TokenInv'
      BY <3>a, <3>b, Nothings DEF TokenInv
    <3>5. OrderInv'
      <4> SUFFICES ASSUME ~overtook PROVE OrderInv'
        BY <2>u DEF OrderInv
      <4>1. Rising(pq, shown) /\ Upto(pq, shown, 2 * pend.n - 1)
        BY <2>a, <2>b DEF OrderInv
      <4>2. 2 * pend.n - 1 \in Int /\ 2 * pend.n - 1 < 2 * pend.n
        BY <2>b, Twice
      <4>3. Rising(pq', shown) /\ \A y \in Int : 2 * pend.n <= y => Upto(pq', shown, y)
        BY <2>a, <2>e, <2>g, <4>1, <4>2, Put
      <4>4. Upto(pq', shown, 2 * Handed)
        <5>1. 2 * Handed \in Int /\ 2 * pend.n <= 2 * Handed
          BY <2>b, <2>d, Twice
        <5> QED
          BY <4>3, <5>1
      <4>5. \A i \in 1..Len(fgq) : fgq[i] # StopJob => Upto(pq', shown, 2 * fgq[i].n - 2)
        <5>1. \A i \in 1..Len(fgq) : fgq[i] # StopJob =>
                2 * fgq[i].n - 2 \in Int /\ 2 * pend.n <= 2 * fgq[i].n - 2
          BY <2>b, <2>f, Twice
        <5> QED
          BY <4>3, <5>1
      <4>6. Holding => Upto(pq', shown, 2 * fjob.n - 2)
        <5>1. Holding => 2 * fjob.n - 2 \in Int /\ 2 * pend.n <= 2 * fjob.n - 2
          BY <2>b, <2>c, Twice
        <5> QED
          BY <4>3, <5>1
      <4> QED
        BY <2>u, <2>d, <3>a, <3>c, <4>3, <4>4, <4>5, <4>6 DEF OrderInv
    <3> QED
      BY <3>1, <3>2, <3>3, <3>4, <3>5
  <2>z. GeneratorOK' /\ ChainInv' /\ BackendInv' /\ TokenInv' /\ OrderInv'
    BY <2>h, <2>i
  <2>1. CallersOK' /\ UpscalerOK' /\ RoomInv' /\ SlotInv'
    BY <2>u, Untouched
  <2>2. GeneratorOK'
    BY <2>z
  <2>3. PresenterOK'
    <3>1. overtook' \in BOOLEAN /\ astray' \in BOOLEAN
      BY <2>u DEF PresenterOK
    <3>2. shown' \in Nat /\ pq' \in Seq(Nat)
      BY <2>u, <2>a, <2>g DEF PresenterOK
    <3> QED
      BY <3>1, <3>2, Zenon DEF PresenterOK
  <2>4. CallInv'
    <3>1. geo' <= events' + 1
      BY <2>u DEF CallInv
    <3>2. ppc \in {"closing", "ending", "closed"} => late'
      BY <2>u, <2>a DEF CallInv
    <3> QED
      BY <2>u, <2>a, <2>z, <3>1, <3>2 DEF CallInv
  <2>5. ChainInv'
    BY <2>z
  <2>6. BackendInv'
    BY <2>z
  <2>7. TokenInv'
    BY <2>z
  <2>8. OrderInv'
    BY <2>z
  <2> QED
    BY <2>1, <2>2, <2>3, <2>4, <2>5, <2>6, <2>7, <2>8
<1> QED
  BY <1>1, <1>2, <1>3, <1>4

----------------------------------------------------------------------------
(* The presenter                                                            *)

LEMMA PresenterStep == IInv /\ Presenter => IInv'
<1> SUFFICES ASSUME IInv, Presenter PROVE IInv'
  OBVIOUS
<1>t. Numbers
  BY NumbersAlways DEF IInv
<1> USE DEF IInv, process, upscaler, flow, reads, backend, rest
<1>1. CASE Present
  <2>u. UNCHANGED <<framegen, ppc, cmd, geo, sent, slot, events, late, upc, job, up, upGeo,
                   plan, ready, fgq, fpc, fjob, pend, token, after, seen, cfg, fg, fgKey, made,
                   active, overtook, astray>>
    BY <1>1 DEF Present
  <2>a. pq # <<>> /\ pq' = Tail(pq) /\ pq \in Seq(Nat) /\ shown \in Nat
    BY <1>1 DEF Present, PresenterOK
  <2>b. /\ pq' \in Seq(Nat) /\ shown' \in Nat
        /\ Rising(pq, shown) => Rising(pq', shown')
        /\ \A x \in Int : Upto(pq, shown, x) => Upto(pq', shown', x)
    BY <1>1, <2>a, TakeFirst DEF Present
  <2>c. Handed \in Nat /\ pend.n \in Int /\ fjob.n \in Int /\ \A i \in 1..Len(fgq) : fgq[i].n \in Int
    BY <1>t, HandedIsNumber DEF IInv, Numbers
  <2>1. /\ CallersOK' /\ UpscalerOK' /\ GeneratorOK' /\ RoomInv' /\ CallInv' /\ SlotInv'
        /\ ChainInv' /\ BackendInv' /\ TokenInv'
    BY <2>u, Untouched
  <2>2. PresenterOK'
    <3>1. overtook' \in BOOLEAN /\ astray' \in BOOLEAN
      BY <2>u DEF PresenterOK
    <3> QED
      BY <2>b, <3>1, Zenon DEF PresenterOK
  <2>3. OrderInv'
    <3> SUFFICES ASSUME ~overtook PROVE OrderInv'
      BY <2>u DEF OrderInv
    <3>1. /\ 2 * Handed \in Int /\ 2 * pend.n - 1 \in Int /\ 2 * pend.n - 2 \in Int
          /\ 2 * fjob.n - 2 \in Int
      BY <2>c, Twice
    <3>2. \A i \in 1..Len(fgq) : 2 * fgq[i].n - 2 \in Int
      BY <2>c, Twice
    <3>3. Handed' = Handed /\ (Holding' <=> Holding)
      BY <2>u DEF Handed, Holding, Collecting
    <3> QED
      BY <2>u, <2>b, <3>1, <3>2, <3>3 DEF OrderInv
  <2> QED
    BY <2>1, <2>2, <2>3
<1>2. CASE Skip
  <2>u. UNCHANGED <<framegen, ppc, cmd, geo, sent, slot, events, late, upc, job, up, upGeo,
                   plan, ready, fgq, fpc, fjob, pend, token, after, seen, cfg, fg, fgKey, made,
                   active, shown, overtook, astray>>
    BY <1>2 DEF Skip
  <2>a. pq # <<>> /\ pq' = Tail(pq) /\ pq \in Seq(Nat) /\ shown \in Nat
    BY <1>2 DEF Skip, PresenterOK
  <2>b. /\ pq' \in Seq(Nat) /\ shown' \in Nat
        /\ Rising(pq, shown) => Rising(pq', shown')
        /\ \A x \in Int : Upto(pq, shown, x) => Upto(pq', shown', x)
    BY <1>2, <2>u, <2>a, TakeFirst DEF Skip
  <2>c. Handed \in Nat /\ pend.n \in Int /\ fjob.n \in Int /\ \A i \in 1..Len(fgq) : fgq[i].n \in Int
    BY <1>t, HandedIsNumber DEF IInv, Numbers
  <2>1. /\ CallersOK' /\ UpscalerOK' /\ GeneratorOK' /\ RoomInv' /\ CallInv' /\ SlotInv'
        /\ ChainInv' /\ BackendInv' /\ TokenInv'
    BY <2>u, Untouched
  <2>2. PresenterOK'
    <3>1. overtook' \in BOOLEAN /\ astray' \in BOOLEAN
      BY <2>u DEF PresenterOK
    <3> QED
      BY <2>b, <3>1, Zenon DEF PresenterOK
  <2>3. OrderInv'
    <3> SUFFICES ASSUME ~overtook PROVE OrderInv'
      BY <2>u DEF OrderInv
    <3>1. /\ 2 * Handed \in Int /\ 2 * pend.n - 1 \in Int /\ 2 * pend.n - 2 \in Int
          /\ 2 * fjob.n - 2 \in Int
      BY <2>c, Twice
    <3>2. \A i \in 1..Len(fgq) : 2 * fgq[i].n - 2 \in Int
      BY <2>c, Twice
    <3>3. Handed' = Handed /\ (Holding' <=> Holding)
      BY <2>u DEF Handed, Holding, Collecting
    <3> QED
      BY <2>u, <2>b, <3>1, <3>2, <3>3 DEF OrderInv
  <2> QED
    BY <2>1, <2>2, <2>3
<1> QED
  BY <1>1, <1>2 DEF Presenter

----------------------------------------------------------------------------
(* Theorems                                                                 *)

LEMMA Inductive == IInv /\ [Next]_vars => IInv'
<1> SUFFICES ASSUME IInv, [Next]_vars PROVE IInv'
  OBVIOUS
<1>1. CASE ChangeFramegen \/ Process
  BY <1>1, ProcessStep
<1>2. CASE Upscaler
  BY <1>2, UpscalerStep
<1>3. CASE Generator
  BY <1>3, GeneratorTakes, GeneratorMakes, GeneratorGives DEF Generator
<1>4. CASE Presenter
  BY <1>4, PresenterStep
<1>5. CASE UNCHANGED vars
  <2>1. UNCHANGED <<framegen, ppc, cmd, geo, sent, slot, events, late, upc, job, up, upGeo>>
        /\ UNCHANGED <<plan, ready, fgq, fpc, fjob, pend, token, after, seen, cfg, fg, fgKey, made>>
        /\ UNCHANGED <<active, pq, shown, overtook, astray>>
    BY <1>5 DEF vars, process, upscaler, reads, backend, flow
  <2> QED
    BY <2>1, Untouched DEF IInv
<1> QED
  BY <1>1, <1>2, <1>3, <1>4, <1>5 DEF Next

LEMMA Invariant == Spec => []IInv
<1> QED
  BY InitInvariant, Inductive, PTL DEF Spec

\* Every variable of the four threads keeps its type, and the queue of the
\* frame-generation thread never holds a second job.
THEOREM TypeCorrect == Spec => []TypeOK
<1>1. IInv => TypeOK
  BY DEF IInv, TypeOK, RoomInv
<1> QED
  BY <1>1, Invariant, PTL

\* No thread works with what another has replaced, dropped or closed: what is upscaled has
\* the upscaler's size, a result is collected from the backend its frame was given to, the
\* flag tells whether there is a backend, and close() leaves neither of them behind.
THEOREM NothingIsStale == Spec => []NothingStale
<1>1. IInv => NothingStale
  <2> SUFFICES ASSUME IInv PROVE NothingStale
    OBVIOUS
  <2>1. UpscalesOwnGeometry
    BY DEF IInv, SlotInv, UpscalesOwnGeometry
  <2>2. TokensStay
    <3>1. fpc = "begin" => fg # NoBackend /\ fg.geo = fjob.geo
      BY DEF IInv, BackendInv
    <3>2. ~astray => TokensGoHome
      BY DEF IInv, TokenInv, TokensGoHome
    <3> QED
      BY <3>1, <3>2, Zenon DEF TokensStay
  <2>3. ActiveIsTrue
    BY Zenon DEF IInv, BackendInv, ActiveIsTrue
  <2>4. ClosedIsClean
    <3>1. ppc = "closed" => up = "absent" /\ (late \/ fpc = "ended")
      BY Zenon DEF IInv, CallInv, ClosedIsClean
    <3>2. fpc = "ended" => fg = NoBackend
      BY DEF IInv, BackendInv
    <3> QED
      BY <3>1, <3>2, Zenon DEF ClosedIsClean
  <2> QED
    BY <2>1, <2>2, <2>3, <2>4 DEF NothingStale
<1> QED
  BY <1>1, Invariant, PTL

\* Pictures go out in display order, each at most once, as long as no frame passes one
\* that is being generated.
THEOREM InDisplayOrder == Spec => DisplayOrder
<1>1. IInv /\ [Next]_vars => [shown' # shown /\ ~overtook => shown' > shown]_vars
  <2> SUFFICES ASSUME IInv, Next, shown' # shown, ~overtook PROVE shown' > shown
    OBVIOUS
  <2>1. Present
    BY DEF Next, ChangeFramegen, Process, Submit, Configure, Close, PutStop, JoinGenerator,
      EndThreads, Upscaler, RunConfigure, RunClose, TakeSlot, Upscale, UpscaleFails, Decide,
      ShowDirectly, HandOver, HandOverTimesOut, Generator,
      GetNothing, GetStop, Stop, GetSwitchedOff, Release, Show, GetPlan, ReadSettings,
      Ensure, Begin, GenerateEnd, PutGenerated, PutReal, Presenter, Skip, rest
  <2>2. pq \in Seq(Nat) /\ shown \in Nat /\ Rising(pq, shown)
    BY DEF IInv, PresenterOK, OrderInv
  <2>3. pq # <<>> /\ shown' = Head(pq)
    BY <2>1 DEF Present
  <2>4. Head(pq) \in Nat /\ shown < Head(pq)
    BY <2>2, <2>3, TakeFirst
  <2> QED
    BY <2>2, <2>3, <2>4
<1> QED
  BY <1>1, Invariant, PTL DEF Spec, DisplayOrder


=============================================================================
