------------------------- MODULE SingleSlotLinkProofs -------------------------
(***************************************************************************)
(* Proofs about SingleSlotLink for every kind of link and any number of     *)
(* calls and timeouts: its types, that the views a frame generator hands    *)
(* out stay valid, that a call made when everything asked before has been   *)
(* answered gets its own result although earlier calls were given up, and   *)
(* that the link implements SlotService.                                    *)
(***************************************************************************)
EXTENDS SingleSlotLink, TLAPS

USE KindsAssumption, BoundsAssumption

----------------------------------------------------------------------------
(* The inductive invariant                                                  *)

\* Types alone, part by part.
ClientOK ==
  /\ kind \in {"submit", "upscale", "encode"} /\ kind \in Kinds /\ keeps \in BOOLEAN
  /\ pc \in {"idle", "copying", "publish", "waiting", "closed"}
  /\ seq \in Nat /\ call \in Pics /\ timeouts \in 0..MaxTimeouts
  /\ given \in [to : Pics, gen : BOOLEAN, shows : Pics]
  /\ clean \in BOOLEAN

SharedOK ==
  /\ req \in Nat /\ ack \in Nat /\ quit \in BOOLEAN
  /\ word \in [ok : BOOLEAN, gen : BOOLEAN]
  /\ inBuf \in Pics /\ out \in [0..Regions - 1 -> Pics]

HostOK ==
  /\ hpc \in {"polling", "reading", "working", "writing", "answering", "exited", "dead"}
  /\ taken \in Nat /\ job \in Pics /\ dst \in 0..Regions - 1
  /\ served \in BOOLEAN

\* A call being prepared is not counted yet.
Prepares == pc \in {"copying", "publish"}

\* The numbers: a request is at most one ahead of _seq, and no number is ahead of
\* the calls made; a host at work has taken a request without an answer.
Busy == hpc \in {"reading", "working", "writing", "answering"}

SeqInv ==
  /\ ack <= req /\ seq <= req /\ req <= call
  /\ Prepares => seq < call
  /\ pc = "waiting" => req >= 1
  /\ kind # "encode" => req = seq
  /\ req <= seq + 1 /\ (kind = "encode" /\ pc = "waiting" => req = seq + 1)
  /\ taken <= req /\ (Busy => ack < taken)

\* The region being written is that of a request without an answer, and views are of
\* requests with one; only a frame generator hands out views.
ViewInv ==
  /\ hpc = "writing" => \E r \in ack + 1..req : dst = r % Regions
  /\ kind # "submit" => views = {}
  /\ views \subseteq [of : 1..ack, shows : Pics]
  /\ ViewsStayValid

\* Where the picture of a call that began on a settled link is: nobody else touches
\* the link until it returns.
CleanInv ==
  clean =>
    /\ Prepares => Settled
    /\ pc \in {"publish", "waiting"} => inBuf = call
    /\ pc = "waiting" =>
         /\ Busy => ack # req
         /\ hpc \in {"reading", "working", "writing"} => job = call
         /\ hpc = "writing" => dst = req % Regions
         /\ hpc = "answering" \/ ack = req => (word.gen => out[req % Regions] = call)

\* No picture is of a call that has not been made.
PastInv ==
  /\ inBuf <= call /\ job <= call
  /\ \A i \in 0..Regions - 1 : out[i] <= call

IInv == ClientOK /\ SharedOK /\ HostOK /\ SeqInv /\ ViewInv /\ CleanInv /\ PastInv

----------------------------------------------------------------------------
(* Lemmas                                                                   *)

\* Every number names a region.
LEMMA RegionOf ==
  ASSUME NEW s \in Nat
  PROVE  s % Regions \in 0..Regions - 1
<1>1. CASE Regions = 4
  BY <1>1
<1>2. CASE Regions = 1
  BY <1>2
<1> QED
  BY <1>1, <1>2 DEF Regions

\* Two requests share a region of the ring only if they are Regions apart.
LEMMA RegionsApart ==
  ASSUME NEW s \in Nat, NEW t \in Nat, s < t, t < s + Regions
  PROVE  s % Regions # t % Regions
<1>1. CASE Regions = 4
  BY <1>1
<1>2. CASE Regions = 1
  BY <1>2
<1> QED
  BY <1>1, <1>2 DEF Regions

\* A part of the invariant stays as long as what it speaks of does.
LEMMA Untouched ==
  /\ ClientOK /\ UNCHANGED client => ClientOK'
  /\ SharedOK /\ UNCHANGED <<kind, control, files>> => SharedOK'
  /\ HostOK /\ UNCHANGED <<kind, host>> => HostOK'
  /\ SeqInv /\ UNCHANGED <<kind, req, ack, pc, seq, call, hpc, taken>> => SeqInv'
  /\ ViewInv /\ UNCHANGED <<kind, req, ack, views, out, hpc, dst>> => ViewInv'
  /\ PastInv /\ UNCHANGED <<kind, call, inBuf, job, out>> => PastInv'
  /\ CleanInv /\ UNCHANGED <<kind, clean, pc, req, ack, seq, hpc, inBuf, call, job, dst, word, out>>
       => CleanInv'
<1> USE DEF client, control, files, host
<1>1. ClientOK /\ UNCHANGED client => ClientOK'
  BY DEF ClientOK
<1>2. SharedOK /\ UNCHANGED <<kind, control, files>> => SharedOK'
  BY DEF SharedOK, Regions
<1>3. HostOK /\ UNCHANGED <<kind, host>> => HostOK'
  BY DEF HostOK, Regions
<1>4. SeqInv /\ UNCHANGED <<kind, req, ack, pc, seq, call, hpc, taken>> => SeqInv'
  BY DEF SeqInv, Prepares, Busy
<1>5. ViewInv /\ UNCHANGED <<kind, req, ack, views, out, hpc, dst>> => ViewInv'
  BY DEF ViewInv, ViewsStayValid, Regions
<1>6. PastInv /\ UNCHANGED <<kind, call, inBuf, job, out>> => PastInv'
  BY DEF PastInv, Regions
<1>7. CleanInv /\ UNCHANGED <<kind, clean, pc, req, ack, seq, hpc, inBuf, call, job, dst, word,
                              out>>
        => CleanInv'
  BY DEF CleanInv, Prepares, Settled, Busy, Regions
<1> QED
  BY <1>1, <1>2, <1>3, <1>4, <1>5, <1>6, <1>7

LEMMA InitInvariant == Init => IInv
<1> SUFFICES ASSUME Init PROVE IInv
  OBVIOUS
<1> USE DEF Init
<1>1. ClientOK
  <2>1. kind \in {"submit", "upscale", "encode"} /\ kind \in Kinds
    OBVIOUS
  <2>2. keeps \in BOOLEAN
    OBVIOUS
  <2>3. clean \in BOOLEAN /\ seq \in Nat /\ call \in Pics /\ timeouts \in 0..MaxTimeouts
    BY DEF Pics
  <2>4. given \in [to : Pics, gen : BOOLEAN, shows : Pics]
    BY DEF Pics
  <2> QED
    BY <2>1, <2>2, <2>3, <2>4 DEF ClientOK
<1>2. SharedOK
  <2>1. quit \in BOOLEAN /\ word \in [ok : BOOLEAN, gen : BOOLEAN]
    OBVIOUS
  <2>2. req \in Nat /\ ack \in Nat /\ inBuf \in Pics /\ out \in [0..Regions - 1 -> Pics]
    BY DEF Pics
  <2> QED
    BY <2>1, <2>2 DEF SharedOK
<1>3. HostOK
  <2>1. dst \in 0..Regions - 1
    BY DEF Regions
  <2>2. served \in BOOLEAN
    OBVIOUS
  <2> QED
    BY <2>1, <2>2 DEF HostOK, Pics
<1>4. SeqInv
  BY DEF SeqInv, Prepares, Busy
<1>5. ViewInv
  BY DEF ViewInv, ViewsStayValid
<1>6. CleanInv /\ PastInv
  BY DEF CleanInv, PastInv, Prepares, Settled, Busy
<1> QED
  BY <1>1, <1>2, <1>3, <1>4, <1>5, <1>6 DEF IInv

----------------------------------------------------------------------------
(* The client's steps                                                       *)

LEMMA ClientStep == IInv /\ Client => IInv'
<1> SUFFICES ASSUME IInv, Client PROVE IInv'
  OBVIOUS
<1>t. /\ req \in Nat /\ ack \in Nat /\ seq \in Nat /\ call \in Nat /\ call <= MaxCalls
      /\ taken \in Nat
  BY DEF IInv, ClientOK, SharedOK, HostOK, Pics
<1>p. 0 \in Pics /\ inBuf \in Nat /\ job \in Nat /\ \A i \in 0..Regions - 1 : out[i] \in Nat
  BY DEF IInv, SharedOK, HostOK, Pics
<1>u. UNCHANGED <<kind, keeps, ack, word, out, host, hpc, taken, job, dst, served>>
  BY DEF Client, Begin, EndCopy, PublishCounted, PublishUncounted, Return, Refused, WaitRaises,
     Close,
         control, files, host
<1>h. HostOK' /\ Regions' = Regions
  BY <1>u, Untouched DEF IInv, Regions
<1> USE DEF IInv
<1>1. CASE Begin
  <2>u. UNCHANGED <<req, quit, seq, timeouts, given, views>>
    BY <1>1 DEF Begin, control
  <2>1. ClientOK' /\ SharedOK'
    <3>1. call' \in Pics /\ inBuf' \in Pics
      BY <1>1, <1>t DEF Begin, Pics
    <3>2. clean' \in BOOLEAN
      BY <1>1, Zenon DEF Begin, Settled
    <3> QED
      BY <1>1, <1>u, <1>h, <2>u, <3>1, <3>2 DEF Begin, ClientOK, SharedOK
  <2>2. SeqInv' /\ ViewInv'
    BY <1>1, <1>t, <1>u, <2>u, Untouched DEF Begin, SeqInv, Prepares, Busy
  <2>3. clean' => Settled
    BY <1>1, Zenon DEF Begin
  <2>4. CleanInv'
    BY <1>1, <1>u, <2>u, <2>3 DEF Begin, CleanInv, Prepares, Settled
  <2>5. PastInv'
    BY <1>1, <1>t, <1>p, <1>u, <1>h DEF Begin, PastInv
  <2> QED
    BY <1>h, <2>1, <2>2, <2>4, <2>5
<1>2. CASE EndCopy
  <2>u. UNCHANGED <<req, quit, seq, call, timeouts, given, views, clean>>
    BY <1>2 DEF EndCopy, control
  <2>1. ClientOK' /\ SharedOK'
    BY <1>2, <1>u, <1>h, <2>u DEF EndCopy, ClientOK, SharedOK
  <2>2. SeqInv' /\ ViewInv'
    BY <1>2, <1>t, <1>u, <2>u, Untouched DEF EndCopy, SeqInv, Prepares, Busy
  <2>3. CleanInv'
    BY <1>2, <1>u, <2>u DEF EndCopy, CleanInv, Prepares, Settled
  <2>4. PastInv'
    BY <1>2, <1>t, <1>u, <1>h, <2>u DEF EndCopy, PastInv
  <2> QED
    BY <1>h, <2>1, <2>2, <2>3, <2>4
<1>3. CASE PublishCounted \/ PublishUncounted
  <2>u. /\ UNCHANGED <<quit, inBuf, call, timeouts, given, views, clean>>
        /\ pc = "publish" /\ pc' = "waiting" /\ req' = seq + 1
        /\ seq' = IF kind = "encode" THEN seq ELSE seq + 1
    BY <1>3 DEF PublishCounted, PublishUncounted, files
  <2>1. ClientOK' /\ SharedOK'
    BY <1>t, <1>u, <1>h, <2>u DEF ClientOK, SharedOK
  <2>2. SeqInv'
    BY <1>t, <1>u, <2>u DEF SeqInv, Prepares, Busy
  <2>r. req <= seq + 1
    BY DEF SeqInv
  <2>3. ViewInv'
    <3>1. ASSUME hpc = "writing" PROVE \E r \in ack + 1..seq + 1 : dst = r % Regions
      BY <1>t, <2>r, <3>1 DEF ViewInv
    <3>2. ASSUME NEW v \in views, seq + 1 - v.of < Regions PROVE out[v.of % Regions] = v.shows
      <4>1. v.of \in Nat /\ Regions \in Nat
        BY <1>t DEF ViewInv, Regions
      <4>2. req - v.of < Regions
        BY <1>t, <2>r, <3>2, <4>1
      <4> QED
        BY <4>2 DEF ViewInv, ViewsStayValid
    <3>3. ViewsStayValid'
      <4> HIDE DEF IInv
      <4> SUFFICES ASSUME NEW v \in views', req' - v.of < Regions'
                   PROVE  out'[v.of % Regions'] = v.shows
        BY DEF ViewsStayValid
      <4>0. Regions' = Regions /\ views' = views /\ req' = seq + 1
        BY <1>h, <2>u, Zenon
      <4>1. v.of \in Nat /\ Regions \in Nat
        BY <1>t, <4>0 DEF IInv, ViewInv, Regions
      <4>2. v \in views /\ seq + 1 - v.of < Regions
        BY <1>t, <4>0, <4>1
      <4>3. out[v.of % Regions] = v.shows
        BY <3>2, <4>2
      <4> QED
        BY <1>u, <1>h, <4>3
    <3>4. /\ kind # "submit" => views = {}
          /\ views \subseteq [of : 1..ack, shows : Pics]
      BY DEF ViewInv
    <3> HIDE DEF IInv
    <3>5. (hpc = "writing" => \E r \in ack + 1..req : dst = r % Regions)'
      BY <1>u, <1>h, <2>u, <3>1
    <3> QED
      BY <1>u, <2>u, <3>3, <3>4, <3>5 DEF ViewInv
  <2>4. PastInv'
    BY <1>u, <1>h, <2>u DEF PastInv
  <2>5. CleanInv'
    <3>1. clean => req = seq /\ ack = req /\ ~Busy
      BY <1>t, <2>u DEF SeqInv, CleanInv, Prepares, Settled
    <3> QED
      BY <1>t, <1>u, <2>u, <3>1 DEF CleanInv, Prepares, Busy
  <2> QED
    BY <1>h, <2>1, <2>2, <2>3, <2>4, <2>5
<1>4. CASE Return
  <2>u. /\ UNCHANGED <<req, quit, inBuf, call, timeouts, clean>>
        /\ pc = "waiting" /\ pc' = "idle" /\ ack = req
        /\ seq' = IF kind = "encode" THEN seq + 1 ELSE seq
    BY <1>4 DEF Return, Answered, CountAnswer, control, files
  <2> DEFINE shown == out[req % Regions]
  <2>s. shown \in Pics /\ 0 \in Pics /\ req >= 1
    <3>1. req % Regions \in 0..Regions - 1
      BY <1>t, RegionOf
    <3>2. shown \in Pics
      BY <3>1 DEF SharedOK
    <3>3. 0 \in Pics
      BY DEF Pics
    <3> QED
      BY <2>u, <3>2, <3>3 DEF SeqInv
  <2>g. /\ given' = [to |-> call, gen |-> word.gen, shows |-> IF word.gen THEN shown ELSE 0]
        /\ views' = views \/ (kind = "submit" /\ views' = views \cup {[of |-> req, shows |-> shown]})
    BY <1>4, Zenon DEF Return
  <2>1. ClientOK' /\ SharedOK'
    <3> HIDE DEF shown
    <3>1. call \in Pics /\ word.gen \in BOOLEAN
      BY DEF ClientOK, SharedOK
    <3>2. given' \in [to : Pics, gen : BOOLEAN, shows : Pics]
      BY <2>s, <2>g, <3>1
    <3> QED
      BY <1>t, <1>u, <1>h, <2>u, <3>2 DEF ClientOK, SharedOK
  <2>2. SeqInv'
    BY <1>t, <1>u, <2>u DEF SeqInv, Prepares, Busy
  <2>3. ViewInv'
    <3>1. hpc # "writing"
      BY <1>t, <2>u DEF SeqInv, Busy
    <3>2. views' \subseteq [of : 1..ack, shows : Pics]
      <4> HIDE DEF shown
      <4> QED BY <1>t, <2>u, <2>s, <2>g DEF ViewInv
    <3>3. ViewsStayValid'
      BY <1>u, <1>h, <2>u, <2>g DEF ViewInv, ViewsStayValid
    <3> QED
      BY <1>u, <2>g, <3>1, <3>2, <3>3 DEF ViewInv
  <2>4. PastInv'
    BY <1>u, <1>h, <2>u DEF PastInv
  <2>5. CleanInv'
    BY <1>u, <2>u DEF CleanInv, Prepares
  <2> QED
    BY <1>h, <2>1, <2>2, <2>3, <2>4, <2>5
<1>5. CASE Refused
  <2>u. /\ UNCHANGED <<req, inBuf, call, timeouts, given, views, clean>>
        /\ pc = "waiting" /\ pc' \in {"idle", "closed"} /\ ack = req
        /\ seq' = IF kind = "encode" THEN seq + 1 ELSE seq
    BY <1>5 DEF Refused, Answered, CountAnswer, GiveUp, files
  <2>q. quit' \in BOOLEAN
    BY <1>5, Zenon DEF Refused, GiveUp, SharedOK
  <2>1. ClientOK' /\ SharedOK'
    BY <1>t, <1>u, <1>h, <2>u, <2>q DEF ClientOK, SharedOK
  <2>2. SeqInv' /\ ViewInv'
    BY <1>t, <1>u, <2>u, Untouched DEF SeqInv, Prepares, Busy
  <2>3. PastInv'
    BY <1>u, <1>h, <2>u DEF PastInv
  <2>4. CleanInv'
    BY <1>u, <2>u DEF CleanInv, Prepares
  <2> QED
    BY <1>h, <2>1, <2>2, <2>3, <2>4
<1>6. CASE WaitRaises
  <2>u. /\ UNCHANGED <<req, inBuf, seq, call, given, views, clean>>
        /\ pc = "waiting" /\ pc' \in {"idle", "closed"}
    BY <1>6 DEF WaitRaises, GiveUp, files
  <2>q. quit' \in BOOLEAN
    BY <1>6, Zenon DEF WaitRaises, GiveUp, SharedOK
  <2>w. /\ timeouts' \in 0..MaxTimeouts
        /\ timeouts' = 0 => hpc = "dead" /\ timeouts = 0
    BY <1>6 DEF WaitRaises, ClientOK
  <2>1. ClientOK' /\ SharedOK'
    BY <1>t, <1>u, <1>h, <2>u, <2>q, <2>w DEF ClientOK, SharedOK
  <2>2. SeqInv' /\ ViewInv'
    BY <1>t, <1>u, <2>u, Untouched DEF SeqInv, Prepares, Busy
  <2>3. PastInv'
    BY <1>u, <1>h, <2>u DEF PastInv
  <2>4. CleanInv'
    BY <1>u, <2>u DEF CleanInv, Prepares
  <2> QED
    BY <1>h, <2>1, <2>2, <2>3, <2>4
<1>7. CASE Close
  <2>u. /\ UNCHANGED <<req, inBuf, seq, call, timeouts, given, views, clean>>
        /\ pc = "idle" /\ pc' = "closed" /\ quit' = TRUE
    BY <1>7 DEF Close, files
  <2>1. ClientOK' /\ SharedOK'
    BY <1>u, <1>h, <2>u DEF ClientOK, SharedOK
  <2>2. SeqInv' /\ ViewInv'
    BY <1>t, <1>u, <2>u, Untouched DEF SeqInv, Prepares, Busy
  <2>3. CleanInv' /\ PastInv'
    BY <1>u, <1>h, <2>u DEF CleanInv, PastInv, Prepares
  <2> QED
    BY <1>h, <2>1, <2>2, <2>3
<1> QED
  BY <1>1, <1>2, <1>3, <1>4, <1>5, <1>6, <1>7 DEF Client

----------------------------------------------------------------------------
(* The host's steps                                                         *)

LEMMA HostStep == IInv /\ (Host \/ HostDies) => IInv'
<1> SUFFICES ASSUME IInv, Host \/ HostDies PROVE IInv'
  OBVIOUS
<1>t. /\ req \in Nat /\ ack \in Nat /\ seq \in Nat /\ call \in Nat /\ taken \in Nat
  BY DEF IInv, ClientOK, SharedOK, HostOK, Pics
<1>p. 0 \in Pics /\ inBuf \in Nat /\ job \in Nat /\ \A i \in 0..Regions - 1 : out[i] \in Nat
  BY DEF IInv, SharedOK, HostOK, Pics
<1>u. /\ UNCHANGED <<client, req, quit, inBuf>>
      /\ UNCHANGED <<kind, keeps, pc, seq, call, timeouts, given, views, clean>>
  BY DEF Host, Notice, ReadIn, WorkFails, MakesNothing, StartWriting, EndWriting, AckCurrent,
     AckTaken,
         Quit, HostDies, control, files, client
<1>c. ClientOK' /\ Regions' = Regions
  BY <1>u, Untouched DEF IInv, Regions
<1>r. req % Regions \in 0..Regions - 1
  BY <1>t, RegionOf
<1> USE DEF IInv
<1>1. CASE Notice
  <2>u. /\ UNCHANGED <<control, files, ack, word, out, dst, served>>
        /\ hpc = "polling" /\ hpc' = "reading" /\ req # ack /\ taken' = req /\ job' = inBuf
    BY <1>1 DEF Notice, control, files
  <2>1. SharedOK' /\ HostOK'
    BY <1>t, <1>u, <1>c, <2>u, Untouched DEF HostOK, SharedOK
  <2>2. SeqInv'
    BY <1>t, <1>u, <2>u DEF SeqInv, Prepares, Busy
  <2>3. ViewInv'
    BY <1>u, <1>c, <2>u DEF ViewInv, ViewsStayValid
  <2>4. PastInv'
    BY <1>t, <1>p, <1>u, <1>c, <2>u DEF PastInv
  <2>5. CleanInv'
    BY <1>t, <1>u, <1>c, <2>u DEF CleanInv, SeqInv, Prepares, Settled, Busy
  <2> QED
    BY <1>c, <2>1, <2>2, <2>3, <2>4, <2>5
<1>2. CASE ReadIn
  <2>u. /\ UNCHANGED <<control, files, ack, word, out, dst, served, taken>>
        /\ hpc = "reading" /\ hpc' = "working" /\ job' = IF inBuf = job THEN job ELSE 0
    BY <1>2 DEF ReadIn, control, files
  <2>j. job' \in Pics
    BY <2>u DEF HostOK, Pics
  <2>1. SharedOK' /\ HostOK'
    BY <1>u, <1>c, <2>u, <2>j, Untouched DEF HostOK
  <2>2. SeqInv'
    BY <1>t, <1>u, <2>u DEF SeqInv, Prepares, Busy
  <2>3. ViewInv'
    BY <1>u, <1>c, <2>u DEF ViewInv, ViewsStayValid
  <2>4. PastInv'
    BY <1>t, <1>p, <1>u, <1>c, <2>u DEF PastInv
  <2>5. CleanInv'
    BY <1>t, <1>u, <1>c, <2>u DEF CleanInv, SeqInv, Prepares, Settled, Busy
  <2> QED
    BY <1>c, <2>1, <2>2, <2>3, <2>4, <2>5
<1>3. CASE WorkFails \/ MakesNothing
  <2>u. /\ UNCHANGED <<ack, inBuf, out, dst, taken, job>>
        /\ hpc = "working" /\ hpc' = "answering"
    BY <1>3 DEF WorkFails, MakesNothing, files
  <2>w. word' \in [ok : BOOLEAN, gen : BOOLEAN] /\ ~word'.gen /\ served' \in BOOLEAN
    <3>1. \E b \in BOOLEAN : word' = [ok |-> b, gen |-> FALSE]
      BY <1>3, Zenon DEF WorkFails, MakesNothing
    <3>2. served' \in BOOLEAN
      BY <1>3, Zenon DEF WorkFails, MakesNothing
    <3> HIDE DEF IInv
    <3> QED
      BY <3>1, <3>2
  <2>1. SharedOK' /\ HostOK'
    BY <1>u, <1>c, <2>u, <2>w DEF HostOK, SharedOK
  <2>2. SeqInv'
    BY <1>t, <1>u, <2>u DEF SeqInv, Prepares, Busy
  <2>3. ViewInv'
    BY <1>u, <1>c, <2>u DEF ViewInv, ViewsStayValid
  <2>4. PastInv'
    BY <1>t, <1>p, <1>u, <1>c, <2>u DEF PastInv
  <2>5. CleanInv'
    BY <1>u, <1>c, <2>u, <2>w DEF CleanInv, SeqInv, Prepares, Settled, Busy
  <2> QED
    BY <1>c, <2>1, <2>2, <2>3, <2>4, <2>5
<1>4. CASE StartWriting
  <2>u. /\ UNCHANGED <<ack, word, taken, job, served>>
        /\ hpc = "working" /\ hpc' = "writing" /\ dst' = req % Regions
        /\ out' = [out EXCEPT ![req % Regions] = 0]
    BY <1>4 DEF StartWriting, control
  <2>b. ack < req
    BY <1>t, <2>u DEF SeqInv, Busy
  <2>1. SharedOK' /\ HostOK'
    <3>1. out' \in [0..Regions - 1 -> Pics]
      <4>1. 0 \in Pics
        BY DEF Pics
      <4> QED
        BY <2>u, <4>1 DEF SharedOK
    <3> QED
      BY <1>u, <1>c, <1>r, <2>u, <3>1 DEF HostOK, SharedOK
  <2>2. SeqInv'
    BY <1>t, <1>u, <2>u DEF SeqInv, Prepares, Busy
  <2>3. ViewInv'
    <3>1. \E r \in ack + 1..req : dst' = r % Regions
      BY <1>t, <2>u, <2>b
    <3>2. ASSUME NEW v \in views, req - v.of < Regions PROVE out'[v.of % Regions] = v.shows
      <4>1. v.of \in Nat /\ v.of < req /\ Regions \in Nat /\ req < v.of + Regions
        BY <1>t, <2>b, <3>2 DEF ViewInv, Regions
      <4>2. v.of % Regions # req % Regions /\ v.of % Regions \in 0..Regions - 1
        BY <1>t, <4>1, RegionsApart, RegionOf
      <4> QED
        BY <2>u, <3>2, <4>2 DEF ViewInv, ViewsStayValid, SharedOK
    <3>3. ViewsStayValid'
      BY <1>u, <1>c, <3>2 DEF ViewsStayValid
    <3>4. (kind # "submit" => views = {}) /\ views \subseteq [of : 1..ack, shows : Pics]
      BY DEF ViewInv
    <3> HIDE DEF IInv
    <3> QED
      BY <1>u, <1>c, <2>u, <3>1, <3>3, <3>4 DEF ViewInv
  <2>4. PastInv'
    BY <1>t, <1>p, <1>u, <1>c, <2>u DEF PastInv
  <2>5. CleanInv'
    BY <1>t, <1>u, <1>c, <2>u DEF CleanInv, SeqInv, Prepares, Settled, Busy
  <2> QED
    BY <1>c, <2>1, <2>2, <2>3, <2>4, <2>5
<1>5. CASE EndWriting
  <2>u. /\ UNCHANGED <<ack, taken, job, dst>>
        /\ hpc = "writing" /\ hpc' = "answering"
        /\ out' = [out EXCEPT ![dst] = job]
    BY <1>5 DEF EndWriting
  <2>w. word' \in [ok : BOOLEAN, gen : BOOLEAN] /\ served' \in BOOLEAN
    BY <1>5, Zenon DEF EndWriting
  <2>1. SharedOK' /\ HostOK'
    <3>1. out' \in [0..Regions - 1 -> Pics]
      BY <2>u DEF SharedOK, HostOK
    <3> QED
      BY <1>u, <1>c, <2>u, <2>w, <3>1 DEF HostOK, SharedOK
  <2>2. SeqInv'
    BY <1>t, <1>u, <2>u DEF SeqInv, Prepares, Busy
  <2>3. ViewInv'
    <3>1. PICK r \in ack + 1..req : dst = r % Regions
      BY <2>u DEF ViewInv
    <3>2. ASSUME NEW v \in views, req - v.of < Regions PROVE out'[v.of % Regions] = v.shows
      <4>1. v.of \in Nat /\ v.of < r /\ r \in Nat /\ Regions \in Nat /\ r < v.of + Regions
        BY <1>t, <3>2 DEF ViewInv, Regions
      <4>2. v.of % Regions # dst /\ v.of % Regions \in 0..Regions - 1
        BY <3>1, <4>1, RegionsApart, RegionOf
      <4> QED
        BY <2>u, <3>2, <4>2 DEF ViewInv, ViewsStayValid, SharedOK
    <3>3. ViewsStayValid'
      BY <1>u, <1>c, <3>2 DEF ViewsStayValid
    <3>4. (kind # "submit" => views = {}) /\ views \subseteq [of : 1..ack, shows : Pics]
      BY DEF ViewInv
    <3> HIDE DEF IInv
    <3> QED
      BY <1>u, <1>c, <2>u, <3>3, <3>4 DEF ViewInv
  <2>4. PastInv'
    BY <1>t, <1>p, <1>u, <1>c, <2>u DEF PastInv
  <2>5. CleanInv'
    <3>1. out'[dst] = job
      BY <2>u DEF SharedOK, HostOK
    <3> QED
      BY <1>u, <1>c, <2>u, <3>1 DEF CleanInv, SeqInv, Prepares, Settled, Busy
  <2> QED
    BY <1>c, <2>1, <2>2, <2>3, <2>4, <2>5
<1>6. CASE AckCurrent \/ AckTaken
  <2>u. /\ UNCHANGED <<word, files, out, taken, job, dst, served>>
        /\ hpc = "answering" /\ hpc' = "polling" /\ (ack' = req \/ ack' = taken)
    BY <1>6 DEF AckCurrent, AckTaken, files
  <2>b. ack' \in Nat /\ ack <= ack' /\ ack' <= req
    BY <1>t, <2>u DEF SeqInv, Busy
  <2>1. SharedOK' /\ HostOK'
    BY <1>u, <1>c, <2>u, <2>b DEF HostOK, SharedOK
  <2>2. SeqInv'
    BY <1>t, <1>u, <2>u, <2>b DEF SeqInv, Prepares, Busy
  <2>3. ViewInv'
    <3>1. ViewsStayValid'
      BY <1>u, <1>c, <2>u DEF ViewInv, ViewsStayValid
    <3>2. views \subseteq [of : 1..ack', shows : Pics]
      BY <1>t, <2>b DEF ViewInv
    <3> QED
      BY <1>u, <2>u, <3>1, <3>2 DEF ViewInv
  <2>4. PastInv'
    BY <1>t, <1>p, <1>u, <1>c, <2>u DEF PastInv
  <2>5. CleanInv'
    BY <1>t, <1>u, <1>c, <2>u DEF CleanInv, SeqInv, Prepares, Settled, Busy
  <2> QED
    BY <1>c, <2>1, <2>2, <2>3, <2>4, <2>5
<1>7. CASE Quit \/ HostDies
  <2>u. /\ UNCHANGED <<control, files, ack, word, out, taken, job, dst, served>>
        /\ hpc' \in {"exited", "dead"} /\ (hpc = "dead" => hpc' = "dead")
    BY <1>7 DEF Quit, HostDies, control, files
  <2>1. SharedOK' /\ HostOK'
    BY <1>u, <1>c, <2>u, Untouched DEF HostOK
  <2>2. SeqInv'
    BY <1>t, <1>u, <2>u DEF SeqInv, Prepares, Busy
  <2>3. ViewInv'
    BY <1>u, <1>c, <2>u DEF ViewInv, ViewsStayValid
  <2>4. PastInv'
    BY <1>t, <1>p, <1>u, <1>c, <2>u DEF PastInv
  <2>5. CleanInv'
    BY <1>t, <1>u, <1>c, <2>u DEF CleanInv, SeqInv, Prepares, Settled, Busy
  <2> QED
    BY <1>c, <2>1, <2>2, <2>3, <2>4, <2>5
<1> QED
  BY <1>1, <1>2, <1>3, <1>4, <1>5, <1>6, <1>7 DEF Host

----------------------------------------------------------------------------
(* Theorems                                                                 *)

LEMMA Inductive == IInv /\ [Next]_vars => IInv'
<1> SUFFICES ASSUME IInv, [Next]_vars PROVE IInv'
  OBVIOUS
<1>1. CASE UNCHANGED vars
  <2>1. /\ UNCHANGED <<client, control, files, host>>
        /\ UNCHANGED <<kind, pc, seq, call, timeouts, views, clean>>
        /\ UNCHANGED <<req, ack, word, inBuf, out, hpc, taken, job, dst>>
    BY <1>1 DEF vars, client, control, files, host
  <2> QED
    BY <2>1, Untouched DEF IInv
<1> QED
  BY <1>1, ClientStep, HostStep DEF Next

LEMMA Invariant == Spec => []IInv
BY InitInvariant, Inductive, PTL DEF Spec

\* What SingleSlotLink calls consistent: every word the two processes share stays in
\* range, the host never acknowledges a number nobody asked under, and a view that
\* nsdlssg.py:146-147 hands out shows its picture until its region comes round again,
\* whatever timed out, answered late or died in between.
THEOREM ConsistentLink == Spec => []Consistent
<1>1. IInv => Consistent
  <2> SUFFICES ASSUME IInv PROVE Consistent
    OBVIOUS
  <2> USE DEF IInv
  <2>1. /\ req \in Pics /\ ack \in 0..req /\ seq \in 0..req /\ taken \in 0..req
    BY DEF ClientOK, SharedOK, HostOK, SeqInv, Pics
  <2>2. views \subseteq [of : 1..req, shows : Pics]
    <3>1. req \in Nat /\ ack \in Nat /\ ack <= req
      BY DEF SharedOK, SeqInv
    <3> QED
      BY <3>1 DEF ViewInv
  <2>3. TypeOK
    BY <2>1, <2>2 DEF TypeOK, ClientOK, SharedOK, HostOK
  <2> QED
    BY <2>3 DEF Consistent, ViewInv
<1> QED
  BY <1>1, Invariant, PTL

\* A call made when everything asked before has been answered and counted returns its
\* own picture, however many calls were given up before.
THEOREM BackInStepAlways == Spec => BackInStep
<1>1. IInv /\ [Next]_vars => (given' # given /\ clean => IsOwn)
  <2> SUFFICES ASSUME IInv, [Next]_vars, given' # given, clean
               PROVE  IsOwn
    OBVIOUS
  <2>1. Return
    BY DEF Next, Client, Host, Begin, EndCopy, PublishCounted, PublishUncounted, Refused,
       WaitRaises,
           Close, Notice, ReadIn, WorkFails, MakesNothing, StartWriting, EndWriting, AckCurrent, AckTaken,
           Quit, HostDies, vars, client
  <2>2. pc = "waiting" /\ ack = req
    BY <2>1 DEF Return, Answered
  <2>3. word.gen => out[req % Regions] = call
    BY <2>2 DEF IInv, CleanInv
  <2>4. given'.shows = IF word.gen THEN out[req % Regions] ELSE 0
    BY <2>1, Zenon DEF Return
  <2> QED
    BY <2>3, <2>4 DEF IsOwn
<1> QED
  BY <1>1, Invariant, PTL DEF Spec, BackInStep

----------------------------------------------------------------------------
(* The refinement of SlotService                                            *)

\* The caller's view does not change with steps that leave its variables and the
\* sequence words alone.
LEMMA Stutters ==
  UNCHANGED <<pc, req, ack, seq, call, clean, given>> => UNCHANGED Service!vars
BY DEF Service!vars, Standing, Settled

\* A request that has been published is unsettled until its answer is counted.
LEMMA ClientSimulates == IInv /\ Client => [Service!Next]_Service!vars
<1> SUFFICES ASSUME IInv, Client PROVE Service!Next \/ UNCHANGED Service!vars
  OBVIOUS
<1>t. req \in Nat /\ ack \in Nat /\ seq \in Nat /\ call \in Nat
  BY DEF IInv, ClientOK, SharedOK, Pics
<1> USE DEF Standing, Settled
<1>1. CASE Begin
  <2>1. /\ pc = "idle" /\ pc' = "copying" /\ call' = call + 1 /\ UNCHANGED given
        /\ clean' = (ack = req /\ seq = req)
    BY <1>1, Zenon DEF Begin, Settled
  <2>2. Standing \in {"ready", "owing"} /\ Standing' = "asked" /\ clean' = (Standing = "ready")
    BY <2>1
  <2> QED
    BY <2>1, <2>2 DEF Service!Next, Service!Ask
<1>2. CASE EndCopy \/ PublishCounted \/ PublishUncounted
  <2>1. /\ Standing = "asked" /\ Standing' = "asked"
        /\ UNCHANGED <<call, clean, given>>
    BY <1>2 DEF EndCopy, PublishCounted, PublishUncounted
  <2> QED
    BY <2>1 DEF Service!vars
<1>3. CASE Return
  <2>1. /\ pc = "waiting" /\ pc' = "idle" /\ ack = req /\ UNCHANGED <<ack, req, call, clean>>
        /\ seq' = IF kind = "encode" THEN seq + 1 ELSE seq
    BY <1>3 DEF Return, Answered, CountAnswer, control
  <2>2. Standing = "asked" /\ Standing' = "ready"
    BY <1>t, <2>1 DEF IInv, SeqInv
  <2> DEFINE shown == out[req % Regions]
  <2>3. given' = [to |-> call, gen |-> word.gen, shows |-> IF word.gen THEN shown ELSE 0]
    BY <1>3, Zenon DEF Return
  <2>4. shown \in 0..call
    <3>1. req % Regions \in 0..Regions - 1
      BY <1>t, RegionOf
    <3> QED
      BY <1>t, <3>1 DEF IInv, SharedOK, PastInv, Pics
  <2>5. clean /\ word.gen => shown = call
    BY <2>1 DEF IInv, CleanInv
  <2>6. word.gen \in BOOLEAN
    BY DEF IInv, SharedOK
  <2> HIDE DEF shown
  <2>7. CASE word.gen
    <3>1. shown \in Service!Shown
      BY <2>4, <2>5, <2>7 DEF Service!Shown
    <3>2. given' = [to |-> call, gen |-> TRUE, shows |-> shown]
      BY <2>3, <2>6, <2>7
    <3> QED
      BY <2>1, <2>2, <3>1, <3>2 DEF Service!Next, Service!Answer
  <2>8. CASE ~word.gen
    <3>1. given' = [to |-> call, gen |-> FALSE, shows |-> 0]
      BY <2>3, <2>6, <2>8
    <3> QED
      BY <2>1, <2>2, <3>1 DEF Service!Next, Service!Answer
  <2> QED
    BY <2>7, <2>8
<1>4. CASE Refused
  <2>1. /\ pc = "waiting" /\ pc' \in {"idle", "closed"} /\ ack = req
        /\ UNCHANGED <<ack, req, call, clean, given>>
        /\ seq' = IF kind = "encode" THEN seq + 1 ELSE seq
    BY <1>4 DEF Refused, Answered, CountAnswer, GiveUp
  <2>2. Standing = "asked" /\ Standing' \in {"ready", "closed"}
    BY <1>t, <2>1 DEF IInv, SeqInv
  <2> QED
    BY <2>1, <2>2 DEF Service!Next, Service!Refuse
<1>5. CASE WaitRaises
  <2>1. /\ pc = "waiting" /\ pc' \in {"idle", "closed"} /\ ack # req
        /\ UNCHANGED <<ack, req, call, clean, given>>
    BY <1>5 DEF WaitRaises, Answered, GiveUp
  <2>2. Standing = "asked" /\ Standing' \in {"owing", "closed"}
    BY <1>t, <2>1
  <2> QED
    BY <2>1, <2>2 DEF Service!Next, Service!Abandon
<1>6. CASE Close
  <2>1. pc = "idle" /\ pc' = "closed" /\ UNCHANGED <<call, clean, given>>
    BY <1>6 DEF Close
  <2>2. Standing \in {"ready", "owing"} /\ Standing' = "closed"
    BY <2>1
  <2> QED
    BY <2>1, <2>2 DEF Service!Next, Service!Close
<1> QED
  BY <1>1, <1>2, <1>3, <1>4, <1>5, <1>6 DEF Client

\* Of the host's steps the caller sees one: the late answer to an abandoned request.
LEMMA HostSimulates == IInv /\ (Host \/ HostDies) => [Service!Next]_Service!vars
<1> SUFFICES ASSUME IInv, Host \/ HostDies PROVE Service!Next \/ UNCHANGED Service!vars
  OBVIOUS
<1>u. UNCHANGED <<pc, req, seq, call, clean, given>>
  BY DEF Host, Notice, ReadIn, WorkFails, MakesNothing, StartWriting, EndWriting, AckCurrent,
     AckTaken, Quit, HostDies, control, client
<1>1. CASE UNCHANGED ack
  BY <1>1, <1>u, Stutters
<1>2. CASE ~UNCHANGED ack
  <2>1. hpc = "answering"
    BY <1>2 DEF Host, Notice, ReadIn, WorkFails, MakesNothing, StartWriting, EndWriting,
       AckCurrent, AckTaken, Quit, HostDies, control
  <2>2. ack # req
    <3>1. req \in Nat /\ ack \in Nat /\ taken \in Nat /\ ack < taken /\ taken <= req
      BY <2>1 DEF IInv, SharedOK, HostOK, SeqInv, Busy
    <3> QED
      BY <3>1
  <2>3. CASE pc = "idle" /\ Settled'
    <3>1. Standing = "owing" /\ Standing' = "ready"
      BY <1>u, <2>2, <2>3 DEF Standing, Settled
    <3> QED
      BY <1>u, <3>1 DEF Service!Next, Service!Settle
  <2>4. CASE ~(pc = "idle" /\ Settled')
    <3>1. Standing' = Standing
      BY <1>u, <2>2, <2>4 DEF Standing, Settled
    <3> QED
      BY <1>u, <3>1 DEF Service!vars
  <2> QED
    BY <2>3, <2>4
<1> QED
  BY <1>1, <1>2

\* The one-slot links implement SlotService for each client's way of counting:
\* whatever times out, is answered late, fails or dies, a call that was made with
\* nothing owed returns its own picture or none, any other at worst an earlier one, and
\* after one answer nothing is owed (nsdlssg.py:142-161, rtx_vsr_upscaler.py:149-165,
\* yt_bridge.py:105-123).
THEOREM ImplementsService == Spec => ServiceSpec
<1>1. Init => Service!Init
  BY DEF Init, Service!Init, Standing, Settled
<1>2. IInv /\ [Next]_vars => [Service!Next]_Service!vars
  <2>1. UNCHANGED vars => UNCHANGED Service!vars
    BY Stutters DEF vars, control, client
  <2> QED
    BY <2>1, ClientSimulates, HostSimulates DEF Next
<1> QED
  BY <1>1, <1>2, Invariant, PTL DEF Spec, ServiceSpec, Service!Spec

=============================================================================
