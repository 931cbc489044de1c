------------------------------ MODULE WorkerLink ------------------------------
(***************************************************************************)
(* The neural-render worker link: the Python client (app/worker.py), the    *)
(* reference adapter (hosts/worker_adapter.cpp) that shares three mapped    *)
(* files with it, and the inner worker behind the adapter's pipes           *)
(* (external).  The client and the adapter are separate processes that      *)
(* never lock: everything hangs on the order in which the control words     *)
(* are written and on REQ_SEQ / ACK_SEQ.                                    *)
(*                                                                          *)
(* Pictures are the id of the call whose frame they come from (0: no whole  *)
(* picture, torn or blank).  A size is a number; work and output size are   *)
(* always asked for together and are one size here.  The seven tunables     *)
(* travel with the size and are not told apart.                             *)
(***************************************************************************)
EXTENDS Integers, Sequences

CONSTANTS
  Sizes,                 \* sizes a caller may ask for
  Ceiling,               \* largest size the mapped files were made for
  MaxCalls,              \* bound: calls made after construction
  MaxTimeouts,           \* bound: waits that run into their timeout
  MaxRejects,            \* bound: resizes the inner worker refuses
  MayCrash,              \* whether the adapter or the inner worker may die
  KeepAfterFrame,        \* the caller goes on after process() raised
  KeepAfterReconfigure   \* the caller goes on after reconfigure() raised

ASSUME SizesAssumption == Sizes \subseteq Nat \ {0} /\ Ceiling \in Nat
ASSUME BoundsAssumption ==
  MaxCalls \in Nat /\ MaxTimeouts \in Nat /\ MaxRejects \in Nat
ASSUME PolicyAssumption ==
  /\ MayCrash \in BOOLEAN
  /\ KeepAfterFrame \in BOOLEAN
  /\ KeepAfterReconfigure \in BOOLEAN

VARIABLES
  ctl,        \* the mapped control block
  inBuf,      \* the mapped input frame: [image, size]
  outBuf,     \* the mapped output frame: the picture's id
  pc,         \* where the client thread is
  seq,        \* Worker._seq
  size,       \* Worker.w/.h
  out,        \* Worker.out_w/.out_h
  call,       \* the call being made: [kind, id, size]
  timeouts,   \* timeouts so far
  returned,   \* what the last completed call returned: [id, ok, image]
  apc,        \* where the adapter's main loop is
  next,       \* the adapter's `next`
  cur,        \* the adapter's curW/curH/curOutW/curOutH (0: not primed)
  taken,      \* what it serves: [mode, ok so far, size]
  toInner,    \* the pipe to the inner worker
  fromInner,  \* the pipe back
  inner,      \* the inner worker: [up, size]
  rejects     \* refusals so far

shared  == <<ctl, inBuf, outBuf>>
client  == <<pc, seq, size, out, call, timeouts, returned>>
adapter == <<apc, next, cur, taken>>
pipes   == <<toInner, fromInner, inner, rejects>>
vars    == <<shared, client, adapter, pipes>>

Call(kind, id, s) == [kind |-> kind, id |-> id, size |-> s]
primed == cur # 0

Init ==
  /\ ctl = [state |-> 0, req_seq |-> 0, req_mode |-> 0, size |-> 0,
            ack_seq |-> 0, ok |-> FALSE, out |-> 0, quit |-> FALSE]
  /\ inBuf = [image |-> 0, size |-> 0]
  /\ outBuf = 0
  /\ pc = "starting"
  /\ seq = 0
  /\ \E s \in Sizes : s <= Ceiling /\ call = Call("configure", 0, s)
  /\ size = 0 /\ out = 0
  /\ timeouts = 0
  /\ returned = [id |-> 0, ok |-> FALSE, image |-> 0]
  /\ apc = "starting" /\ next = 1 /\ cur = 0
  /\ taken = [mode |-> 0, ok |-> FALSE, size |-> 0]
  /\ toInner = <<>> /\ fromInner = <<>> /\ rejects = 0
  /\ inner = [up |-> "none", size |-> 0]

----------------------------------------------------------------------------
(* The client thread                                                        *)

InConstructor == call.id = 0

\* __init__ saw state = 1 and makes the first reconfigure itself.
Started ==
  /\ pc = "starting"
  /\ ctl.state = 1
  /\ pc' = "fields"
  /\ UNCHANGED <<shared, seq, size, out, call, timeouts, returned, adapter, pipes>>

\* __init__ gives up, closes and raises: the process died or never got ready.
StartFailed ==
  /\ pc = "starting"
  /\ ctl.state # 1
  /\ apc = "dead" \/ timeouts < MaxTimeouts
  /\ pc' = "closed"
  /\ ctl' = [ctl EXCEPT !.quit = TRUE]
  /\ UNCHANGED <<inBuf, outBuf, seq, size, out, call, timeouts, returned,
                 adapter, pipes>>

\* process(rgba): the picture is of the size the client believes in.
BeginProcess ==
  /\ pc = "idle"
  /\ call.id < MaxCalls
  /\ call' = Call("frame", call.id + 1, size)
  /\ inBuf' = [image |-> 0, size |-> 0]
  /\ pc' = "copying"
  /\ UNCHANGED <<ctl, outBuf, seq, size, out, timeouts, returned, adapter, pipes>>

\* The copy into the mapped file is not atomic for the adapter.
EndCopy ==
  /\ pc = "copying"
  /\ inBuf' = [image |-> call.id, size |-> call.size]
  /\ pc' = "publish"
  /\ UNCHANGED <<ctl, outBuf, seq, size, out, call, timeouts, returned,
                 adapter, pipes>>

\* reconfigure(): too large a size raises ValueError before anything is written.
BeginReconfigure ==
  /\ pc = "idle"
  /\ call.id < MaxCalls
  /\ \E s \in Sizes :
       /\ call' = Call("configure", call.id + 1, s)
       /\ pc' = IF s <= Ceiling THEN "fields" ELSE "idle"
  /\ UNCHANGED <<shared, seq, size, out, timeouts, returned, adapter, pipes>>

WriteFields ==
  /\ pc = "fields"
  /\ ctl' = [ctl EXCEPT !.size = call.size]
  /\ pc' = "publish"
  /\ UNCHANGED <<inBuf, outBuf, seq, size, out, call, timeouts, returned,
                 adapter, pipes>>

\* REQ_MODE, then REQ_SEQ = _seq + 1; _seq itself only moves with the ack.
Publish ==
  /\ pc = "publish"
  /\ ctl' = [ctl EXCEPT !.req_mode = IF call.kind = "configure" THEN 1 ELSE 0,
                        !.req_seq = seq + 1]
  /\ pc' = "waiting"
  /\ UNCHANGED <<inBuf, outBuf, seq, size, out, call, timeouts, returned,
                 adapter, pipes>>

\* Fault: an acknowledgement of the request before passes for this one's.
AckedByThePrevious == ctl.ack_seq >= seq

\* _wait_ack's condition.
Acked == ctl.ack_seq = seq + 1

\* reconfigure() after its ack.
Reconfigured ==
  /\ pc = "waiting" /\ call.kind = "configure" /\ Acked /\ ctl.ok
  /\ seq' = seq + 1
  /\ size' = call.size
  /\ out' = ctl.out
  /\ returned' = [id |-> call.id, ok |-> TRUE, image |-> 0]
  /\ pc' = "idle"
  /\ UNCHANGED <<shared, call, timeouts, adapter, pipes>>

\* Where an exception out of the call leaves the caller: a constructor that
\* raises leaves nobody who could close what it started.
AfterFailure ==
  IF InConstructor THEN "lost"
  ELSE IF (IF call.kind = "frame" THEN KeepAfterFrame ELSE KeepAfterReconfigure)
       THEN "idle" ELSE "gone"

\* The request was refused: reconfigure raises, process returns None.
Refused ==
  /\ pc = "waiting" /\ Acked /\ ~ctl.ok
  /\ seq' = seq + 1
  /\ returned' = [id |-> call.id, ok |-> FALSE, image |-> 0]
  /\ pc' = IF call.kind = "frame" THEN "idle" ELSE AfterFailure
  /\ UNCHANGED <<shared, size, out, call, timeouts, adapter, pipes>>

FrameAcked ==
  /\ pc = "waiting" /\ call.kind = "frame" /\ Acked /\ ctl.ok
  /\ seq' = seq + 1
  /\ pc' = "reading"
  /\ UNCHANGED <<shared, size, out, call, timeouts, returned, adapter, pipes>>

\* process() copies OUT at the output size the client believes in.
ReadOut ==
  /\ pc = "reading"
  /\ returned' = [id |-> call.id, ok |-> TRUE, image |-> outBuf]
  /\ pc' = "idle"
  /\ UNCHANGED <<shared, seq, size, out, call, timeouts, adapter, pipes>>

\* Fault: the number is taken back on a failure.
RaiseTakingBack ==
  /\ pc' = AfterFailure
  /\ seq' = seq - 1
  /\ UNCHANGED <<shared, size, out, call, returned, adapter, pipes>>

\* _wait_ack raises; _seq is NOT advanced, so the next request takes the
\* same number.  Whether the caller goes on is its own policy.
Raise ==
  /\ pc' = AfterFailure
  /\ UNCHANGED <<shared, seq, size, out, call, returned, adapter, pipes>>

TimeOut ==
  /\ pc = "waiting" /\ ~Acked
  /\ apc # "dead"
  /\ timeouts < MaxTimeouts
  /\ timeouts' = timeouts + 1
  /\ Raise

FoundDead ==
  /\ pc = "waiting" /\ ~Acked
  /\ apc = "dead"
  /\ UNCHANGED timeouts
  /\ Raise

\* close(): QUIT, then wait 5 s, then kill.
Close ==
  /\ pc \in {"idle", "gone"}
  /\ pc' = "closed"
  /\ ctl' = [ctl EXCEPT !.quit = TRUE]
  /\ UNCHANGED <<inBuf, outBuf, seq, size, out, call, timeouts, returned,
                 adapter, pipes>>

Kill ==
  /\ pc = "closed"
  /\ apc # "dead"
  /\ apc' = "dead"
  /\ UNCHANGED <<shared, client, next, cur, taken, pipes>>

Client ==
  \/ Started \/ StartFailed \/ BeginProcess \/ EndCopy \/ BeginReconfigure
  \/ WriteFields \/ Publish \/ Reconfigured \/ Refused \/ FrameAcked \/ ReadOut
  \/ TimeOut \/ FoundDead \/ Close \/ Kill

----------------------------------------------------------------------------
(* The adapter's main loop                                                  *)

AdapterReady ==
  /\ apc = "starting"
  /\ apc' = "polling"
  /\ ctl' = [ctl EXCEPT !.state = 1]
  /\ UNCHANGED <<inBuf, outBuf, client, next, cur, taken, pipes>>

AdapterQuits ==
  /\ apc = "polling"
  /\ ctl.quit
  /\ apc' = "dead"
  /\ UNCHANGED <<shared, client, next, cur, taken, pipes>>

\* Fault: the loop does not compare with REQ_SEQ.
RequestedBlindly == apc = "polling" /\ ~ctl.quit

\* The loop's condition for serving the next request.
Requested == apc = "polling" /\ ~ctl.quit /\ next <= ctl.req_seq

\* The first reconfigure spawns the inner worker and does not wait for it.
TakeFirst ==
  /\ Requested
  /\ ctl.req_mode = 1 /\ ctl.size <= Ceiling /\ ~primed
  /\ toInner' = Append(toInner, [kind |-> "video", size |-> ctl.size, image |-> 0])
  /\ inner' = [inner EXCEPT !.up = "up"]
  /\ cur' = ctl.size
  /\ taken' = [mode |-> 1, ok |-> TRUE, size |-> ctl.size]
  /\ apc' = "answering"
  /\ UNCHANGED <<shared, client, next, fromInner, rejects>>

\* ... or the process cannot be started: state 2 and exit.
SpawnFails ==
  /\ MayCrash
  /\ Requested
  /\ ctl.req_mode = 1 /\ ctl.size <= Ceiling /\ ~primed
  /\ ctl' = [ctl EXCEPT !.state = 2]
  /\ apc' = "dead"
  /\ UNCHANGED <<inBuf, outBuf, client, next, cur, taken, pipes>>

\* ... or the process is gone before its configure can be written: the request
\* fails, nothing is primed and the echoed size is still 0.
FirstWriteFails ==
  /\ MayCrash
  /\ Requested
  /\ ctl.req_mode = 1 /\ ctl.size <= Ceiling /\ ~primed
  /\ inner' = [inner EXCEPT !.up = "dead"]
  /\ taken' = [mode |-> 1, ok |-> FALSE, size |-> ctl.size]
  /\ apc' = "answering"
  /\ UNCHANGED <<shared, client, next, cur, toInner, fromInner, rejects>>

TakeResize ==
  /\ Requested
  /\ ctl.req_mode = 1 /\ ctl.size <= Ceiling /\ primed /\ inner.up # "dead"
  /\ toInner' = Append(toInner, [kind |-> "resize", size |-> ctl.size, image |-> 0])
  /\ taken' = [mode |-> 1, ok |-> FALSE, size |-> ctl.size]
  /\ apc' = "resizing"
  /\ UNCHANGED <<shared, client, next, cur, fromInner, inner, rejects>>

\* A frame is written to the pipe at the adapter's own size, straight from
\* the mapped file.
TakeFrame ==
  /\ Requested
  /\ ctl.req_mode = 0 /\ primed /\ inner.up # "dead"
  /\ toInner' = Append(toInner,
       [kind |-> "frame", size |-> cur,
        image |-> IF inBuf.size = cur THEN inBuf.image ELSE 0])
  /\ taken' = [mode |-> 0, ok |-> FALSE, size |-> cur]
  /\ apc' = "rendering"
  /\ UNCHANGED <<shared, client, next, cur, fromInner, inner, rejects>>

\* Nobody reads the pipe any more: WritePipe fails and nothing is awaited.
WriteFails ==
  /\ Requested
  /\ primed /\ inner.up = "dead"
  /\ ctl.req_mode = 1 => ctl.size <= Ceiling
  /\ taken' = [mode |-> ctl.req_mode, ok |-> FALSE, size |-> cur]
  /\ apc' = "answering"
  /\ UNCHANGED <<shared, client, next, cur, pipes>>

\* Fault: the new size is only echoed, not adopted.
ResizeAckedOldSize ==
  /\ apc = "resizing"
  /\ fromInner # <<>> /\ Head(fromInner).kind = "ack"
  /\ taken' = [taken EXCEPT !.ok = Head(fromInner).ok]
  /\ fromInner' = Tail(fromInner)
  /\ apc' = "answering"
  /\ UNCHANGED <<shared, client, next, cur, toInner, inner, rejects>>

\* InnerConfigure's wait loop: the first acknowledgement it meets is its answer.
ResizeAcked ==
  /\ apc = "resizing"
  /\ fromInner # <<>> /\ Head(fromInner).kind = "ack"
  /\ taken' = [taken EXCEPT !.ok = Head(fromInner).ok]
  /\ cur' = IF Head(fromInner).ok THEN taken.size ELSE cur
  /\ fromInner' = Tail(fromInner)
  /\ apc' = "answering"
  /\ UNCHANGED <<shared, client, next, toInner, inner, rejects>>

\* Fault: the reply loop does not step over acknowledgements.
SkipNothing == FALSE /\ UNCHANGED vars

\* The frame's reply loop steps over acknowledgements of earlier configures.
SkipAck ==
  /\ apc = "rendering"
  /\ fromInner # <<>> /\ Head(fromInner).kind = "ack"
  /\ fromInner' = Tail(fromInner)
  /\ UNCHANGED <<shared, client, adapter, toInner, inner, rejects>>

\* Fault: the reply's header is taken for the whole reply.
FrameReplyUnread ==
  /\ apc = "rendering"
  /\ fromInner # <<>> /\ Head(fromInner).kind = "out"
  /\ apc' = "answering"
  /\ fromInner' = Tail(fromInner)
  /\ taken' = [taken EXCEPT !.ok = Head(fromInner).ok]
  /\ UNCHANGED <<shared, client, next, cur, toInner, inner, rejects>>

\* The reply's header: ok announces a picture in the pipe.
FrameReply ==
  /\ apc = "rendering"
  /\ fromInner # <<>> /\ Head(fromInner).kind = "out"
  /\ IF Head(fromInner).ok
       THEN /\ apc' = "filling"
            /\ outBuf' = 0
            /\ UNCHANGED fromInner
       ELSE /\ apc' = "answering"
            /\ fromInner' = Tail(fromInner)
            /\ UNCHANGED outBuf
  /\ UNCHANGED <<ctl, inBuf, client, next, cur, taken, toInner, inner, rejects>>

\* ReadPipe(out, byteCount) has finished.
FillOut ==
  /\ apc = "filling" /\ fromInner # <<>>
  /\ outBuf' = Head(fromInner).image
  /\ taken' = [taken EXCEPT !.ok = TRUE]
  /\ fromInner' = Tail(fromInner)
  /\ apc' = "answering"
  /\ UNCHANGED <<ctl, inBuf, client, next, cur, toInner, inner, rejects>>

\* A broken pipe ends any of the reads with ok = false.
PipeBroken ==
  /\ inner.up = "dead"
  /\ \/ apc \in {"resizing", "rendering"} /\ fromInner = <<>>
     \/ apc = "filling" /\ fromInner # <<>>
  /\ apc' = "answering"
  /\ fromInner' = IF apc = "filling" THEN Tail(fromInner) ELSE fromInner
  /\ UNCHANGED <<shared, client, next, cur, taken, toInner, inner, rejects>>

\* OK, then ACK_SEQ = next; a reconfigure also echoes the output size.
Answer ==
  /\ apc = "answering"
  /\ ctl' = [ctl EXCEPT !.ok = taken.ok, !.ack_seq = next,
                        !.out = IF taken.mode = 1 THEN cur ELSE @]
  /\ next' = next + 1
  /\ apc' = "polling"
  /\ UNCHANGED <<inBuf, outBuf, client, cur, taken, pipes>>

AdapterDies ==
  /\ MayCrash
  /\ apc # "dead"
  /\ apc' = "dead"
  /\ UNCHANGED <<shared, client, next, cur, taken, pipes>>

\* What the loop does as long as it runs ...
AdapterWorks ==
  \/ AdapterReady \/ AdapterQuits \/ TakeFirst
  \/ TakeResize \/ TakeFrame \/ WriteFails \/ ResizeAcked \/ SkipAck \/ FrameReply \/ FillOut
  \/ PipeBroken \/ Answer

\* ... and what may go wrong when it starts the inner worker.
Adapter == AdapterWorks \/ SpawnFails \/ FirstWriteFails

----------------------------------------------------------------------------
(* The inner worker: external, as far as the adapter's reads tell           *)

Reply(kind, ok, image) ==
  /\ fromInner' = Append(fromInner, [kind |-> kind, ok |-> ok, image |-> image])
  /\ toInner' = Tail(toInner)
  /\ UNCHANGED <<shared, client, adapter>>

InnerConfigured ==
  /\ toInner # <<>> /\ inner.up = "up"
  /\ Head(toInner).kind \in {"video", "resize"}
  /\ Reply("ack", TRUE, 0)
  /\ inner' = [inner EXCEPT !.size = Head(toInner).size]
  /\ UNCHANGED rejects

InnerRefuses ==
  /\ toInner # <<>> /\ inner.up = "up"
  /\ Head(toInner).kind = "resize"
  /\ rejects < MaxRejects
  /\ Reply("ack", FALSE, 0)
  /\ rejects' = rejects + 1
  /\ UNCHANGED inner

\* A frame of its own size is rendered, or swallowed while priming.
InnerRenders ==
  /\ toInner # <<>> /\ inner.up = "up"
  /\ Head(toInner).kind = "frame" /\ Head(toInner).size = inner.size
  /\ \E ok \in BOOLEAN : Reply("out", ok, Head(toInner).image)
  /\ UNCHANGED <<inner, rejects>>

\* A frame of another size leaves it reading bytes that never come.
InnerStarves ==
  /\ toInner # <<>> /\ inner.up = "up"
  /\ Head(toInner).kind = "frame" /\ Head(toInner).size # inner.size
  /\ inner' = [inner EXCEPT !.up = "starved"]
  /\ UNCHANGED <<shared, client, adapter, toInner, fromInner, rejects>>

InnerDies ==
  /\ MayCrash
  /\ inner.up \in {"up", "starved"}
  /\ inner' = [inner EXCEPT !.up = "dead"]
  /\ UNCHANGED <<shared, client, adapter, toInner, fromInner, rejects>>

InnerWorks == InnerConfigured \/ InnerRefuses \/ InnerRenders \/ InnerStarves
Inner == InnerWorks \/ InnerDies

Next == Client \/ Adapter \/ AdapterDies \/ Inner

Spec == Init /\ [][Next]_vars
----------------------------------------------------------------------------
(* Properties                                                               *)

Frames == 0..(MaxCalls + 1)

Control ==
  [state : {0, 1, 2}, req_seq : Nat, req_mode : {0, 1}, size : Sizes \cup {0},
   ack_seq : Nat, ok : BOOLEAN, out : Sizes \cup {0}, quit : BOOLEAN]

Work == [mode : {0, 1}, ok : BOOLEAN, size : Sizes \cup {0}]

Messages == [kind : {"video", "resize", "frame"}, size : Sizes \cup {0},
             image : Frames]
Replies  == [kind : {"ack", "out"}, ok : BOOLEAN, image : Frames]

\* Somebody has given up on a request, or been refused.
Disturbed == timeouts > 0 \/ rejects > 0

SharedOK ==
  /\ ctl \in Control
  /\ inBuf \in [image : Frames, size : Sizes \cup {0}]
  /\ outBuf \in Frames

ClientOK ==
  /\ pc \in {"starting", "idle", "copying", "fields", "publish", "waiting",
             "reading", "gone", "lost", "closed"}
  /\ seq \in Nat
  /\ size \in Sizes \cup {0} /\ out \in Sizes \cup {0}
  /\ call \in [kind : {"frame", "configure"}, id : Frames,
              size : Sizes \cup {0}]
  /\ timeouts \in 0..MaxTimeouts
  /\ returned \in [id : Frames, ok : BOOLEAN, image : Frames]

AdapterOK ==
  /\ apc \in {"starting", "polling", "resizing", "rendering", "filling",
              "answering", "dead"}
  /\ next \in Nat
  /\ cur \in Sizes \cup {0}
  /\ taken \in Work

PipesOK ==
  /\ toInner \in Seq(Messages)
  /\ fromInner \in Seq(Replies)
  /\ inner \in [up : {"none", "up", "starved", "dead"}, size : Sizes \cup {0}]
  /\ rejects \in 0..MaxRejects

\* Every variable of the link keeps its type (app/worker.py's fields, the
\* control block of docs/worker-protocol.md, the adapter's locals).
TypeOK == SharedOK /\ ClientOK /\ AdapterOK /\ PipesOK

\* docs/worker-protocol.md:67: "A frame request (mode 0) expects `IN` to hold
\* one RGBA8 frame at the CURRENT `work_w`/`work_h` (the ones set by the last
\* successful reconfigure)": what the adapter is about to put on the pipe is
\* a whole picture of the adapter's size.
\* (Here and below: until a wait has timed out or a resize has been refused.)
FrameIsAtCurrentSize ==
  ~Disturbed /\ Requested /\ ctl.req_mode = 0 /\ primed => inBuf.image # 0 /\ inBuf.size = cur

\* The sizes the client, the adapter and the echo stand at are one size
\* whenever the client is between calls: worker.py's _reconfigure trusts the
\* acknowledgement for this.
SizesAgree ==
  ~Disturbed /\ pc = "idle" /\ apc # "dead" => size = cur /\ out = size

\* The adapter's comment (worker_adapter.cpp:89-92) says an early
\* acknowledgement of the first configure "is skipped wherever it's next
\* encountered (the frame-reply loop below, or a later resize's ack wait)":
\* then no refused resize is taken for an accepted one and the inner worker
\* never gets a frame of another size than it expects, which would leave it
\* reading forever.
NeverStarved == inner.up # "starved"

\* It never does, as long as nothing has timed out or been refused.
ReaderIsFed == ~Disturbed => NeverStarved

\* docs/worker-protocol.md:62-64: "The very first request after `state`
\* becomes 1 must be a reconfigure", and none asks for more than the mapped
\* files hold.  The adapter's two refusals (worker_adapter.cpp:131-134 and
\* 152-153) are therefore never needed, not even when timed-out requests
\* overwrite each other's words in the slot; they have no action here.
NothingToRefuse ==
  Requested => IF ctl.req_mode = 1 THEN ctl.size <= Ceiling ELSE primed

\* The sizes, the pipes and the slot as every party believes them to be.
PartiesAgree == FrameIsAtCurrentSize /\ SizesAgree /\ ReaderIsFed /\ NothingToRefuse

\* ACK_SEQ follows REQ_SEQ and is never more than one behind it, however many
\* waits time out and however often a number is used again.
AckFollowsRequest ==
  ctl.ack_seq <= ctl.req_seq /\ ctl.req_seq <= ctl.ack_seq + 1

\* worker.py:150 copies OUT with no lock: from the moment the client has seen
\* its acknowledgement to the end of the copy the adapter does not write OUT,
\* whatever timed out before.
OutStableWhileRead == [][pc = "reading" => outBuf' = outBuf]_vars

\* worker.py:149-150 and docs/worker-protocol.md "Sequencing": the link is
\* the one-request service of WorkerService, every frame answered by its own
\* picture, whoever dies.
Service ==
  INSTANCE WorkerService WITH
    phase <- IF pc \in {"gone", "lost", "closed"} THEN "gone"
             ELSE IF InConstructor /\ pc # "idle" THEN "starting"
             ELSE IF pc = "idle" THEN "idle" ELSE "busy",
    request <- call,
    current <- size

ServiceSpec ==
  Service!Init /\ [][Service!Next \/ Disturbed']_<<Service!vars>>

\* The threads and processes keep running until they die, and the client's wait
\* loop looks whether the process is gone (worker.py:102).  Nothing makes a
\* process die or a start fail: deaths and failures are in no fair action, so no
\* stuck exchange is dissolved by one.  The client decides freely when to call,
\* so its first steps are not fair, and neither are its time-outs.
Fairness ==
  /\ WF_vars(AdapterWorks)
  /\ WF_vars(InnerWorks)
  /\ WF_vars(Started \/ EndCopy \/ WriteFields \/ Publish)
  /\ WF_vars(Reconfigured \/ Refused \/ FrameAcked \/ ReadOut \/ FoundDead)

FairSpec == Spec /\ Fairness

\* A call that is made ends, and with what the adapter says of it unless the
\* adapter died: the handshake and the two pipes cannot get stuck on each other.
\* A death is noticed along the whole chain where there is one: the inner
\* worker's by the adapter's broken pipe, which it still answers for, the
\* adapter's by its exit.
CallsAreAnswered ==
  \A n \in 0..MaxCalls :
    (pc = "waiting" /\ call.id = n) ~>
      Disturbed \/ (pc # "waiting" /\ (returned.id = n \/ apc = "dead"))
=============================================================================
