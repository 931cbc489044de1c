------------------------------ MODULE YtBridge ------------------------------
(***************************************************************************)
(* The browser bridge: the page's BridgeRenderer (extension/content.js),    *)
(* one connection's handler and Pipeline (app/yt_bridge.py) with its three  *)
(* stage threads behind single-slot mailboxes, the encode pool and the      *)
(* reply queue.  configure() runs in a thread of its own while the handler  *)
(* waits for it and the stages go on with frames they already have.         *)
(*                                                                          *)
(* A frame is its seq.  What a stage is configured for is a key (0: off);   *)
(* its object is the worker, the upscaler or the frame generator.           *)
(***************************************************************************)
EXTENDS Integers, SequencesExt

CONSTANTS
  Configs,      \* what the page may ask for: stage -> key
  Multiplier,   \* replies to a frame when frames are generated
  OutSize,      \* room in the reply queue
  MaxFrames,    \* bound: frames captured
  MaxConfigs,   \* bound: configurations sent
  MaxConns,     \* bound: sockets opened
  MaxFaults     \* bound: stages that do not start or refuse, joins that time out

Stages == {"dlss", "vsr", "fg"}

ASSUME ConfigsAssumption ==
  Configs \subseteq [Stages -> Nat] /\ Configs # {}
ASSUME BoundsAssumption ==
  /\ Multiplier \in Nat \ {0} /\ OutSize \in Nat
  /\ MaxFrames \in Nat /\ MaxFaults \in Nat
  /\ MaxConns \in Nat \ {0} /\ MaxConfigs \in Nat \ {0}
\* 16 in the code, where a frame has four replies at most.
ASSUME RoomAssumption == OutSize >= 2 * Multiplier + 1

VARIABLES
  page,       \* is the renderer alive
  conns,      \* sockets opened
  oldClose,   \* the replaced socket's close event has not come yet
  configs,    \* configurations sent
  sent,       \* the renderer's seq
  base,       \* history: what it was when the socket was opened
  pending,    \* its frames not answered yet
  newest,     \* history: the newest frame answered
  wire,       \* messages on their way to the bridge
  hpc,        \* where the handler is
  conf,       \* the configuration it received last
  acked,      \* how it was acknowledged: "none", "ok", "error"
  cpc,        \* the stage configure() rebuilds next
  lock,       \* stage -> who holds its lock: "free", "stage", "configure"
  object,     \* stage -> its object: [key, up]
  box,        \* stage -> what its mailbox holds (0: seen)
  phase,      \* stage -> "idle", "taken", "working" or "ended"
  item,       \* stage -> the frame it works on
  jobs,       \* the encode pool's jobs, those its two workers are at first
  outq,       \* the reply queue
  lost,       \* history: a reply found the queue full
  faults,     \* such faults so far
  late        \* history: a join timed out

browser  == <<page, conns, oldClose, configs, sent, base, pending, newest>>
handler  == <<hpc, conf, acked>>
threads  == <<box, phase, item>>
vars     == <<browser, wire, handler, cpc, lock, object, threads, jobs, outq, lost,
              faults, late>>

Absent == [key |-> 0, up |-> "absent"]
Off    == [s \in Stages |-> 0]
Frame(n)  == [kind |-> "frame", n |-> n, conf |-> Off]
Config(c) == [kind |-> "config", n |-> 0, conf |-> c]

\* A new connection: a Pipeline with idle stages.
Fresh ==
  /\ hpc' = "reading" /\ conf' = Off /\ acked' = "none"
  /\ cpc' = "none"
  /\ lock' = [s \in Stages |-> "free"]
  /\ object' = [s \in Stages |-> Absent]
  /\ box' = [s \in Stages |-> 0]
  /\ phase' = [s \in Stages |-> "idle"]
  /\ item' = [s \in Stages |-> 0]
  /\ jobs' = <<>> /\ outq' = <<>>

\* The socket opens and the first thing it sends is the pending configuration.
Init ==
  /\ page = TRUE /\ conns = 1 /\ oldClose = FALSE
  /\ configs = 1 /\ sent = 0 /\ base = 0 /\ pending = 0 /\ newest = 0
  /\ \E c \in Configs : wire = <<Config(c)>>
  /\ hpc = "reading" /\ conf = Off /\ acked = "none"
  /\ cpc = "none"
  /\ lock = [s \in Stages |-> "free"]
  /\ object = [s \in Stages |-> Absent]
  /\ box = [s \in Stages |-> 0]
  /\ phase = [s \in Stages |-> "idle"]
  /\ item = [s \in Stages |-> 0]
  /\ jobs = <<>> /\ outq = <<>>
  /\ lost = FALSE /\ faults = 0 /\ late = FALSE

----------------------------------------------------------------------------
(* The page                                                                 *)

\* Fault: one frame more than the bridge's queue was made for.
HasCreditOneMore == pending <= 2
\* _tick(): "answered strictly in order - drop rather than pile up".
HasCredit == pending < 2

Tick ==
  /\ page /\ sent < MaxFrames
  /\ HasCredit
  /\ sent' = sent + 1
  /\ pending' = pending + 1
  /\ wire' = Append(wire, Frame(sent + 1))
  /\ UNCHANGED <<page, conns, oldClose, configs, base, newest, handler, cpc, lock, object,
                 threads, jobs, outq, lost, faults, late>>

\* _sendConfigure() on an open socket.
SendConfigure ==
  /\ page /\ configs < MaxConfigs
  /\ configs' = configs + 1
  /\ \E c \in Configs : wire' = Append(wire, Config(c))
  /\ UNCHANGED <<page, conns, oldClose, sent, base, pending, newest, handler, cpc, lock,
                 object, threads, jobs, outq, lost, faults, late>>

\* _connect() with another URL, or after the socket was lost: a new socket, a
\* new Pipeline, the configuration first. The old one's close event comes when
\* it comes; nothing more is delivered on it.
Reconnect ==
  /\ page /\ conns < MaxConns /\ ~oldClose /\ configs < MaxConfigs
  /\ conns' = conns + 1 /\ oldClose' = TRUE
  /\ configs' = configs + 1 /\ base' = sent
  /\ \E c \in Configs : wire' = <<Config(c)>>
  /\ Fresh
  /\ UNCHANGED <<page, sent, pending, newest, lost, faults, late>>

\* Fault: the frames of the replaced socket stay counted.
OldSocketClosedKeepingPending ==
  /\ oldClose
  /\ oldClose' = FALSE
  /\ UNCHANGED <<page, conns, configs, sent, base, pending, newest, wire, handler, cpc, lock, object,
                 threads, jobs, outq, lost, faults, late>>

\* ws.onclose of the replaced socket clears the counter the new one uses.
OldSocketClosed ==
  /\ oldClose
  /\ oldClose' = FALSE
  /\ pending' = 0
  /\ UNCHANGED <<page, conns, configs, sent, base, newest, wire, handler, cpc, lock, object,
                 threads, jobs, outq, lost, faults, late>>

\* destroy().
Leave ==
  /\ page
  /\ page' = FALSE
  /\ UNCHANGED <<conns, oldClose, configs, sent, base, pending, newest, wire, handler, cpc, lock,
                 object, threads, jobs, outq, lost, faults, late>>

\* sender() sends the oldest reply, _onOutput() receives it; the last of a
\* frame's replies is the real one. On a closed socket they go nowhere.
Deliver ==
  /\ outq # <<>> /\ hpc \notin {"closing", "ended"}
  /\ outq' = Tail(outq)
  /\ LET r == Head(outq) IN
       IF page /\ r.idx = r.count - 1
       THEN /\ pending' = IF pending = 0 THEN 0 ELSE pending - 1
            /\ newest' = IF r.n > newest THEN r.n ELSE newest
       ELSE UNCHANGED <<pending, newest>>
  /\ UNCHANGED <<page, conns, oldClose, configs, sent, base, wire, handler, cpc, lock, object,
                 threads, jobs, lost, faults, late>>

Page == Tick \/ SendConfigure \/ Reconnect \/ OldSocketClosed \/ Leave \/ Deliver

----------------------------------------------------------------------------
(* The handler                                                              *)

\* Fault: a mailbox that is full keeps what it has.
PutIfEmpty(b, s, n) == IF b[s] = 0 THEN [b EXCEPT ![s] = n] ELSE b
\* Mailbox.put(): replaces whatever is waiting.
Put(b, s, n) == [b EXCEPT ![s] = n]

ReceiveFrame ==
  /\ hpc = "reading" /\ wire # <<>> /\ Head(wire).kind = "frame"
  /\ wire' = Tail(wire)
  /\ box' = Put(box, "dlss", Head(wire).n)
  /\ UNCHANGED <<browser, handler, cpc, lock, object, phase, item, jobs, outq, lost,
                 faults, late>>

\* asyncio.to_thread(pipe.configure): the handler reads nothing meanwhile.
ReceiveConfig ==
  /\ hpc = "reading" /\ wire # <<>> /\ Head(wire).kind = "config"
  /\ wire' = Tail(wire)
  /\ conf' = Head(wire).conf
  /\ hpc' = "configuring" /\ cpc' = "dlss"
  /\ UNCHANGED <<browser, acked, lock, object, threads, jobs, outq, lost, faults, late>>

\* The page is gone and all it sent is read: close() stops the stages and waits.
Disconnected ==
  /\ hpc = "reading" /\ wire = <<>> /\ ~page
  /\ hpc' = "closing"
  /\ UNCHANGED <<browser, wire, conf, acked, cpc, lock, object, threads, jobs, outq,
                 lost, faults, late>>

----------------------------------------------------------------------------
(* Pipeline.configure()                                                     *)

\* What rebuilding stage s for key k may come to: the object, whether an
\* exception is raised, whether it is a fault.
Works(k)     == [to |-> [key |-> k, up |-> "on"], ok |-> TRUE, fault |-> FALSE]
Kept(o)      == [to |-> o, ok |-> TRUE, fault |-> FALSE]
Raised(o, f) == [to |-> o, ok |-> FALSE, fault |-> f]
Dead(k)      == [key |-> k, up |-> "dead"]

\* Disabled: closed and forgotten.
SwitchedOff == [to |-> Absent, ok |-> TRUE, fault |-> FALSE]

\* The worker: closed and made again for another size, else reconfigured, which
\* may be refused and which a closed one cannot do.
WorkerFor(o, k) ==
  IF o = Absent THEN {Works(k), Raised(Absent, TRUE)}
  ELSE IF o.key # k THEN {Works(k), Raised(Dead(o.key), TRUE)}
  ELSE IF o.up = "dead" THEN {Raised(o, FALSE)}
  ELSE {Kept(o), Raised(o, TRUE)}

\* The upscaler: notes its key, then starts its host; the same key again is
\* nothing to do.
UpscalerFor(o, k) ==
  IF o # Absent /\ o.key = k THEN {Kept(o)}
  ELSE {Works(k), Raised(Dead(k), TRUE)}

\* The frame generator: the old one closed, the new one made.
GeneratorFor(o, k) ==
  IF o # Absent /\ o.key = k THEN {Kept(o)}
  ELSE {Works(k), Raised(IF o = Absent THEN Absent ELSE Dead(o.key), TRUE)}

Rebuilt(s, o, k) ==
  IF k = 0 THEN {SwitchedOff}
  ELSE CASE s = "dlss" -> WorkerFor(o, k)
         [] s = "vsr"  -> UpscalerFor(o, k)
         [] s = "fg"   -> GeneratorFor(o, k)

AfterStage(s) == CASE s = "dlss" -> "vsr" [] s = "vsr" -> "fg" [] s = "fg" -> "none"

\* `with self._..._lock': the old object is closed or reconfigured from here on.
Acquire(s) ==
  /\ cpc = s /\ lock[s] = "free"
  /\ lock' = [lock EXCEPT ![s] = "configure"]
  /\ UNCHANGED <<browser, wire, handler, cpc, object, threads, jobs, outq, lost, faults,
                 late>>

\* The end of the block.  An exception ends configure(): the later stages keep what
\* they have.
Rebuild(s) ==
  /\ cpc = s /\ lock[s] = "configure"
  /\ \E r \in Rebuilt(s, object[s], conf[s]) :
       /\ r.fault => faults < MaxFaults
       /\ faults' = IF r.fault THEN faults + 1 ELSE faults
       /\ object' = [object EXCEPT ![s] = r.to]
       /\ cpc' = IF r.ok THEN AfterStage(s) ELSE "none"
       /\ IF cpc' = "none"
          THEN hpc' = "reading" /\ acked' = IF r.ok THEN "ok" ELSE "error"
          ELSE UNCHANGED <<hpc, acked>>
  /\ lock' = [lock EXCEPT ![s] = "free"]
  /\ UNCHANGED <<browser, wire, conf, threads, jobs, outq, lost, late>>

Configure == \E s \in Stages : Acquire(s) \/ Rebuild(s)

----------------------------------------------------------------------------
(* The stage threads                                                        *)

\* Mailbox.get(); set() of the stop event ends the thread once it is empty.
Take(s) ==
  /\ phase[s] = "idle" /\ box[s] # 0
  /\ item' = [item EXCEPT ![s] = box[s]]
  /\ box' = [box EXCEPT ![s] = 0]
  /\ phase' = [phase EXCEPT ![s] = "taken"]
  /\ UNCHANGED <<browser, wire, handler, cpc, lock, object, jobs, outq, lost, faults, late>>

EndStage(s) ==
  /\ phase[s] = "idle" /\ box[s] = 0 /\ hpc \in {"closing", "ended"}
  /\ phase' = [phase EXCEPT ![s] = "ended"]
  /\ UNCHANGED <<browser, wire, handler, cpc, lock, object, box, item, jobs, outq, lost,
                 faults, late>>

\* Fault: the stage works without its lock.
LockNotTaken(s) ==
  /\ phase[s] = "taken"
  /\ phase' = [phase EXCEPT ![s] = "working"]
  /\ UNCHANGED <<browser, wire, handler, cpc, lock, object, box, item, jobs, outq, lost,
                 faults, late>>

\* `with self._..._lock' of the stage.
Lock(s) ==
  /\ phase[s] = "taken" /\ lock[s] = "free"
  /\ lock' = [lock EXCEPT ![s] = "stage"]
  /\ phase' = [phase EXCEPT ![s] = "working"]
  /\ UNCHANGED <<browser, wire, handler, cpc, object, box, item, jobs, outq, lost,
                 faults, late>>

\* The frame is done: the lock is given back.
Idle(s) ==
  /\ lock' = [lock EXCEPT ![s] = "free"]
  /\ phase' = [phase EXCEPT ![s] = "idle"]
  /\ item' = [item EXCEPT ![s] = 0]

\* Worker and upscaler: with their result or, as everything they raise is
\* caught, with the frame as it came.
PassOn(s, t) ==
  /\ phase[s] = "working"
  /\ box' = Put(box, t, item[s])
  /\ Idle(s)
  /\ UNCHANGED <<browser, wire, handler, cpc, object, jobs, outq, lost, faults, late>>

\* The replies of a frame, the real one last.
Replies(n, count) == [i \in 1..count |-> [n |-> n, idx |-> i - 1, count |-> count]]

\* Frame generation: no generated frames while it primes or when submit()
\* raised. A pool that is shut down takes nothing (caught and logged).
Generate ==
  /\ phase["fg"] = "working"
  /\ \E count \in {1} \cup (IF object["fg"].up = "on" THEN {Multiplier} ELSE {}) :
       jobs' = IF hpc = "ended" THEN jobs ELSE jobs \o Replies(item["fg"], count)
  /\ Idle("fg")
  /\ UNCHANGED <<browser, wire, handler, cpc, object, box, outq, lost, faults,
                 late>>

Step(s) == CASE s = "dlss" -> PassOn("dlss", "vsr")
             [] s = "vsr"  -> PassOn("vsr", "fg")
             [] s = "fg"   -> Generate

Stage(s) == Take(s) \/ EndStage(s) \/ Lock(s) \/ Step(s)

----------------------------------------------------------------------------
(* The encode pool: two workers                                             *)

\* Whichever of the two is ready first goes to the event loop first; on_output()
\* drops it when the queue is full.
Emit ==
  /\ \E i \in DOMAIN jobs \cap {1, 2} :
       /\ jobs' = RemoveAt(jobs, i)
       /\ outq' = IF Len(outq) < OutSize THEN Append(outq, jobs[i]) ELSE outq
  /\ lost' = (lost \/ Len(outq) >= OutSize)
  /\ UNCHANGED <<browser, wire, handler, cpc, lock, object, threads, faults, late>>

----------------------------------------------------------------------------
(* Pipeline.close()                                                         *)

Ended == \A s \in Stages : phase[s] = "ended"
ClosedAll == [s \in Stages |->
  IF object[s] = Absent THEN Absent ELSE Dead(object[s].key)]

\* The stages are joined, or five seconds were not enough; the pool's jobs are
\* cancelled or finished, but nobody sends their replies any more; the rest is
\* closed.
Close ==
  /\ hpc = "closing"
  /\ \/ Ended /\ UNCHANGED <<faults, late>>
     \/ ~Ended /\ faults < MaxFaults /\ faults' = faults + 1 /\ late' = TRUE
  /\ jobs' = <<>>
  /\ object' = ClosedAll
  /\ hpc' = "ended"
  /\ UNCHANGED <<browser, wire, conf, acked, cpc, lock, threads, outq, lost>>

Handler == ReceiveFrame \/ ReceiveConfig \/ Disconnected \/ Close

Next == Page \/ Handler \/ Configure \/ (\E s \in Stages : Stage(s)) \/ Emit

Spec == Init /\ [][Next]_vars

----------------------------------------------------------------------------
(* Properties                                                               *)

Numbers == 0..MaxFrames
Reply == [n : Numbers, idx : 0..Multiplier - 1, count : 1..Multiplier]
Message ==
  [kind : {"frame", "config"}, n : Numbers, conf : Configs \cup {Off}]

BrowserOK ==
  /\ page \in BOOLEAN /\ oldClose \in BOOLEAN /\ conns \in 1..MaxConns
  /\ configs \in 1..MaxConfigs /\ sent \in Numbers /\ base \in Numbers /\ newest \in Numbers
  /\ pending \in 0..2 /\ wire \in Seq(Message)

HandlerOK ==
  /\ hpc \in {"reading", "configuring", "closing", "ended"}
  /\ conf \in Configs \cup {Off} /\ acked \in {"none", "ok", "error"}
  /\ cpc \in Stages \cup {"none"}
  /\ lock \in [Stages -> {"free", "stage", "configure"}]
  /\ faults \in 0..MaxFaults /\ late \in BOOLEAN

PipelineOK ==
  /\ object \in [Stages -> [key : Nat, up : {"absent", "on", "dead"}]]
  /\ box \in [Stages -> Numbers] /\ item \in [Stages -> Numbers]
  /\ phase \in [Stages -> {"idle", "taken", "working", "ended"}]
  /\ jobs \in Seq(Reply)
  /\ outq \in Seq(Reply) /\ lost \in BOOLEAN

\* Every variable keeps its type; the page never counts more than two frames.
TypeOK == BrowserOK /\ HandlerOK /\ PipelineOK

\* yt_bridge.py:200-201: "a reconfigure can never run concurrently with (or
\* interrupt) that stage's in-flight frame": while a stage works on a frame
\* configure() is not in the middle of rebuilding its object, and the object stays
\* as it is. close() takes no lock: it keeps this only if the stages end in time.
NeverInterrupted ==
  [][~late' => \A s \in Stages :
       phase[s] = "working" /\ conns' = conns =>
         lock[s] # "configure" /\ object'[s] = object[s]]_vars

\* An acknowledged configuration is in force: every stage asked for runs with
\* what was asked, every other is gone (yt_bridge.py:17, config_ack).
AckedIsRunning ==
  hpc = "reading" /\ acked = "ok" =>
    \A s \in Stages :
      object[s] = IF conf[s] = 0 THEN Absent ELSE [key |-> conf[s], up |-> "on"]

\* It is, until something has failed to start.
AckedIsRunningUntilAFault == faults = 0 => AckedIsRunning

\* handle(): the reply queue "only fills up if the WebSocket send itself is
\* backed up, not from pipeline speed", and not even then: with room for the
\* replies to two frames and one that its real frame overtook in the encode pool
\* (16 in the code, for at most four replies to a frame) the page's credits keep
\* it from filling, unless a replaced socket's close event hands them out again.
ReplyQueueHasRoom == conns = 1 => ~lost

\* close() leaves nothing running: all stage objects closed, no stage at work,
\* nothing in the encode pool. (A frame may be left in a mailbox.)
ClosedIsClean ==
  hpc = "ended" /\ ~late =>
    /\ Ended /\ jobs = <<>>
    /\ \A s \in Stages : object[s].up # "on"

\* What the page is told, the room it counts on, and what it leaves behind.
ConnectionHolds == AckedIsRunningUntilAFault /\ ReplyQueueHasRoom /\ ClosedIsClean

\* Handler, configure(), stages, encoders and the event loop run on; the close
\* event of a replaced socket comes. The page acts when it likes.
Fairness ==
  /\ WF_vars(Handler \/ Configure)
  /\ \A s \in Stages : WF_vars(Stage(s))
  /\ WF_vars(Emit) /\ WF_vars(Deliver) /\ WF_vars(OldSocketClosed)

FairSpec == Spec /\ Fairness

\* yt_bridge.py:197-198: frames are superseded in the mailboxes and their
\* credits are never given back, yet the page always gets to send again: the
\* newest frame is never superseded, and one lost credit leaves no two frames
\* to supersede each other.
CaptureGoesOn == []<>(pending < 2 \/ ~page \/ lost)

\* The last frame sent is answered in the end, whatever was reconfigured, failed
\* to start or was superseded on the way.
NewestIsAnswered == <>[](page => newest = sent \/ sent = base \/ lost)
=============================================================================
