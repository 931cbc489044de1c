------------------------------ MODULE PluginLink ------------------------------
(***************************************************************************)
(* The way back from the pipeline to the compositor plugin: PluginLink and  *)
(* PluginOverlay (plugin_bridge.py), the plugin's bridge thread             *)
(* (bridge.hpp) and its main thread's draw and timer callbacks (main.cpp),  *)
(* which share the header and the three result slots of one memfd.          *)
(* Pipelines come and go; the memory outlives them.                         *)
(*                                                                          *)
(* Time passes in ticks and is kept as ages. A picture is [by, n]: the      *)
(* pipeline that made it and the res_seq it was published under; `Torn' is  *)
(* nothing or parts of several. Pipelines run one after the other.          *)
(***************************************************************************)
EXTENDS Integers

CONSTANTS
  MaxPipelines,  \* bound: pipeline processes, one after the other
  MaxResults,    \* bound: res_seq
  MaxAge,        \* kResultMaxAgeNs, in ticks
  Stall          \* the heartbeat's 0.4 s, in ticks

ASSUME BoundsAssumption ==
  MaxPipelines \in Nat /\ MaxResults \in Nat /\ MaxAge \in Nat /\ Stall \in Nat

VARIABLES
  resSeq, slot, resAge,    \* header: res_seq, result slots, age of res_ns
  override, flag,          \* header: override_on, client_flags
  bpc, incoming, client,   \* bridge thread: where it is, whom it accepts, client_
  newConn,                 \* main: seenConnect # connectSeq
  unread, inFlight,        \* main: a commit not read yet; a read not delivered yet
  exported,                \* header: exp_seq # 0
  damaged, lastDamaged,    \* main: the window will be repainted; timer's res_seq
  mpc, rs, seen,           \* main: where drawOverride is, its res_seq and slot
  lastRes, tex,            \* main: S.lastRes, S.tex
  screen,                  \* what the last repaint left: "window", "result", "torn"
  gen, status,             \* the pipeline that runs or ran last; how far it is
  coherent,                \* it has the cache-aware copy helpers
  fresh,                   \* its capture thread: exp_seq # _last_seq
  job,                     \* a received frame waits to be processed
  ppc, pseq,               \* where publish() is, and its seq
  unanswered, expAge,      \* _t_export > _t_publish; if so the age of _t_export
  beaten, timed,           \* timing: see OnTime, StartWrite
  okAge,                   \* history: age of the pipeline's last being on time
  bumps                    \* history: how often res_seq moved during the draw

header   == <<resSeq, slot, resAge, override, flag>>
bridge   == <<bpc, incoming, client>>
export   == <<newConn, unread, inFlight, exported>>
damage   == <<damaged, lastDamaged>>
drawing  == <<mpc, rs, seen, lastRes, tex, screen, bumps>>
process  == <<gen, status, coherent>>
frames   == <<fresh, job, unanswered, expAge>>
publish  == <<ppc, pseq>>
timing   == <<beaten, timed>>
vars     == <<header, bridge, export, damage, drawing, process, frames, publish, timing, okAge>>

Torn == [by |-> 0, n |-> 0]
NoTexture == [by |-> 0, n |-> 1]
Slots == 0..2
SlotOf(n) == n % 3

\* Ages stop counting one past the limit they are compared with.
Older(age, limit) == IF age <= limit THEN age + 1 ELSE age

Beating == status \in {"on", "stuck"}
ClientGone == client # 0 /\ (client # gen \/ status = "gone")

\* The heartbeat's `stalled': a frame received and unanswered for too long.
Stalled == unanswered /\ expAge > Stall

\* The process's own state, before it starts and after it ended.
NoProcess ==
  /\ fresh' = FALSE /\ job' = FALSE /\ unanswered' = FALSE /\ expAge' = 0
  /\ ppc' = "idle" /\ pseq' = 0 /\ beaten' = FALSE /\ timed' = FALSE /\ coherent' = FALSE

Init ==
  /\ resSeq = 0 /\ slot = [s \in Slots |-> Torn] /\ resAge = MaxAge + 1
  /\ override = FALSE /\ flag = FALSE
  /\ bpc = "poll" /\ incoming = 0 /\ client = 0
  /\ newConn = FALSE /\ unread = TRUE /\ inFlight = FALSE /\ exported = FALSE
  /\ damaged = FALSE /\ lastDamaged = 0
  /\ mpc = "idle" /\ rs = 0 /\ seen = Torn /\ lastRes = 0 /\ tex = NoTexture
  /\ screen = "window" /\ bumps = 0
  /\ gen = 0 /\ status = "gone"
  /\ fresh = FALSE /\ job = FALSE /\ unanswered = FALSE /\ expAge = 0
  /\ ppc = "idle" /\ pseq = 0 /\ beaten = FALSE /\ timed = FALSE /\ coherent = FALSE
  /\ okAge = MaxAge + 1

----------------------------------------------------------------------------
(* A pipeline process: its life                                             *)

\* PluginLink.__init__ up to connect(): the bridge thread will answer.
Connect ==
  /\ status = "gone" /\ gen < MaxPipelines
  /\ gen' = gen + 1
  /\ status' = "connecting"
  /\ coherent' \in BOOLEAN
  /\ UNCHANGED <<header, bridge, export, damage, drawing, frames, publish, timing, okAge>>

\* recvmsg() gave the memfd: client_flags is written, the heartbeat starts.
\* _last_seq = 0, so a frame exported for anyone before counts as new.
Map ==
  /\ status = "hasFd"
  /\ status' = "on"
  /\ flag' = coherent
  /\ fresh' = exported
  /\ UNCHANGED <<resSeq, slot, resAge, override, bridge, export, damage, drawing, gen, coherent,
                 job, unanswered, expAge, publish, timing, okAge>>

\* process_loop's `break' on a worker error: nothing is processed any more, the
\* capture thread and the heartbeat go on.
ProcessingEnds ==
  /\ status = "on"
  /\ status' = "stuck"
  /\ job' = FALSE /\ timed' = FALSE
  /\ UNCHANGED <<header, bridge, export, damage, drawing, gen, coherent, fresh, unanswered,
                 expAge, publish, beaten, okAge>>

\* (History: it was on time when it went.)
Leaves == okAge' = IF Beating /\ ~Stalled THEN 0 ELSE okAge

\* close(): the heartbeat has stopped, set_override(False). A publish() that has
\* begun may still go on.
CloseOverride ==
  /\ Beating
  /\ status' = "closing"
  /\ override' = FALSE
  /\ Leaves
  /\ UNCHANGED <<resSeq, slot, resAge, flag, bridge, export, damage, drawing, gen, coherent,
                 frames, publish, timing>>

\* The process ends: after close(), or at any moment.
Exit ==
  /\ status # "gone"
  /\ status' = "gone"
  /\ Leaves
  /\ NoProcess
  /\ UNCHANGED <<header, bridge, export, damage, drawing, gen>>

----------------------------------------------------------------------------
(* A pipeline process: frames in, results out                               *)

\* wait_frame() in the capture thread: exp_seq has moved. The latest frame is
\* the one process_loop will take.
Receive ==
  /\ Beating /\ fresh
  /\ fresh' = FALSE
  /\ unanswered' = TRUE
  /\ expAge' = 0
  /\ job' = (status = "on")
  /\ timed' = FALSE
  /\ UNCHANGED <<header, bridge, export, damage, drawing, process, publish, beaten, okAge>>

\* Fault: res_seq is moved before the slot is written.
EarlyStart ==
  /\ status = "on" /\ ppc = "idle"
  /\ job /\ timed /\ incoming # gen
  /\ resSeq < MaxResults
  /\ job' = FALSE
  /\ pseq' = (resSeq + 1)
  /\ resSeq' = resSeq + 1
  /\ slot' = [slot EXCEPT ![SlotOf(resSeq + 1)] = Torn]
  /\ ppc' = "writing"
  /\ timed' = FALSE
  /\ UNCHANGED <<resAge, override, flag, bridge, export, damage, drawing, process, fresh,
                 unanswered, expAge, beaten, okAge>>

\* publish(): res_seq is read, the next slot is being written. Processing a
\* frame takes longer than the plugin timer's 4 ms (`timed') and the last
\* stores of accept1().
StartWrite ==
  /\ status = "on" /\ ppc = "idle"
  /\ job /\ timed /\ incoming # gen
  /\ resSeq < MaxResults
  /\ job' = FALSE
  /\ pseq' = (resSeq + 1)
  /\ slot' = [slot EXCEPT ![SlotOf(resSeq + 1)] = Torn]
  /\ ppc' = "writing"
  /\ timed' = FALSE
  /\ UNCHANGED <<resSeq, resAge, override, flag, bridge, export, damage, drawing, process, fresh,
                 unanswered, expAge, beaten, okAge>>

\* The slot is written, and its size, then res_ns.
EndWrite ==
  /\ ppc = "writing"
  /\ slot' = [slot EXCEPT ![SlotOf(pseq)] = [by |-> gen, n |-> pseq]]
  /\ resAge' = 0
  /\ okAge' = 0
  /\ ppc' = "written"
  /\ UNCHANGED <<resSeq, override, flag, bridge, export, damage, drawing, process, frames, pseq,
                 timing>>

\* res_seq moves: counted while the main thread reads a slot.
Moves == bumps' = IF mpc # "idle" /\ bumps < 2 THEN bumps + 1 ELSE bumps

\* Fault: counts res_seq on once more.
BumpTwice ==
  /\ ppc = "written"
  /\ resSeq' = pseq + 1
  /\ unanswered' = FALSE /\ expAge' = 0
  /\ Moves
  /\ ppc' = "bumped"
  /\ UNCHANGED <<slot, resAge, override, flag, bridge, export, damage, mpc, rs, seen,
                 lastRes, tex, screen, process, fresh, job, pseq, timing, okAge>>

\* res_seq is moved last; _t_publish.
Bump ==
  /\ ppc = "written"
  /\ resSeq' = pseq
  /\ unanswered' = FALSE /\ expAge' = 0
  /\ Moves
  /\ ppc' = "bumped"
  /\ UNCHANGED <<slot, resAge, override, flag, bridge, export, damage, mpc, rs, seen,
                 lastRes, tex, screen, process, fresh, job, pseq, timing, okAge>>

\* update_frame(): set_override(True) after publish().
ShowResult ==
  /\ ppc = "bumped"
  /\ override' = TRUE
  /\ ppc' = "idle"
  /\ pseq' = 0
  /\ UNCHANGED <<resSeq, slot, resAge, flag, bridge, export, damage, drawing, process, frames,
                 timing, okAge>>

\* process_loop drops a frame of another size than the worker's.
DropFrame ==
  /\ status = "on" /\ job
  /\ job' = FALSE /\ timed' = FALSE
  /\ UNCHANGED <<header, bridge, export, damage, drawing, process, fresh, unanswered, expAge,
                 publish, beaten, okAge>>

\* Fault: the heartbeat does not look for an unanswered frame.
BeatsOn == TRUE

\* The heartbeat keeps the stamp fresh unless the pipeline has stalled.
Vouches == ~Stalled

\* One round of _heartbeat().
Beat ==
  /\ Beating /\ ~beaten
  /\ beaten' = TRUE
  /\ resAge' = IF Vouches /\ resSeq # 0 THEN 0 ELSE resAge
  /\ UNCHANGED <<resSeq, slot, override, flag, bridge, export, damage, drawing, process, frames,
                 publish, timed, okAge>>

----------------------------------------------------------------------------
(* The plugin's bridge thread                                               *)

\* accept1(): the connection is answered with the memfd.
Accept ==
  /\ bpc = "poll"
  /\ status = "connecting"
  /\ status' = "hasFd"
  /\ incoming' = gen
  /\ bpc' = "drop"
  /\ UNCHANGED <<header, client, export, damage, drawing, gen, coherent, frames, publish, timing,
                 okAge>>

\* dropClient() lets the old client go and takes its override back; res_seq = 0.
ReplaceClient ==
  /\ bpc = "drop"
  /\ client' = 0
  /\ override' = FALSE
  /\ resSeq' = 0
  /\ bumps' = IF mpc # "idle" THEN 2 ELSE bumps
  /\ bpc' = "flags"
  /\ UNCHANGED <<slot, resAge, flag, incoming, export, damage, mpc, rs, seen, lastRes, tex,
                 screen, process, frames, publish, timing, okAge>>

\* Fault: the old client's flags are left for the new one.
KeepFlags ==
  /\ bpc = "flags"
  /\ bpc' = "install"
  /\ UNCHANGED <<header, incoming, client, export, damage, drawing, process, frames, publish,
                 timing, okAge>>

\* The new client declares its own: perhaps it has already, and is forgotten.
ResetFlags ==
  /\ bpc = "flags"
  /\ flag' = FALSE
  /\ bpc' = "install"
  /\ UNCHANGED <<resSeq, slot, resAge, override, incoming, client, export, damage, drawing,
                 process, frames, publish, timing, okAge>>

\* client_ = c; connectSeq_++.
Install ==
  /\ bpc = "install"
  /\ client' = incoming
  /\ incoming' = 0
  /\ newConn' = TRUE
  /\ bpc' = "poll"
  /\ UNCHANGED <<header, unread, inFlight, exported, damage, drawing, process, frames, publish,
                 timing, okAge>>

\* loop(): end of file on the client's socket.
Hangup ==
  /\ bpc = "poll"
  /\ ClientGone
  /\ client' = 0
  /\ override' = FALSE
  /\ UNCHANGED <<resSeq, slot, resAge, flag, bpc, incoming, export, damage, drawing, process,
                 frames, publish, timing, okAge>>

----------------------------------------------------------------------------
(* The plugin's main thread: commits, timer, draw                           *)

\* The window's surface commits a buffer: commitSeq++, and a repaint.
Commit ==
  /\ ~unread
  /\ unread' = TRUE
  /\ damaged' = TRUE
  /\ UNCHANGED <<header, bridge, newConn, inFlight, exported, lastDamaged, drawing, process,
                 frames, publish, timing, okAge>>

\* The timer's wantFlush: something is to be exported, or was never.
WantFlush == client # 0 /\ (inFlight \/ unread \/ newConn \/ ~exported)

\* A result the window was not repainted for yet damages it too.
NoticeResult ==
  /\ damaged' = (damaged \/ WantFlush \/ resSeq # lastDamaged)
  /\ lastDamaged' = resSeq

\* The 4 ms timer (main is one thread: never during a draw).
Timer ==
  /\ mpc = "idle"
  /\ NoticeResult
  /\ timed' = job
  /\ UNCHANGED <<header, bridge, export, drawing, process, frames, publish, beaten, okAge>>

\* exportFrame(): a finished read is delivered to whoever maps the memory, then
\* a new commit, or the picture as it is for a new client, is read.
ExportFrame ==
  IF client = 0 THEN UNCHANGED <<export, fresh>>
  ELSE /\ exported' = (exported \/ inFlight)
       /\ fresh' = (fresh \/ (inFlight /\ Beating))
       /\ inFlight' = (unread \/ newConn)
       /\ unread' = FALSE
       /\ newConn' = FALSE

\* drawOverride()'s early returns: none of them, and the result is drawn.
Covers == client # 0 /\ override /\ resSeq # 0 /\ resAge <= MaxAge

Shown(picture) ==
  CASE picture = Torn -> "torn" [] picture = NoTexture -> "window" [] OTHER -> "result"

\* Nothing to draw: the window shows.
DrawNothing ==
  /\ ~Covers
  /\ screen' = "window"
  /\ UNCHANGED <<mpc, rs, seen, lastRes, tex, bumps>>

\* The number was drawn before: uploaded, or sampled while that still worked.
Reuse ==
  /\ Covers /\ resSeq = lastRes
  /\ screen' = Shown(tex)
  /\ UNCHANGED <<mpc, rs, seen, lastRes, tex, bumps>>

\* The slot is read from now on: uploaded, or sampled by the GPU (a coherent
\* client's, if the dma-buf import works).
BeginRead(how) ==
  /\ Covers
  /\ how = "upload" => resSeq # lastRes
  /\ how = "sample" => flag
  /\ mpc' = how
  /\ rs' = resSeq
  /\ seen' = slot[SlotOf(resSeq)]
  /\ bumps' = 0
  /\ UNCHANGED <<lastRes, tex, screen>>

\* The window is repainted: CNsElement::draw.
Repaint ==
  /\ mpc = "idle" /\ damaged
  /\ damaged' = FALSE
  /\ ExportFrame
  /\ DrawNothing \/ Reuse \/ BeginRead("upload") \/ BeginRead("sample")
  /\ UNCHANGED <<header, bridge, lastDamaged, process, job, unanswered, expAge, publish, timing,
                 okAge>>

\* What was read: parts of several pictures if the slot was written meanwhile.
WasRead == IF slot[SlotOf(rs)] = seen THEN seen ELSE Torn

EndUpload ==
  /\ mpc = "upload"
  /\ tex' = WasRead
  /\ screen' = Shown(WasRead)
  /\ lastRes' = rs
  /\ mpc' = "idle" /\ rs' = 0 /\ seen' = Torn /\ bumps' = 0
  /\ UNCHANGED <<header, bridge, export, damage, process, frames, publish, timing, okAge>>

EndSample ==
  /\ mpc = "sample"
  /\ screen' = Shown(WasRead)
  /\ lastRes' = rs
  /\ mpc' = "idle" /\ rs' = 0 /\ seen' = Torn /\ bumps' = 0
  /\ UNCHANGED <<header, bridge, export, damage, tex, process, frames, publish, timing, okAge>>

----------------------------------------------------------------------------
(* Time                                                                     *)

\* The heartbeat has beaten since the last tick, the plugin's threads are not
\* behind, and nobody is between publish()'s last two stores: a tick is about
\* a hundred milliseconds.
OnTime ==
  /\ Beating => beaten
  /\ ppc \notin {"written", "bumped"}
  /\ mpc = "idle" /\ ~damaged /\ resSeq = lastDamaged
  /\ bpc = "poll" /\ ~ClientGone

Tick ==
  /\ OnTime
  /\ resAge' = Older(resAge, MaxAge)
  /\ expAge' = IF unanswered THEN Older(expAge, Stall) ELSE 0
  /\ okAge' = IF Beating /\ ~Stalled THEN 0 ELSE Older(okAge, MaxAge)
  /\ beaten' = FALSE
  /\ UNCHANGED <<resSeq, slot, override, flag, bridge, export, damage, drawing, process, fresh,
                 job, unanswered, publish, timed>>

----------------------------------------------------------------------------
Life == Connect \/ Map \/ ProcessingEnds \/ CloseOverride \/ Exit
Publishing == StartWrite \/ EndWrite \/ Bump \/ ShowResult
BridgeThread == Accept \/ ReplaceClient \/ ResetFlags \/ Install \/ Hangup
Compositor == Commit \/ Timer \/ Repaint \/ EndUpload \/ EndSample

Next ==
  Life \/ Receive \/ Publishing \/ DropFrame \/ Beat \/ BridgeThread \/ Compositor \/ Tick

Spec == Init /\ [][Next]_vars

\* Both of the plugin's threads, the heartbeat, the capture thread and a publish()
\* that has begun run on; nothing is asked of the window or of the rest.
\* Time passes without end.
FairSpec ==
  /\ Spec
  /\ WF_vars(BridgeThread)
  /\ WF_vars(Timer)
  /\ WF_vars(Repaint) /\ WF_vars(EndUpload) /\ WF_vars(EndSample)
  /\ WF_vars(EndWrite \/ Bump \/ ShowResult)
  /\ WF_vars(Beat) /\ WF_vars(Receive)
  /\ []<><<Tick>>_vars

----------------------------------------------------------------------------
(* Properties                                                               *)

\* Types.
TypeOK ==
  /\ resSeq \in 0..MaxResults
  /\ slot \in [Slots -> [by : 0..MaxPipelines, n : 0..MaxResults]]
  /\ resAge \in 0..MaxAge + 1 /\ override \in BOOLEAN /\ flag \in BOOLEAN
  /\ bpc \in {"poll", "drop", "flags", "install"}
  /\ incoming \in 0..gen /\ client \in 0..gen
  /\ mpc \in {"idle", "upload", "sample"} /\ screen \in {"window", "result", "torn"}
  /\ gen \in 0..MaxPipelines
  /\ status \in {"connecting", "hasFd", "on", "stuck", "closing", "gone"}
  /\ ppc \in {"idle", "writing", "written", "bumped"} /\ pseq \in 0..MaxResults
  /\ expAge \in 0..Stall + 1 /\ okAge \in 0..MaxAge + 1

\* A repaint ends, and has covered the window with a result.
Covering == mpc' = "idle" /\ screen' # "window" /\ (mpc # "idle" \/ (damaged /\ ~damaged'))

\* kSlots: a result that is uploaded or sampled while res_seq moves once at most
\* (and is not started afresh by a new client) is drawn whole: publish() fills
\* the slot after the newest, the draw reads the newest (proto.hpp:7-8).
DrawnWhole == [][Covering /\ mpc # "idle" /\ bumps <= 1 => screen' # "torn"]_vars

\* The watchdog and the heartbeat together: once the pipeline is dead, or owes
\* an answer for longer than the heartbeat allows, the window shows again at the
\* first repaint after the result's age limit.
StalledUncovers == [][Covering => okAge <= MaxAge \/ (Beating /\ ~Stalled)]_vars

\* The plugin samples slots without copying only while the connected pipeline
\* has the cache-aware copies (client_flags, proto.hpp), whatever pipelines ran
\* before and however its own write of the flag races with the bridge thread.
ZeroCopyIfCoherent == client # 0 /\ ~ClientGone => (flag => coherent)

\* plugin_bridge.py:8: when the pipeline has stopped publishing, the plugin shows
\* the real window again by itself (at a repaint: if the window ever commits).
FrozenNever ==
  (status = "stuck" /\ client = gen)
    ~> (screen = "window" \/ status # "stuck" \/ []~unread)

=============================================================================
