---------------------------- MODULE UpscalerHost ----------------------------
(***************************************************************************)
(* The second half of live_filter.py's pipeline: UpscalerHost with its      *)
(* upscaler thread and its frame-generation thread, and the Presenter with  *)
(* its thread (app/live_filter.py 192-555).  The process thread hands over  *)
(* frames through a single slot and commands through a queue it waits on;   *)
(* the settings panel writes state.framegen at any time, without a lock.    *)
(*                                                                          *)
(* Frames are numbered in the order the process thread submits them, and    *)
(* pictures in display order: 2n is frame n, 2n - 1 the frames generated    *)
(* between n - 1 and n.  A geometry is a number (work size and display      *)
(* size); a backend is known by its instance number.                        *)
(***************************************************************************)
EXTENDS Integers, Sequences

CONSTANTS
  Methods,      \* the frame-generation methods of the registry
  Pipelined,    \* those with begin() and finish() apart
  MaxBehind,    \* pictures the presenter may be behind before it skips (12)
  MaxFrames,    \* bound: frames submitted
  MaxEvents     \* bound: host.configure() calls, changes of state.framegen,
                \* failures of an upscaler or a backend, time-outs, together

ASSUME MethodsAssumption == Pipelined \subseteq Methods /\ "off" \notin Methods
ASSUME BoundsAssumption ==
  MaxBehind \in Nat /\ MaxFrames \in Nat /\ MaxEvents \in Nat

VARIABLES
  framegen,   \* state.framegen.method
  ppc,        \* where the process thread is
  cmd,        \* the command it waits for
  geo,        \* the geometry it submits in
  sent,       \* the last frame it submitted
  slot,       \* the hand-over slot
  upc,        \* where the upscaler thread is
  job,        \* the frame it works on
  up,         \* its upscaler: "absent", "chosen" or "plain"
  upGeo,      \* what that is configured for
  plan,       \* are generated frames wanted for this frame
  ready,      \* history: the newest frame it has upscaled
  fgq,        \* _fg_q
  fpc,        \* where the frame-generation thread is
  fjob,       \* the job it took
  seen, cfg,  \* what it has read of state.framegen: in _fg_stale, _ensure_fg
  pend,       \* the job whose result is not collected yet
  token,      \* the job just begun
  after,      \* what it does after _fg_finish
  fg, fgKey,  \* the backend and _fg_key
  made,       \* backends made so far
  active,     \* _fg_active
  pq,         \* the presenter's queue
  shown,      \* the picture published last
  events,     \* such events so far
  late,       \* the join of the frame-generation thread timed out
  overtook,   \* history: a frame passed one that is being generated
  astray      \* history: the panel's write fell between two reads of it, or a
              \* backend failed with a second frame in flight

process  == <<ppc, cmd, geo, sent, late>>
upscaler == <<upc, job, up, upGeo, plan, ready>>
reads    == <<seen, cfg>>
backend  == <<fg, fgKey, made>>
flow     == <<fpc, fjob, pend, token, after>>
vars == <<framegen, process, slot, upscaler, fgq, flow, reads, backend, active,
          pq, shown, events, overtook, astray>>

NoFrame   == [n |-> 0, geo |-> 0]
NoJob     == [n |-> 0, geo |-> 0, plan |-> FALSE]
StopJob   == [n |-> -1, geo |-> 0, plan |-> FALSE]
NoCmd     == [op |-> "none", geo |-> 0]
\* inst 0: the result is there already; made: there is a generated frame
NoToken   == [n |-> 0, inst |-> 0, made |-> FALSE]
NoBackend == [inst |-> 0, method |-> "off", geo |-> 0]
\* _fg_key_for().
Key(method, g) == [method |-> method, geo |-> g]

\* One more event, within the bound.
Event == events < MaxEvents /\ events' = events + 1

Init ==
  /\ framegen \in {"off"} \cup Methods
  /\ ppc = "run" /\ cmd = NoCmd /\ geo = 1 /\ sent = 0
  /\ slot = NoFrame
  /\ upc = "wait" /\ job = NoFrame /\ up = "chosen" /\ upGeo = 1 /\ plan = FALSE
  /\ ready = 0
  /\ fgq = <<>>
  /\ fpc = "get" /\ fjob = NoJob /\ pend = NoToken /\ token = NoToken
  /\ after = "get"
  /\ seen = "off" /\ cfg = "off"
  /\ fg = NoBackend /\ fgKey = Key("off", 0) /\ made = 0 /\ active = FALSE
  /\ pq = <<>> /\ shown = 0
  /\ events = 0 /\ late = FALSE
  /\ overtook = FALSE /\ astray = FALSE

----------------------------------------------------------------------------
(* The panel, and the process thread                                        *)

\* LiveState.set_framegen().
ChangeFramegen ==
  /\ Event
  /\ framegen' \in ({"off"} \cup Methods) \ {framegen}
  /\ UNCHANGED <<process, slot, upscaler, fgq, flow, reads, backend, active, pq,
                 shown, overtook, astray>>

\* submit(): an older frame still in the slot is dropped.
Submit ==
  /\ ppc = "run"
  /\ sent < MaxFrames
  /\ sent' = sent + 1
  /\ slot' = [n |-> sent + 1, geo |-> geo]
  /\ UNCHANGED <<framegen, ppc, cmd, geo, late, upscaler, fgq, flow, reads, backend,
                 active, pq, shown, events, overtook, astray>>

\* configure(), for a new geometry or another upscaler, and the wait.
Configure ==
  /\ ppc = "run"
  /\ Event
  /\ geo' \in {geo, geo + 1}
  /\ cmd' = [op |-> "configure", geo |-> geo']
  /\ ppc' = "calling"
  /\ UNCHANGED <<framegen, sent, late, slot, upscaler, fgq, flow, reads, backend,
                 active, pq, shown, overtook, astray>>

\* close(): the frame-generation thread is told first.
Close ==
  /\ ppc = "run"
  /\ ppc' = "putting"
  /\ UNCHANGED <<framegen, cmd, geo, sent, late, slot, upscaler, fgq, flow, reads,
                 backend, active, pq, shown, events, overtook, astray>>

\* Fault: the queue takes a second job.
PutStopAnyway ==
  /\ ppc = "putting"
  /\ fgq' = Append(fgq, StopJob)
  /\ ppc' = "joining"
  /\ UNCHANGED <<framegen, cmd, geo, sent, late, slot, upscaler, flow, reads,
                 backend, active, pq, shown, events, overtook, astray>>

PutStop ==
  /\ ppc = "putting"
  /\ fgq = <<>>
  /\ fgq' = <<StopJob>>
  /\ ppc' = "joining"
  /\ UNCHANGED <<framegen, cmd, geo, sent, late, slot, upscaler, flow, reads, backend,
                 active, pq, shown, events, overtook, astray>>

\* join(timeout=5), then the upscaler thread is told.
JoinGenerator ==
  /\ ppc = "joining"
  /\ late' = (fpc # "ended")
  /\ IF late' THEN Event ELSE UNCHANGED events
  /\ cmd' = [op |-> "close", geo |-> 0]
  /\ ppc' = "closing"
  /\ UNCHANGED <<framegen, geo, sent, slot, upscaler, fgq, flow, reads, backend,
                 active, pq, shown, overtook, astray>>

\* The upscaler thread leaves its loop, the presenter its own.
EndThreads ==
  /\ ppc = "ending"
  /\ upc = "wait"
  /\ ppc' = "closed"
  /\ UNCHANGED <<framegen, cmd, geo, sent, late, slot, upscaler, fgq, flow, reads,
                 backend, active, pq, shown, events, overtook, astray>>

Process == Submit \/ Configure \/ Close \/ PutStop \/ JoinGenerator \/ EndThreads

----------------------------------------------------------------------------
(* The upscaler thread                                                      *)

\* _configure(): when it fails the plain resize takes over.
RunConfigure ==
  /\ upc = "wait"
  /\ cmd.op = "configure"
  /\ slot' = NoFrame
  /\ upGeo' = cmd.geo
  /\ \/ up' = "chosen" /\ UNCHANGED events
     \/ up' = "plain" /\ Event
  /\ cmd' = NoCmd
  /\ ppc' = "run"
  /\ UNCHANGED <<framegen, geo, sent, late, upc, job, plan, ready, fgq, flow, reads,
                 backend, active, pq, shown, overtook, astray>>

RunClose ==
  /\ upc = "wait"
  /\ cmd.op = "close"
  /\ up' = "absent"
  /\ cmd' = NoCmd
  /\ ppc' = "ending"
  /\ UNCHANGED <<framegen, geo, sent, late, slot, upc, job, upGeo, plan, ready, fgq,
                 flow, reads, backend, active, pq, shown, events, overtook, astray>>

\* A frame is taken from the slot, and dropped when there is no upscaler.
TakeSlot ==
  /\ upc = "wait"
  /\ slot # NoFrame
  /\ slot' = NoFrame
  /\ \/ up = "absent" /\ UNCHANGED <<upc, job>>
     \/ up # "absent" /\ upc' = "upscale" /\ job' = slot
  /\ UNCHANGED <<framegen, process, up, upGeo, plan, ready, fgq, flow, reads,
                 backend, active, pq, shown, events, overtook, astray>>

\* upscale(), with _fallback() and a second try when it raises; then
\* _plan_timestamps() reads the settings.
Upscale ==
  /\ upc = "upscale"
  /\ \/ UNCHANGED <<up, events>>
     \/ up' = "plain" /\ Event
  /\ plan' = (framegen # "off")
  /\ ready' = job.n
  /\ upc' = "handover"
  /\ UNCHANGED <<framegen, process, slot, job, upGeo, fgq, flow, reads, backend,
                 active, pq, shown, overtook, astray>>

\* The colour post-processing before it, the fallback or its own upscale() raises
\* as well: _run() drops the frame.
UpscaleFails ==
  /\ upc = "upscale"
  /\ Event
  /\ up' \in {up, "plain"}
  /\ upc' = "wait"
  /\ UNCHANGED <<framegen, process, slot, job, upGeo, plan, ready, fgq, flow, reads,
                 backend, active, pq, shown, overtook, astray>>

\* Does the frame-generation thread still hold a frame it has not shown?
Generating ==
  \/ fgq # <<>> \/ pend.n > 0 \/ token.n > 0
  \/ fpc \notin {"get", "ended"}

\* presenter.show_now() from this thread.
ShowDirectly ==
  /\ pq' = Append(pq, 2 * job.n)
  /\ overtook' = (overtook \/ Generating)
  /\ upc' = "wait" /\ plan' = FALSE

\* Straight to the overlay, or through the generation thread: the flag of that
\* thread is read once, here.
Decide ==
  /\ upc = "handover"
  /\ \/ (plan \/ active) /\ upc' = "put" /\ UNCHANGED <<plan, pq, overtook>>
     \/ ~plan /\ ~active /\ ShowDirectly
  /\ UNCHANGED <<framegen, process, slot, job, up, upGeo, ready, fgq, flow,
                 reads, backend, active, shown, events, astray>>

\* _fg_q.put(), which waits for room ...
HandOver ==
  /\ upc = "put"
  /\ fgq = <<>>
  /\ fgq' = <<[n |-> job.n, geo |-> job.geo, plan |-> plan]>>
  /\ upc' = "wait" /\ plan' = FALSE
  /\ UNCHANGED <<framegen, process, slot, job, up, upGeo, ready, flow, reads, backend,
                 active, pq, shown, events, overtook, astray>>

\* Fault: without a timeout.
HandOverWaits == FALSE /\ UNCHANGED vars

\* ... for 0.25 s.
HandOverTimesOut ==
  /\ upc = "put"
  /\ fgq # <<>>
  /\ IF fpc = "ended" THEN UNCHANGED events ELSE Event
  /\ ShowDirectly
  /\ UNCHANGED <<framegen, process, slot, job, up, upGeo, ready, fgq, flow,
                 reads, backend, active, shown, astray>>

Upscaler ==
  \/ RunConfigure \/ RunClose \/ TakeSlot \/ Upscale \/ UpscaleFails
  \/ Decide \/ HandOver \/ HandOverTimesOut

----------------------------------------------------------------------------
(* The frame-generation thread                                              *)

rest == <<framegen, process, slot, upscaler, shown, overtook>>

\* _fg_finish(pend), when there is one, then `then'.
FinishThen(then) ==
  IF pend # NoToken THEN fpc' = "finish" /\ after' = then
                    ELSE fpc' = then /\ UNCHANGED after

Take == fgq # <<>> /\ fgq' = <<>> /\ fjob' = Head(fgq)

\* get_nowait() finds nothing: the result is collected now.
GetNothing ==
  /\ fpc = "get"
  /\ fgq = <<>> /\ pend # NoToken
  /\ FinishThen("get")
  /\ UNCHANGED <<rest, fgq, fjob, pend, token, reads, backend, active, pq, events,
                 astray>>

\* None: collect what is left and end.
GetStop ==
  /\ fpc = "get"
  /\ Take /\ fjob' = StopJob
  /\ FinishThen("stop")
  /\ UNCHANGED <<rest, pend, token, reads, backend, active, pq, events, astray>>

Stop ==
  /\ fpc = "stop"
  /\ fg' = NoBackend /\ fgKey' = Key("off", 0)
  /\ fpc' = "ended"
  /\ UNCHANGED <<rest, fgq, fjob, pend, token, after, reads, made, active, pq,
                 events, astray>>

\* Fault: the frame without a plan goes first.
GetSwitchedOffAtOnce ==
  /\ fpc = "get"
  /\ Take /\ fjob' # StopJob /\ ~fjob'.plan
  /\ fpc' = "release"
  /\ UNCHANGED <<rest, pend, token, after, reads, backend, active, pq, events,
                 astray>>

\* Switched off: collect, release the backend, show the frame.
GetSwitchedOff ==
  /\ fpc = "get"
  /\ Take /\ fjob' # StopJob /\ ~fjob'.plan
  /\ FinishThen("release")
  /\ UNCHANGED <<rest, pend, token, reads, backend, active, pq, events, astray>>

Release ==
  /\ fpc = "release"
  /\ fg' = NoBackend /\ fgKey' = Key("off", 0)
  /\ active' = FALSE
  /\ fpc' = "show"
  /\ UNCHANGED <<rest, fgq, fjob, pend, token, after, reads, made, pq, events,
                 astray>>

Show ==
  /\ fpc = "show"
  /\ pq' = Append(pq, 2 * fjob.n)
  /\ fpc' = "get" /\ fjob' = NoJob
  /\ UNCHANGED <<rest, fgq, pend, token, after, reads, backend, active, events,
                 astray>>

\* Fault: goes on without collecting the queued frame.
GetPlanIgnoringStale ==
  /\ fpc = "get"
  /\ Take /\ fjob'.plan
  /\ seen' = framegen
  /\ fpc' = "ensure" /\ UNCHANGED after
  /\ UNCHANGED <<rest, pend, token, cfg, backend, active, pq, events, astray>>

\* _fg_stale(): the queued frame is collected before the backend is replaced.
GetPlan ==
  /\ fpc = "get"
  /\ Take /\ fjob'.plan
  /\ seen' = framegen
  /\ IF fg # NoBackend /\ Key(framegen, fjob'.geo) # fgKey
     THEN FinishThen("ensure") ELSE fpc' = "ensure" /\ UNCHANGED after
  /\ UNCHANGED <<rest, pend, token, cfg, backend, active, pq, events, astray>>

\* _ensure_fg() reads state.framegen ...
ReadSettings ==
  /\ fpc = "ensure"
  /\ cfg' = framegen
  /\ fpc' = "make"
  /\ UNCHANGED <<rest, fgq, fjob, pend, token, after, seen, backend, active, pq,
                 events, astray>>

\* The frame is being generated (or has its result, inst 0): the previous one is
\* collected meanwhile.
Begun(inst, m) ==
  LET t == [n |-> fjob.n, inst |-> inst, made |-> m] IN
    IF pend # NoToken
      THEN token' = t /\ FinishThen("keep") /\ UNCHANGED <<pend, fjob>>
      ELSE pend' = t /\ fpc' = "get" /\ fjob' = NoJob /\ UNCHANGED <<token, after>>

\* ... and the key reads it again.  A method the registry does not know ("off")
\* and a constructor that raises both switch the method off.
Ensure ==
  /\ fpc = "make"
  /\ astray' = (astray \/ cfg # framegen \/ (pend # NoToken /\ seen # framegen))
  /\ seen' = "off" /\ cfg' = "off"
  /\ IF fg # NoBackend /\ fgKey = Key(framegen, fjob.geo)
     THEN /\ fpc' = "begin"
          /\ UNCHANGED <<framegen, backend, fjob, pend, token, after, events>>
     ELSE \/ /\ cfg # "off"
             /\ fg' = [inst |-> made + 1, method |-> cfg, geo |-> fjob.geo]
             /\ fgKey' = Key(framegen, fjob.geo)
             /\ made' = made + 1
             /\ fpc' = "begin"
             /\ UNCHANGED <<framegen, fjob, pend, token, after, events>>
          \/ /\ IF cfg = "off" THEN UNCHANGED events ELSE Event
             /\ fg' = NoBackend /\ fgKey' = Key("off", 0)
             /\ framegen' = "off"
             /\ Begun(0, FALSE)
             /\ UNCHANGED made
  /\ UNCHANGED <<process, slot, upscaler, shown, overtook, fgq, active, pq>>

\* _fg_failed().
BackendFailed ==
  /\ Event
  /\ astray' = (astray \/ (fpc = "finish" /\ token.inst # 0))
  /\ fg' = NoBackend /\ fgKey' = Key("off", 0)
  /\ framegen' = "off"
  /\ UNCHANGED made

\* begin(), or submit() of a backend that is not pipelined.
Begin ==
  /\ fpc = "begin"
  /\ \/ /\ fg.method \in Pipelined
        /\ Begun(fg.inst, FALSE)
        /\ UNCHANGED <<framegen, backend, events, astray>>
     \/ /\ fg.method \notin Pipelined
        /\ \E m \in BOOLEAN : Begun(0, m)
        /\ UNCHANGED <<framegen, backend, events, astray>>
     \/ BackendFailed /\ Begun(0, FALSE)
  /\ UNCHANGED <<process, slot, upscaler, shown, overtook, fgq, reads, active, pq>>

\* Where the thread goes on when `pend' has been shown.
GoOn ==
  /\ IF after = "keep"
     THEN pend' = token /\ token' = NoToken /\ fjob' = NoJob /\ fpc' = "get"
     ELSE pend' = NoToken /\ fpc' = after /\ UNCHANGED <<token, fjob>>
  /\ after' = "get"

\* _generate_end(): a result that is there, a backend that is gone, finish()
\* with or without a frame, or an exception.
GenerateEnd ==
  /\ fpc = "finish"
  /\ \/ /\ pend.inst = 0 \/ fg = NoBackend
        /\ fpc' = IF pend.made THEN "generated" ELSE "real"
        /\ UNCHANGED <<framegen, backend, events, astray>>
     \/ /\ pend.inst # 0 /\ fg # NoBackend
        /\ \/ fpc' \in {"generated", "real"} /\ UNCHANGED <<framegen, backend, events, astray>>
           \/ fpc' = "real" /\ BackendFailed
  /\ active' = (fg' # NoBackend)
  /\ UNCHANGED <<process, slot, upscaler, shown, overtook, fgq, fjob, pend, token,
                 after, reads, pq>>

\* schedule(): one put per picture, the real frame last.
PutGenerated ==
  /\ fpc = "generated"
  /\ pq' = Append(pq, 2 * pend.n - 1)
  /\ fpc' = "real"
  /\ UNCHANGED <<rest, fgq, fjob, pend, token, after, reads, backend, active,
                 events, astray>>

PutReal ==
  /\ fpc = "real"
  /\ pq' = Append(pq, 2 * pend.n)
  /\ GoOn
  /\ UNCHANGED <<rest, fgq, reads, backend, active, events, astray>>

Generator == \/ GetNothing \/ GetStop \/ Stop \/ GetSwitchedOff \/ Release
             \/ Show \/ GetPlan \/ ReadSettings \/ Ensure \/ Begin \/ GenerateEnd
             \/ PutGenerated \/ PutReal

----------------------------------------------------------------------------
(* The presenter's thread                                                   *)

\* The picture's time has come: it waited for it, or is late and shown at once.
Present ==
  /\ pq # <<>> /\ ppc # "closed"
  /\ shown' = Head(pq)
  /\ pq' = Tail(pq)
  /\ UNCHANGED <<framegen, process, slot, upscaler, fgq, flow, reads, backend,
                 active, events, overtook, astray>>

\* Fault: skips the picture when it is the last one in the queue as well.
SkipAny ==
  /\ pq # <<>> /\ ppc # "closed"
  /\ Len(pq) - 1 <= MaxBehind
  /\ pq' = Tail(pq)
  /\ UNCHANGED <<framegen, process, slot, upscaler, fgq, flow, reads, backend,
                 active, shown, events, overtook, astray>>

\* Late, and far behind.
Skip ==
  /\ pq # <<>> /\ ppc # "closed"
  /\ Len(pq) - 1 > MaxBehind
  /\ pq' = Tail(pq)
  /\ UNCHANGED <<framegen, process, slot, upscaler, fgq, flow, reads, backend,
                 active, shown, events, overtook, astray>>

Presenter == Present \/ Skip

Next == ChangeFramegen \/ Process \/ Upscaler \/ Generator \/ Presenter

Spec == Init /\ [][Next]_vars

----------------------------------------------------------------------------
(* Properties                                                               *)

Settings == {"off"} \cup Methods
Geos     == 0..MaxEvents + 1
Frames   == 0..MaxFrames

Frame == [n : Frames, geo : Geos]
Job   == [n : Frames \cup {-1}, geo : Geos, plan : BOOLEAN]
Token == [n : Frames, inst : Nat, made : BOOLEAN]
Keys  == [method : Settings, geo : Geos]

CallersOK ==
  /\ framegen \in Settings
  /\ ppc \in {"run", "calling", "putting", "joining", "closing", "ending", "closed"}
  /\ cmd \in [op : {"none", "configure", "close"}, geo : Geos]
  /\ geo \in Geos /\ sent \in Frames
  /\ slot \in Frame
  /\ events \in 0..MaxEvents /\ late \in BOOLEAN

UpscalerOK ==
  /\ upc \in {"wait", "upscale", "handover", "put"}
  /\ job \in Frame /\ up \in {"absent", "chosen", "plain"} /\ upGeo \in Geos
  /\ plan \in BOOLEAN /\ ready \in Frames
  /\ fgq \in Seq(Job)

GeneratorOK ==
  /\ fpc \in {"get", "stop", "release", "show", "ensure", "make", "begin", "finish",
              "generated", "real", "ended"}
  /\ fjob \in Job /\ pend \in Token /\ token \in Token
  /\ after \in {"get", "stop", "release", "ensure", "keep"}
  /\ seen \in Settings /\ cfg \in Settings
  /\ fg \in [inst : Nat, method : Settings, geo : Geos] /\ fgKey \in Keys
  /\ made \in Nat /\ active \in BOOLEAN

PresenterOK ==
  /\ pq \in Seq(Nat) /\ shown \in Nat
  /\ overtook \in BOOLEAN /\ astray \in BOOLEAN

\* Every variable keeps its type; _fg_q holds one job at most.
TypeOK ==
  CallersOK /\ UpscalerOK /\ GeneratorOK /\ PresenterOK /\ Len(fgq) <= 1

\* live_filter.py:331 "a frame from the previous geometry would not fit the new
\* configuration": whatever is upscaled was captured and filtered at the sizes
\* the upscaler is configured for, although frames and commands travel to its
\* thread on different ways and the chosen upscaler may have been replaced.
UpscalesOwnGeometry ==
  upc = "upscale" => job.geo = upGeo /\ up # "absent"

\* live_filter.py:426 "settings or size changed: the backend is about to be
\* replaced, so collect the queued frame first": a pipelined result is collected
\* from the very backend its frame was given to.
TokensGoHome ==
  fpc = "finish" /\ pend.inst # 0 /\ fg # NoBackend => fg.inst = pend.inst

\* It is, and a frame goes into a backend made for its size, whatever is
\* replaced, fails or is resized: unless the panel's write falls between two
\* reads of the settings, or a backend fails with a second frame in flight.
TokensStay ==
  /\ fpc = "begin" => fg # NoBackend /\ fg.geo = fjob.geo
  /\ ~astray => TokensGoHome

\* _fg_active (live_filter.py:260 "a backend exists") is what makes a frame
\* without a plan travel through the generation thread and release the backend:
\* when that thread has nothing to collect, the flag says whether there is one.
ActiveIsTrue ==
  fpc = "get" /\ pend = NoToken => (active <=> fg # NoBackend)

\* close() leaves nothing behind: no upscaler, and no backend once the join of
\* the generation thread did not time out (live_filter.py:293-302).
ClosedIsClean ==
  ppc = "closed" => up = "absent" /\ (fg = NoBackend \/ late)

\* No thread works with what another has replaced, dropped or closed.
NothingStale == UpscalesOwnGeometry /\ TokensStay /\ ActiveIsTrue /\ ClosedIsClean

\* Pictures go out in display order, each at most once (live_filter.py:209),
\* through two threads, a slot, two queues and any number of failures, until the
\* upscaler thread shows a frame itself while an older one is being generated:
\* its hand-over timed out, or the method was switched off before the first
\* result.
DisplayOrder == [][shown' # shown /\ ~overtook => shown' > shown]_vars

\* The four threads run; a hand-over that finds no room goes on, which
\* MaxEvents bounds.  The panel and the process thread choose freely what to do
\* and when, but finish a close() they have begun.
Fairness ==
  /\ WF_vars(Upscaler) /\ WF_vars(Generator) /\ WF_vars(Presenter)
  /\ WF_vars(PutStop \/ JoinGenerator \/ EndThreads)

FairSpec == Spec /\ Fairness

\* Every call of the process thread returns: configure() waits without a
\* timeout for a thread that itself waits for the generation thread, and close()
\* waits for room in that thread's queue.
CallsReturn == []<>(ppc \in {"run", "closed"})

\* While the pipeline runs, the screen ends up with the newest frame that could
\* be upscaled: no frame dropped on the way, no failure of an upscaler or a
\* backend, no replaced backend and no skipped picture leaves an older one
\* standing.
ScreenCatchesUp == <>[](ppc = "run" /\ ~overtook => shown = 2 * ready)
=============================================================================
