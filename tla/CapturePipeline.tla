-------------------------- MODULE CapturePipeline --------------------------
(***************************************************************************)
(* The threads of live_filter.py between the window and the worker: the     *)
(* capture threads, the process thread, and the GTK thread that changes the *)
(* settings, follows the window's size, restarts the worker and shuts down. *)
(* A size is a number; Ceiling is the window's size at the start, which the *)
(* worker's memory is made for, 1 a reduced resolution and Ceiling + 1 what *)
(* is larger: a grown window, or the slider beyond 100 percent.             *)
(* A frame is [num, size].  Parameters, upscaler settings and the target    *)
(* are applied like the resolution, or beside it, and are left out.         *)
(***************************************************************************)
EXTENDS Integers, Sequences, FiniteSets

CONSTANTS
  Extra,       \* the capture threads beside threads["capture"]
  Ceiling,     \* display_w, display_h as they were at the start
  MaxEvents    \* bound: changes of the window and the settings, restarts,
               \* failures and time-outs, together

ASSUME BoundsAssumption ==
  Ceiling \in Nat /\ Ceiling > 1 /\ MaxEvents \in Nat /\ IsFiniteSet(Extra)

VARIABLES
  resolution, settled, native, active,  \* LiveState: resolution, unchanged for
                             \* the debounce time; the window's size; active
  stop,                      \* the Event both loops look at
  cpc, csize, my,            \* capture threads: place, tw and th, my_seq
  lastPut, queue,            \* last_put, frame_q (no more than one frame)
  ppc, applied, wanted, frame,  \* process thread: place, its applied_resolution,
                             \* res, the size of the frame it took
  worker,                    \* the Worker: its size, 0 when it is closed
  limit,                     \* _max_out_w, _max_out_h: the size its memory is made for
  gpc,                       \* GTK thread: in restart_with_nr_preset(), or idle
  events,                    \* such events so far
  taken,                     \* history: number of the frame taken last
  raced                      \* history: a thread began with a resolution that was
                             \* no longer its worker's

panel   == <<resolution, settled, native, active>>
capture == <<cpc, csize, my>>
process == <<ppc, applied, wanted, frame>>
vars == <<panel, stop, capture, lastPut, queue, process, worker, limit, gpc, events, taken,
          raced>>

Main == "capture"                 \* threads["capture"]
Threads == {Main} \cup Extra
Larger == Ceiling + 1
Sizes == {1, Ceiling, Larger}

Event == events < MaxEvents /\ events' = events + 1

Init ==
  /\ resolution = Ceiling /\ settled = TRUE /\ native = Ceiling /\ active = TRUE
  /\ stop = FALSE
  /\ cpc = [t \in Threads |-> "head"] /\ csize = [t \in Threads |-> 0]
  /\ my = [t \in Threads |-> 0]
  /\ lastPut = 0 /\ queue = <<>>
  /\ ppc = "start" /\ applied = 0 /\ wanted = 0 /\ frame = 0
  /\ worker = Ceiling /\ limit = Ceiling /\ gpc = "idle"
  /\ events = 0 /\ taken = 0 /\ raced = FALSE

----------------------------------------------------------------------------
(* The GTK thread                                                           *)

\* set_resolution(): the time stamp moves only if the resolution does.
SetResolution(size) ==
  /\ resolution' = size
  /\ settled' = (settled /\ size = resolution)

\* The slider, from 10 to 200 percent of the window.
ChangeResolution ==
  /\ gpc = "idle" /\ Event
  /\ \E size \in {1, native, Larger} : SetResolution(size)
  /\ UNCHANGED <<native, active, stop, capture, lastPut, queue, process, worker, limit,
                 gpc, taken, raced>>

\* poll_geometry(): the slider's percentage counts for the new size; at 100 it is the
\* window's, beyond it may be larger.
WindowResized ==
  /\ gpc = "idle" /\ Event
  /\ native' = IF native = Ceiling THEN Larger ELSE Ceiling
  /\ \E size \in IF resolution = 1 THEN {1} ELSE {native', Larger} : SetResolution(size)
  /\ UNCHANGED <<active, stop, capture, lastPut, queue, process, worker, limit, gpc,
                 taken, raced>>

\* The hotkey.
ToggleActive ==
  /\ gpc = "idle" /\ Event
  /\ active' = ~active
  /\ UNCHANGED <<resolution, settled, native, stop, capture, lastPut, queue, process,
                 worker, limit,
                 gpc, taken, raced>>

\* RECONFIGURE_DEBOUNCE_SEC have passed.
Settle ==
  /\ ~settled
  /\ settled' = TRUE
  /\ UNCHANGED <<resolution, native, active, stop, capture, lastPut, queue, process,
                 worker, limit,
                 gpc, events, taken, raced>>

\* restart_with_nr_preset(): both threads are told to end ...
Restart ==
  /\ gpc = "idle" /\ Event
  /\ stop' = TRUE
  /\ gpc' = "join capture"
  /\ UNCHANGED <<panel, capture, lastPut, queue, process, worker, limit, taken, raced>>

\* ... and waited for, one after the other, five seconds each ...
JoinCapture ==
  /\ gpc = "join capture"
  /\ \/ cpc[Main] = "ended" /\ UNCHANGED events
     \/ cpc[Main] # "ended" /\ Event
  /\ gpc' = "join process"
  /\ UNCHANGED <<panel, stop, capture, lastPut, queue, process, worker, limit, taken,
                 raced>>

JoinProcess ==
  /\ gpc = "join process"
  /\ \/ ppc = "ended" /\ UNCHANGED events
     \/ ppc # "ended" /\ Event
  /\ gpc' = "check"
  /\ UNCHANGED <<panel, stop, capture, lastPut, queue, process, worker, limit, taken,
                 raced>>

\* ... if one is alive that is all, `stop' stays set.
GiveUp ==
  /\ gpc = "check"
  /\ cpc[Main] # "ended" \/ ppc # "ended"
  /\ gpc' = "idle"
  /\ UNCHANGED <<panel, stop, capture, lastPut, queue, process, worker, limit, events,
                 taken, raced>>

\* The old worker is closed, `stop' cleared: for the other capture threads as well.
CloseOld ==
  /\ gpc = "check"
  /\ cpc[Main] = "ended" /\ ppc = "ended"
  /\ worker' = 0 /\ limit' = 0
  /\ stop' = FALSE
  /\ gpc' = "new"
  /\ UNCHANGED <<panel, capture, lastPut, queue, process, events, taken, raced>>

\* A new worker, of today's resolution, and two threads.  Its memory for the input is
\* made for the window's first size, that for the output, as nothing is said of it, for
\* today's resolution.
StartNew ==
  /\ gpc = "new" /\ resolution <= Ceiling
  /\ worker' = resolution /\ limit' = resolution
  /\ cpc' = [cpc EXCEPT ![Main] = "head"]
  /\ ppc' = "start"
  /\ gpc' = "idle"
  /\ UNCHANGED <<panel, stop, csize, my, lastPut, queue, applied, wanted, frame, events,
                 taken, raced>>

\* Its constructor raises: no thread is started.
NewFails ==
  /\ gpc = "new"
  /\ IF resolution > Ceiling THEN UNCHANGED events ELSE Event
  /\ gpc' = "idle"
  /\ UNCHANGED <<panel, stop, capture, lastPut, queue, process, worker, limit, taken,
                 raced>>

\* shutdown(): the worker is closed under whoever uses it.
Shutdown ==
  /\ gpc = "idle" /\ Event
  /\ stop' = TRUE /\ worker' = 0 /\ limit' = 0
  /\ gpc' = "quit"
  /\ UNCHANGED <<panel, capture, lastPut, queue, process, taken, raced>>

----------------------------------------------------------------------------
(* capture_loop()                                                           *)

\* Fault: the window's size is captured.
SizeOfWindow == native

\* tw, th: the work resolution, read afresh in every round.
WorkSize == resolution

LookForStop(t) ==
  /\ cpc[t] = "head"
  /\ IF stop THEN cpc' = [cpc EXCEPT ![t] = "ended"] /\ UNCHANGED csize
     ELSE /\ active
          /\ cpc' = [cpc EXCEPT ![t] = "number"]
          /\ csize' = [csize EXCEPT ![t] = WorkSize]
  /\ UNCHANGED <<panel, stop, my, lastPut, queue, process, worker, limit, gpc, events,
                 taken, raced>>

\* The numbers that still matter; only their order does, so they are kept dense.
InUse == {my[t] : t \in Threads} \cup {queue[i].num : i \in DOMAIN queue} \cup {lastPut, taken, 0}
Rank(n) == Cardinality({m \in InUse : m < n})

\* seq_counter goes up by one.
DrawNumber(t) ==
  /\ cpc[t] = "number"
  /\ my' = [s \in Threads |-> IF s = t THEN Cardinality(InUse) ELSE Rank(my[s])]
  /\ lastPut' = Rank(lastPut) /\ taken' = Rank(taken)
  /\ queue' = [i \in DOMAIN queue |-> [queue[i] EXCEPT !.num = Rank(@)]]
  /\ cpc' = [cpc EXCEPT ![t] = "capture"]
  /\ UNCHANGED <<panel, stop, csize, process, worker, limit, gpc, events, raced>>

\* No picture arrives: the number is forgotten.
CaptureFails(t) ==
  /\ cpc[t] = "capture" /\ Event
  /\ cpc' = [cpc EXCEPT ![t] = "head"]
  /\ my' = [my EXCEPT ![t] = 0] /\ csize' = [csize EXCEPT ![t] = 0]
  /\ UNCHANGED <<panel, stop, lastPut, queue, process, worker, limit, gpc, taken, raced>>

\* Fault: whoever is ready puts its frame.
PutAny(t) == FALSE

\* A newer frame has been put.
TooLate(t) == my[t] < lastPut

\* The picture has arrived.
Deliver(t) ==
  /\ cpc[t] = "capture"
  /\ IF TooLate(t) THEN UNCHANGED <<lastPut, queue>>
     ELSE /\ lastPut' = my[t]
          /\ queue' = <<[num |-> my[t], size |-> csize[t]]>>
  /\ cpc' = [cpc EXCEPT ![t] = "head"]
  /\ my' = [my EXCEPT ![t] = 0] /\ csize' = [csize EXCEPT ![t] = 0]
  /\ UNCHANGED <<panel, stop, process, worker, limit, gpc, events, taken, raced>>

----------------------------------------------------------------------------
(* process_loop()                                                           *)

\* applied_resolution is read by the new thread, not by who made the worker.
Begin ==
  /\ ppc = "start"
  /\ applied' = resolution
  /\ raced' = (raced \/ resolution # worker)
  /\ ppc' = "head"
  /\ UNCHANGED <<panel, stop, capture, lastPut, queue, wanted, frame, worker, limit,
                 gpc, events, taken>>

\* stable_snapshot().
Snapshot ==
  /\ ppc = "head"
  /\ \/ stop /\ ppc' = "ended" /\ applied' = 0 /\ UNCHANGED wanted
     \/ /\ ~stop /\ settled /\ resolution # applied
        /\ ppc' = "reconfigure" /\ wanted' = resolution /\ UNCHANGED applied
     \/ /\ ~stop /\ (~settled \/ resolution = applied)
        /\ ppc' = "get" /\ UNCHANGED <<wanted, applied>>
  /\ UNCHANGED <<panel, stop, capture, lastPut, queue, frame, worker, limit,
                 gpc, events, taken, raced>>

\* Fault: the worker is asked for any size.
Unchecked == TRUE

\* Worker._reconfigure() refuses what its memory was not made for.
WithinCeiling == wanted <= limit

\* worker.reconfigure(); if it raises the loop goes on with what was applied.
Reconfigure ==
  /\ ppc = "reconfigure"
  /\ \/ /\ worker # 0 /\ WithinCeiling
        /\ worker' = wanted /\ applied' = wanted
        /\ UNCHANGED events
     \/ /\ IF worker = 0 \/ wanted > limit THEN UNCHANGED events ELSE Event
        /\ UNCHANGED <<worker, applied>>
  /\ ppc' = "get" /\ wanted' = 0
  /\ UNCHANGED <<panel, stop, capture, lastPut, queue, frame, gpc, taken, raced, limit>>

\* A frame of another size is not given to the worker.
Fits(f) == f.size = applied

GetFrame ==
  /\ ppc = "get"
  /\ IF queue = <<>> THEN ppc' = "head" /\ UNCHANGED <<queue, frame, taken>>
     ELSE /\ queue' = <<>>
          /\ taken' = queue[1].num
          /\ frame' = IF Fits(queue[1]) THEN queue[1].size ELSE 0
          /\ ppc' = IF Fits(queue[1]) THEN "process" ELSE "head"
  /\ UNCHANGED <<panel, stop, capture, lastPut, applied, wanted, worker, limit, gpc,
                 events, raced>>

\* worker.process() answers.
Processed ==
  /\ ppc = "process" /\ worker = frame
  /\ ppc' = "head" /\ frame' = 0
  /\ UNCHANGED <<panel, stop, capture, lastPut, queue, applied, wanted, worker, limit,
                 gpc, events,
                 taken, raced>>

\* Or raises: the frame is not of the worker's size, the worker is closed or dead.
\* This ends the thread.
ProcessFails ==
  /\ ppc = "process"
  /\ IF worker # frame THEN UNCHANGED events ELSE Event
  /\ ppc' = "ended" /\ frame' = 0 /\ applied' = 0
  /\ UNCHANGED <<panel, stop, capture, lastPut, queue, wanted, worker, limit,
                 gpc, taken, raced>>

----------------------------------------------------------------------------
Gtk == \/ ChangeResolution \/ WindowResized \/ ToggleActive \/ Shutdown
       \/ Restart \/ JoinCapture \/ JoinProcess \/ GiveUp \/ CloseOld \/ StartNew \/ NewFails
Capture(t) == LookForStop(t) \/ DrawNumber(t) \/ Deliver(t)
Process == Begin \/ Snapshot \/ Reconfigure \/ GetFrame \/ Processed \/ ProcessFails

Next == Gtk \/ Settle \/ (\E t \in Threads : Capture(t) \/ CaptureFails(t)) \/ Process

Spec == Init /\ [][Next]_vars

\* Threads run; a capture and a call of the worker end, as they have time-outs.
\* The GTK thread finishes a restart; what the user does is not promised.
FairSpec ==
  /\ Spec
  /\ WF_vars(Settle) /\ WF_vars(Process)
  /\ \A t \in Threads : WF_vars(Capture(t))
  /\ WF_vars(JoinCapture \/ JoinProcess \/ GiveUp \/ CloseOld \/ StartNew \/ NewFails)

----------------------------------------------------------------------------
(* Properties                                                               *)

\* Types; the numbers stay dense.
TypeOK ==
  /\ resolution \in Sizes /\ settled \in BOOLEAN /\ native \in Sizes /\ active \in BOOLEAN
  /\ stop \in BOOLEAN
  /\ cpc \in [Threads -> {"head", "number", "capture", "ended"}]
  /\ csize \in [Threads -> Sizes \cup {0}]
  /\ \A n \in InUse : n \in 0..Cardinality(Threads) + 3
  /\ Len(queue) <= 1
  /\ ppc \in {"start", "head", "reconfigure", "get", "process", "ended"}
  /\ applied \in Sizes \cup {0} /\ wanted \in Sizes \cup {0}
  /\ worker \in {0, 1, Ceiling} /\ limit \in {0, 1, Ceiling}
  /\ gpc \in {"idle", "join capture", "join process", "check", "new", "quit"}

\* live_filter.py:869: captures run side by side and over restarts, yet the frame
\* that waits was numbered after the one taken last: the process thread never goes
\* back in time (in the order of the numbers, which are drawn before the picture
\* is taken).
QueueIsNewer == queue # <<>> => queue[1].num > taken

\* live_filter.py:941-955, worker.py:130: the worker is given frames of its own size
\* only, through resizes, refusals and restarts, unless the resolution has changed
\* between the making of the worker and the start of its thread, or at shutdown.
FedAtWorkersSize == ppc = "process" /\ ~raced /\ gpc # "quit" => frame = worker

\* Both: what reaches the worker is newer than what did before, and fits.
NewerAndFits == QueueIsNewer /\ FedAtWorkersSize

\* live_filter.py:950 "frames stopped, one static frame showing": frames are
\* processed for ever, unless the overlay is off, `stop' is set, the process thread
\* has ended with its worker, or the resolution is beyond the worker's memory.
FramesFlow ==
  []<>(ppc = "process" \/ ~active \/ stop \/ ppc = "ended" \/ resolution > limit)

\* worker.py:44-45, live_filter.py:776: the worker is made for "the largest size you
\* will ever request": as long as the window has the size it had at the start, a
\* worker takes its full resolution.
WindowWithinCeiling == native = Ceiling /\ worker # 0 => native <= limit

=============================================================================
