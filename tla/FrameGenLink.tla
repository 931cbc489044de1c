----------------------------- MODULE FrameGenLink -----------------------------
(***************************************************************************)
(* The two-slot frame-generation pipeline: the Python client (begin / end   *)
(* of app/framegen/module_client.py and nsngxg.py) in one process, and the  *)
(* host (hosts/ngxdlssg_vk_host.cpp, and ngxdlssg_host.cpp with the same    *)
(* structure on D3D12) with its main thread, its completion thread and the  *)
(* GPU queue in another.  They share an input file of two frame slots, an   *)
(* output ring of RING regions and a control block, and take no lock        *)
(* across the process border.                                               *)
(*                                                                          *)
(* A picture is the number of the begin() call whose frame it is, or is     *)
(* generated from (0: none, torn or never written).  All frames generated   *)
(* for one request are one picture; a slot's flag and motion words travel   *)
(* with the slot's picture.                                                 *)
(***************************************************************************)
EXTENDS Integers, Sequences

CONSTANTS
  MaxCalls,      \* bound: begin() calls
  MaxTimeouts,   \* bound: client waits that run into their 10 s timeout
  MaxStalls,     \* bound: fence waits that run into their 10 s timeout
  MayDie,        \* whether the host process may die
  Callers        \* who uses the link: "live" (live_filter.py) and "bridge"
                 \* (yt_bridge.py)

ASSUME BoundsAssumption ==
  MaxCalls \in Nat /\ MaxTimeouts \in Nat /\ MaxStalls \in Nat
ASSUME CallersAssumption ==
  MayDie \in BOOLEAN /\ Callers \subseteq {"live", "bridge"}

RING == 4        \* output regions
RESULTS == 4     \* result words in the control block

VARIABLES
  caller,           \* the caller of this run
  req, ack, quit,   \* REQ_SEQ, ACK_SEQ and QUIT of the control block
  inSlot,           \* the input file: slot -> picture
  res,              \* result words: seq % 4 -> [ok, gen]
  ring,             \* the output file: region -> picture
  pc,               \* where the client thread is
  seq,              \* the client's _seq
  call,             \* number of the current begin() call
  pend,             \* tokens not collected yet, oldest first
  timeouts,         \* timeouts so far
  given,            \* what end() last returned: [request, shows]
  hpc,              \* where the host's main thread is
  next,             \* the host's `next'
  slotFree,         \* slot -> is the completion thread done with it
  upload,           \* slot -> picture in its staging buffer
  done,             \* the queue of Done records to the completion thread
  gpu,              \* command buffers submitted and not executed
  fence,            \* slot -> signalled
  readback,         \* slot -> picture in its readback buffer
  cpc,              \* where the completion thread is
  cur,              \* the Done record it works on
  stalls,           \* fence waits that timed out so far
  asked,            \* history: request -> picture
  views             \* history: the views handed out: [of, shows]

control == <<req, ack, quit>>
client  == <<caller, pc, seq, call, pend, timeouts, given, asked, views>>
main    == <<hpc, next>>
device  == <<gpu, fence, readback>>
finish  == <<cpc, cur, stalls>>
vars    == <<control, inSlot, res, ring, client, main, slotFree, upload, done,
             device, finish>>

Done(s, ok) == [seq |-> s, ok |-> ok]
slotOf(s) == s % 2
\* The first frame only gives the host its history.
Generates(d) == d.ok /\ d.seq # 1

\* live_filter.py hands a frame over before it collects the previous one;
\* yt_bridge.py calls submit().
InFlight == IF caller = "live" THEN 2 ELSE 1

Init ==
  /\ caller \in Callers
  /\ req = 0 /\ ack = 0 /\ quit = FALSE
  /\ inSlot = [i \in 0..1 |-> 0]
  /\ res = [i \in 0..RESULTS - 1 |-> [ok |-> FALSE, gen |-> FALSE]]
  /\ ring = [i \in 0..RING - 1 |-> 0]
  /\ pc = "idle" /\ seq = 0 /\ call = 0 /\ pend = <<>> /\ timeouts = 0
  /\ given = [request |-> 0, shows |-> 0]
  /\ asked = <<>> /\ views = {}
  /\ hpc = "polling" /\ next = 1
  /\ slotFree = [i \in 0..1 |-> TRUE]
  /\ upload = [i \in 0..1 |-> 0]
  /\ done = <<>> /\ gpu = <<>>
  /\ fence = [i \in 0..1 |-> FALSE]
  /\ readback = [i \in 0..1 |-> 0]
  /\ cpc = "waiting" /\ cur = Done(0, FALSE) /\ stalls = 0

----------------------------------------------------------------------------
(* The client thread                                                        *)

\* begin(): a caller collects its oldest token before it has too many.
Begin ==
  /\ pc = "idle"
  /\ call < MaxCalls
  /\ Len(pend) < InFlight
  /\ call' = call + 1
  /\ pc' = "slotwait"
  /\ UNCHANGED <<caller, control, inSlot, res, ring, seq, pend, timeouts, given, asked,
                 views, main, slotFree, upload, done, device, finish>>

\* Fault: waits for the frame three back, as if there were three slots.
SlotIsAnsweredOneLate == seq + 1 > 3 => ack >= seq + 1 - 3

\* The wait at the top of begin(): the frame two back has its answer.
SlotIsAnswered == seq + 1 > 2 => ack >= seq + 1 - 2

BeginCopy ==
  /\ pc = "slotwait"
  /\ SlotIsAnswered
  /\ inSlot' = [inSlot EXCEPT ![slotOf(seq + 1)] = 0]
  /\ pc' = "copying"
  /\ UNCHANGED <<caller, control, res, ring, seq, call, pend, timeouts, given, asked,
                 views, main, slotFree, upload, done, device, finish>>

EndCopy ==
  /\ pc = "copying"
  /\ inSlot' = [inSlot EXCEPT ![slotOf(seq + 1)] = call]
  /\ pc' = "publish"
  /\ UNCHANGED <<caller, control, res, ring, seq, call, pend, timeouts, given, asked,
                 views, main, slotFree, upload, done, device, finish>>

\* The slot's words are in place; REQ_SEQ goes last.
Publish ==
  /\ pc = "publish"
  /\ seq' = seq + 1
  /\ req' = seq + 1
  /\ asked' = Append(asked, call)
  /\ pend' = Append(pend, seq + 1)
  /\ pc' = "idle"
  /\ UNCHANGED <<caller, ack, quit, inSlot, res, ring, call, timeouts, given, views,
                 main, slotFree, upload, done, device, finish>>

\* end() for the oldest token.
End ==
  /\ pc = "idle"
  /\ pend # <<>>
  /\ pc' = "endwait"
  /\ UNCHANGED <<caller, control, inSlot, res, ring, seq, call, pend, timeouts, given,
                 asked, views, main, slotFree, upload, done, device, finish>>

\* Fault: believes the previous acknowledgement.
EndReturnsEarly ==
  /\ pc = "endwait"
  /\ ack + 1 >= Head(pend)
  /\ LET s == Head(pend) IN
       /\ res[s % RESULTS].ok
       /\ given' = [request |-> s, shows |-> IF res[s % RESULTS].gen
                                             THEN ring[s % RING] ELSE 0]
       /\ views' = IF res[s % RESULTS].gen
                    THEN views \cup {[of |-> s, shows |-> ring[s % RING]]}
                    ELSE views
  /\ pend' = Tail(pend)
  /\ pc' = "idle"
  /\ UNCHANGED <<caller, control, inSlot, res, ring, seq, call, timeouts, asked,
                 main, slotFree, upload, done, device, finish>>

\* end(): views into the ring, not copies.
EndReturns ==
  /\ pc = "endwait"
  /\ ack >= Head(pend)
  /\ LET s == Head(pend) IN
       /\ res[s % RESULTS].ok
       /\ given' = [request |-> s, shows |-> IF res[s % RESULTS].gen
                                             THEN ring[s % RING] ELSE 0]
       /\ views' = IF res[s % RESULTS].gen
                    THEN views \cup {[of |-> s, shows |-> ring[s % RING]]}
                    ELSE views
  /\ pend' = Tail(pend)
  /\ pc' = "idle"
  /\ UNCHANGED <<caller, control, inSlot, res, ring, seq, call, timeouts, asked,
                 main, slotFree, upload, done, device, finish>>

\* What an exception does: live_filter.py closes the backend, yt_bridge.py logs
\* it and goes on with the same one.
GiveUp == IF caller = "live" THEN pc' = "closed" /\ quit' = TRUE
                             ELSE pc' = "idle" /\ UNCHANGED quit

\* end(): the host answered that the frame failed.
EndFails ==
  /\ pc = "endwait"
  /\ ack >= Head(pend)
  /\ ~res[Head(pend) % RESULTS].ok
  /\ given' = [request |-> Head(pend), shows |-> 0]
  /\ pend' = Tail(pend)
  /\ GiveUp
  /\ UNCHANGED <<caller, req, ack, inSlot, res, ring, seq, call, timeouts, asked, views,
                 main, slotFree, upload, done, device, finish>>

\* _wait_ack() raises: ten seconds went by, or the process is gone.
WaitRaises ==
  /\ \/ pc = "slotwait" /\ ~SlotIsAnswered /\ UNCHANGED pend
     \/ pc = "endwait" /\ ack < Head(pend) /\ pend' = Tail(pend)
  /\ \/ hpc = "dead" /\ UNCHANGED timeouts
     \/ timeouts < MaxTimeouts /\ timeouts' = timeouts + 1
  /\ GiveUp
  /\ UNCHANGED <<caller, req, ack, inSlot, res, ring, seq, call, given, asked, views,
                 main, slotFree, upload, done, device, finish>>

\* close(): QUIT, whatever is still pending.
Close ==
  /\ pc = "idle"
  /\ quit' = TRUE
  /\ pc' = "closed"
  /\ UNCHANGED <<caller, req, ack, inSlot, res, ring, seq, call, pend, timeouts, given,
                 asked, views, main, slotFree, upload, done, device, finish>>

\* close(): three seconds, then SIGKILL.
Kill ==
  /\ pc = "closed"
  /\ timeouts < MaxTimeouts
  /\ hpc \notin {"exited", "dead"}
  /\ hpc' = "dead"
  /\ timeouts' = timeouts + 1
  /\ UNCHANGED <<caller, control, inSlot, res, ring, pc, seq, call, pend, given, asked,
                 views, next, slotFree, upload, done, device, finish>>

Client == \/ Begin \/ BeginCopy \/ EndCopy \/ Publish \/ End \/ EndReturns
          \/ EndFails \/ WaitRaises \/ Close \/ Kill

----------------------------------------------------------------------------
(* The host's main thread                                                   *)

\* A request is there: wait for its slot, then own it.
TakeSlot ==
  /\ hpc = "polling"
  /\ ~quit
  /\ next <= req
  /\ hpc' = "slotwait"
  /\ UNCHANGED <<control, inSlot, res, ring, client, next, slotFree, upload,
                 done, device, finish>>

\* The copy from the input file into the staging buffer begins.
OwnSlot ==
  /\ hpc = "slotwait"
  /\ slotFree[slotOf(next)]
  /\ slotFree' = [slotFree EXCEPT ![slotOf(next)] = FALSE]
  /\ upload' = [upload EXCEPT ![slotOf(next)] = 0]
  /\ hpc' = "copying"
  /\ UNCHANGED <<control, inSlot, res, ring, client, next, done, device, finish>>

CopiedIn ==
  /\ hpc = "copying"
  /\ upload' = [upload EXCEPT ![slotOf(next)] = inSlot[slotOf(next)]]
  /\ hpc' = "recording"
  /\ UNCHANGED <<control, inSlot, res, ring, client, next, slotFree, done,
                 device, finish>>

\* Fault: the host counts frames from zero where the client counts from one.
SubmitFrameFromZero ==
  /\ hpc = "recording"
  /\ \E ok \in BOOLEAN :
       /\ gpu' = Append(gpu, Done(next - 1, ok))
       /\ done' = Append(done, Done(next - 1, ok))
  /\ next' = next + 1
  /\ hpc' = "polling"
  /\ UNCHANGED <<control, inSlot, res, ring, client, slotFree, upload, fence,
                 readback, finish>>

\* Recorded (the evaluation may have failed) and submitted; the completion
\* thread learns of it and the main thread goes on to the next frame.
SubmitFrame ==
  /\ hpc = "recording"
  /\ \E ok \in BOOLEAN :
       /\ gpu' = Append(gpu, Done(next, ok))
       /\ done' = Append(done, Done(next, ok))
  /\ next' = next + 1
  /\ hpc' = "polling"
  /\ UNCHANGED <<control, inSlot, res, ring, client, slotFree, upload, fence,
                 readback, finish>>

\* QUIT ends the loop; the completion thread is told, and joined.
MainStops ==
  /\ hpc = "polling"
  /\ quit
  /\ hpc' = "stopping"
  /\ UNCHANGED <<control, inSlot, res, ring, client, next, slotFree, upload,
                 done, device, finish>>

Exit ==
  /\ hpc = "stopping"
  /\ cpc = "ended"
  /\ hpc' = "exited"
  /\ UNCHANGED <<control, inSlot, res, ring, client, next, slotFree, upload,
                 done, device, finish>>

Main == TakeSlot \/ OwnSlot \/ CopiedIn \/ SubmitFrame \/ MainStops \/ Exit

----------------------------------------------------------------------------
(* The GPU queue: external, executes command buffers in order               *)

\* Uploads the slot's staging buffer, evaluates, fills its readback buffers.
GpuExecutes ==
  /\ gpu # <<>> /\ hpc # "dead"
  /\ LET d == Head(gpu) IN
       /\ fence' = [fence EXCEPT ![slotOf(d.seq)] = TRUE]
       /\ readback' = IF Generates(d)
            THEN [readback EXCEPT ![slotOf(d.seq)] = upload[slotOf(d.seq)]]
            ELSE readback
  /\ gpu' = Tail(gpu)
  /\ UNCHANGED <<control, inSlot, res, ring, client, main, slotFree, upload,
                 done, finish>>

----------------------------------------------------------------------------
(* The host's completion thread                                             *)

TakeDone ==
  /\ cpc = "waiting" /\ hpc # "dead"
  /\ done # <<>>
  /\ cur' = Head(done)
  /\ done' = Tail(done)
  /\ cpc' = "fence"
  /\ UNCHANGED <<control, inSlot, res, ring, client, main, slotFree, upload,
                 device, stalls>>

\* Fault: waits for every published request, served or not.
CompletionEndsWhenAllAnswered ==
  /\ cpc = "waiting"
  /\ done = <<>> /\ ack = req
  /\ hpc = "stopping"
  /\ cpc' = "ended"
  /\ UNCHANGED <<control, inSlot, res, ring, client, main, slotFree, upload,
                 done, device, cur, stalls>>

\* Nothing left to do and the main thread has stopped.
CompletionEnds ==
  /\ cpc = "waiting"
  /\ done = <<>>
  /\ hpc = "stopping"
  /\ cpc' = "ended"
  /\ UNCHANGED <<control, inSlot, res, ring, client, main, slotFree, upload,
                 done, device, cur, stalls>>

\* The conversion into the output ring begins: the region is being written.
StartConverting ==
  /\ cpc' = "converting"
  /\ fence' = [fence EXCEPT ![slotOf(cur.seq)] = FALSE]
  /\ ring' = IF Generates(cur) THEN [ring EXCEPT ![cur.seq % RING] = 0] ELSE ring
  /\ UNCHANGED <<control, inSlot, res, client, main, slotFree, upload, done, gpu,
                 readback, cur>>

Finished ==
  /\ cpc = "fence" /\ hpc # "dead"
  /\ fence[slotOf(cur.seq)]
  /\ StartConverting
  /\ UNCHANGED stalls

\* vkWaitForFences returns after ten seconds, and its result is not looked at.
FenceTimesOut ==
  /\ cpc = "fence" /\ hpc # "dead"
  /\ ~fence[slotOf(cur.seq)]
  /\ stalls < MaxStalls
  /\ stalls' = stalls + 1
  /\ StartConverting

Converted ==
  /\ cpc = "converting" /\ hpc # "dead"
  /\ ring' = IF Generates(cur)
       THEN [ring EXCEPT ![cur.seq % RING] = readback[slotOf(cur.seq)]] ELSE ring
  /\ res' = [res EXCEPT ![cur.seq % RESULTS] =
               [ok |-> cur.ok, gen |-> Generates(cur)]]
  /\ cpc' = "answering"
  /\ UNCHANGED <<control, inSlot, client, main, slotFree, upload, done, device,
                 cur, stalls>>

Acknowledge ==
  /\ cpc = "answering" /\ hpc # "dead"
  /\ ack' = cur.seq
  /\ cpc' = "freeing"
  /\ UNCHANGED <<req, quit, inSlot, res, ring, client, main, slotFree, upload,
                 done, device, cur, stalls>>

\* Fault: the slot is never given back.
FreeSlotForgotten ==
  /\ cpc = "freeing" /\ hpc # "dead"
  /\ slotFree' = slotFree
  /\ cpc' = "waiting"
  /\ UNCHANGED <<control, inSlot, res, ring, client, main, upload, done, device,
                 cur, stalls>>

FreeSlot ==
  /\ cpc = "freeing" /\ hpc # "dead"
  /\ slotFree' = [slotFree EXCEPT ![slotOf(cur.seq)] = TRUE]
  /\ cpc' = "waiting"
  /\ UNCHANGED <<control, inSlot, res, ring, client, main, upload, done, device,
                 cur, stalls>>

Completion == \/ TakeDone \/ CompletionEnds \/ Finished \/ FenceTimesOut
              \/ Converted \/ Acknowledge \/ FreeSlot

\* The process dies between any two steps.
HostDies ==
  /\ MayDie
  /\ hpc \notin {"exited", "dead"}
  /\ hpc' = "dead"
  /\ UNCHANGED <<control, inSlot, res, ring, client, next, slotFree, upload,
                 done, device, finish>>

Next == Client \/ Main \/ GpuExecutes \/ Completion \/ HostDies

Spec == Init /\ [][Next]_vars

----------------------------------------------------------------------------
(* Properties                                                               *)

Pics == 0..MaxCalls
Stalled == stalls > 0
Record == [seq : Nat \ {0}, ok : BOOLEAN]

ClientOK ==
  /\ caller \in {"live", "bridge"}
  /\ pc \in {"idle", "slotwait", "copying", "publish", "endwait", "closed"}
  /\ seq \in Nat /\ call \in Pics
  /\ pend \in Seq(Nat)
  /\ timeouts \in 0..MaxTimeouts
  /\ given \in [request : Nat, shows : Pics]
  /\ asked \in Seq(Pics)
  /\ views \subseteq [of : Nat, shows : Pics]

FilesOK ==
  /\ req \in Nat /\ ack \in Nat /\ quit \in BOOLEAN
  /\ inSlot \in [0..1 -> Pics]
  /\ res \in [0..RESULTS - 1 -> [ok : BOOLEAN, gen : BOOLEAN]]
  /\ ring \in [0..RING - 1 -> Pics]

HostOK ==
  /\ hpc \in {"polling", "slotwait", "copying", "recording", "stopping",
              "exited", "dead"}
  /\ next \in Nat
  /\ slotFree \in [0..1 -> BOOLEAN]
  /\ upload \in [0..1 -> Pics]
  /\ done \in Seq(Record) /\ gpu \in Seq(Record)
  /\ fence \in [0..1 -> BOOLEAN]
  /\ readback \in [0..1 -> Pics]
  /\ cpc \in {"waiting", "fence", "converting", "answering", "freeing", "ended"}
  /\ cur \in [seq : Nat, ok : BOOLEAN]
  /\ stalls \in 0..MaxStalls

\* Every variable keeps its type (the client's fields, the host's locals and
\* the three shared files).
TypeOK == ClientOK /\ FilesOK /\ HostOK

\* module_client.py:75-76 waits only for the frame two back, and the slots are
\* copied with no lock: while the host copies a slot it holds the whole
\* picture of the very request the host is serving.
InputWhole == hpc = "copying" => inSlot[slotOf(next)] = asked[next]

\* ngxdlssg_vk_host.cpp:195-198: "a completion thread converts the finished
\* frame's readback into the output ring": what is converted is the picture
\* the GPU made from the request being answered, never one it has not
\* finished or one of the slot's next frame.  Only a fence wait that runs into
\* its ten seconds (line 207 does not look at the result) breaks it.
ConvertsFinished ==
  ~Stalled /\ cpc = "converting" /\ Generates(cur) =>
    readback[slotOf(cur.seq)] = asked[cur.seq]

\* module_client.py:89 and nsngxg.py:56 hand out views, not copies, "valid for
\* three more requests" after their own: until the fourth is published the
\* region still shows what it showed.
ViewsStayValid ==
  \A v \in views : seq - v.of < RING => ring[v.of % RING] = v.shows

\* What lies in the buffers nobody locks is whole as long as somebody looks at it.
BuffersHold == InputWhole /\ ConvertsFinished /\ ViewsStayValid

\* The link is the two-deep first-in first-out service of FrameGenService,
\* whatever the client gives up on, fails or dies: at most two frames are
\* unanswered, answers come in order, and end(s) shows request s
\* (module_client.py:71-95).  It is, until a fence wait has timed out.
Service ==
  INSTANCE FrameGenService WITH
    Depth <- 2, Pictures <- 1..MaxCalls, answered <- ack

ServiceSpec == Service!Init /\ [][Service!Next \/ Stalled']_<<asked, ack, given>>

\* Threads keep running and the GPU keeps executing while the host lives, and
\* the client's wait loop looks whether the process is gone.  When to call, and
\* when to close, is the caller's choice and is not fair.
Fairness ==
  /\ WF_vars(Main) /\ WF_vars(GpuExecutes) /\ WF_vars(Completion)
  /\ WF_vars(BeginCopy \/ EndCopy \/ Publish)
  /\ WF_vars(EndReturns \/ EndFails)
  /\ WF_vars(hpc = "dead" /\ WaitRaises)

FairSpec == Spec /\ Fairness

\* begin() and end() return: main thread, completion thread and client never
\* wait for each other in a circle although slots are freed only after the
\* answer is out, and a host that dies does not leave the client waiting.
CallsReturn == pc \in {"slotwait", "endwait"} ~> pc \in {"idle", "closed"}

\* close() with frames still in flight: the main thread leaves its loop, the
\* completion thread drains its queue, and the process is gone in the end.
CloseEndsHost == pc = "closed" ~> hpc \in {"exited", "dead"}
=============================================================================
