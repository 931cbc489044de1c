---------------------------- MODULE SingleSlotLink ----------------------------
(***************************************************************************)
(* The one-frame-at-a-time links: DlssgFrameGen.submit with dlssg_host.cpp  *)
(* or fsr3fg_host.cpp, RtxVsrUpscaler.upscale with vsr_host.cpp or          *)
(* vsr_native_host.py, and GpuJpegEncoder.encode with jpeg_encode_host.py.  *)
(* One input slot, an output of `Regions' regions, and REQ_SEQ / ACK_SEQ.   *)
(* The clients differ in when they count a request, the hosts in which      *)
(* number they acknowledge: `kind' says which of the three it is.           *)
(*                                                                          *)
(* A picture is the number of the call whose frame it is or is made from    *)
(* (0: none, torn or never written).                                        *)
(***************************************************************************)
EXTENDS Integers

CONSTANTS
  Kinds,         \* which of the links: "submit", "upscale", "encode"
  MaxCalls,      \* bound: calls
  MaxTimeouts,   \* bound: waits that time out
  MayDie         \* whether the host may die

ASSUME KindsAssumption == Kinds \subseteq {"submit", "upscale", "encode"}
ASSUME BoundsAssumption ==
  MaxCalls \in Nat /\ MaxTimeouts \in Nat /\ MayDie \in BOOLEAN

VARIABLES
  kind,            \* the link this run is about
  keeps,           \* whether its caller goes on after an exception
  req, ack, quit,  \* the control block's sequence words and quit
  word,            \* its result words: [ok, gen]
  inBuf,           \* the input file: a picture
  out,             \* the output file: region -> picture
  pc,              \* where the client is
  seq,             \* the client's _seq
  call,            \* number of the call in progress
  timeouts,        \* timeouts so far
  given,           \* what the last successful call returned
  hpc,             \* where the host's loop is
  taken,           \* REQ_SEQ when it started on the job
  job,             \* the picture it works on
  dst,             \* the region it writes
  served,          \* whether it has served a frame before (frameId > 0)
  views,           \* history: the views handed out: [of, shows]
  clean            \* history: the call began when the link was settled

control == <<req, ack, quit, word>>
files   == <<inBuf, out>>
client  == <<kind, keeps, pc, seq, call, timeouts, given, views, clean>>
host    == <<hpc, taken, job, dst, served>>
vars    == <<control, files, client, host>>

\* Frame generators hand out views into a ring; the others one picture's copy.
Regions == IF kind = "submit" THEN 4 ELSE 1

\* A frame generator's first frame only serves as history.
NeedsHistory == kind = "submit"

\* live_filter.py closes a frame generator or upscaler that raised; yt_bridge.py
\* goes on with both, and so does the thread that waits for encode()'s lock.
Init ==
  /\ kind \in Kinds
  /\ keeps \in IF kind = "encode" THEN {TRUE} ELSE BOOLEAN
  /\ req = 0 /\ ack = 0 /\ quit = FALSE
  /\ word = [ok |-> FALSE, gen |-> FALSE]
  /\ inBuf = 0
  /\ out = [r \in 0..Regions - 1 |-> 0]
  /\ pc = "idle" /\ seq = 0 /\ call = 0 /\ timeouts = 0
  /\ given = [to |-> 0, gen |-> FALSE, shows |-> 0]
  /\ views = {} /\ clean = TRUE
  /\ hpc = "polling" /\ taken = 0 /\ job = 0 /\ dst = 0 /\ served = FALSE

----------------------------------------------------------------------------
(* The client                                                               *)

\* Whatever was asked has been answered, and the client has counted the answer.
Settled == ack = req /\ seq = req

\* The frame goes into the input file, whatever the host is doing.
Begin ==
  /\ pc = "idle"
  /\ call < MaxCalls
  /\ call' = call + 1
  /\ clean' = Settled
  /\ inBuf' = 0
  /\ pc' = "copying"
  /\ UNCHANGED <<kind, keeps, control, out, seq, timeouts, given, views, host>>

EndCopy ==
  /\ pc = "copying"
  /\ inBuf' = call
  /\ pc' = "publish"
  /\ UNCHANGED <<kind, keeps, control, out, seq, call, timeouts, given, views, clean,
                 host>>

\* submit() and upscale(): self._seq += 1, then REQ_SEQ.
PublishCounted ==
  /\ pc = "publish" /\ kind # "encode"
  /\ seq' = seq + 1
  /\ req' = seq + 1
  /\ pc' = "waiting"
  /\ UNCHANGED <<kind, keeps, ack, quit, word, files, call, timeouts, given, views, clean, host>>

\* encode(): REQ_SEQ is one more than _seq, which stays for now.
PublishUncounted ==
  /\ pc = "publish" /\ kind = "encode"
  /\ req' = seq + 1
  /\ pc' = "waiting"
  /\ UNCHANGED <<kind, keeps, ack, quit, word, files, seq, call, timeouts, given, views, clean,
                 host>>

\* Fault: takes any acknowledgement for its own.
AnsweredByAny == ack > 0

\* The wait for ACK_SEQ is over: it names the request.
Answered == ack = req

\* The number moves now if it has not before.
CountAnswer == seq' = IF kind = "encode" THEN seq + 1 ELSE seq

Return ==
  /\ pc = "waiting" /\ Answered
  /\ word.ok
  /\ CountAnswer
  /\ given' = [to |-> call, gen |-> word.gen,
               shows |-> IF word.gen THEN out[req % Regions] ELSE 0]
  /\ views' = IF word.gen /\ kind = "submit"
               THEN views \cup {[of |-> req, shows |-> out[req % Regions]]}
               ELSE views
  /\ pc' = "idle"
  /\ UNCHANGED <<kind, keeps, control, files, call, timeouts, clean, host>>

\* An exception reaches the caller, which closes the link or goes on.
GiveUp == IF keeps THEN pc' = "idle" /\ UNCHANGED quit
                         ELSE pc' = "closed" /\ quit' = TRUE

\* The host says the frame failed.
Refused ==
  /\ pc = "waiting" /\ Answered
  /\ ~word.ok
  /\ CountAnswer
  /\ GiveUp
  /\ UNCHANGED <<kind, keeps, req, ack, word, files, call, timeouts, given, views, clean,
                 host>>

\* The wait raises: too long, or the process is gone.
WaitRaises ==
  /\ pc = "waiting" /\ ~Answered
  /\ \/ hpc = "dead" /\ UNCHANGED timeouts
     \/ timeouts < MaxTimeouts /\ timeouts' = timeouts + 1
  /\ GiveUp
  /\ UNCHANGED <<kind, keeps, req, ack, word, files, seq, call, given, views, clean, host>>

\* close() between calls.
Close ==
  /\ pc = "idle"
  /\ pc' = "closed" /\ quit' = TRUE
  /\ UNCHANGED <<kind, keeps, req, ack, word, files, seq, call, timeouts, given, views,
                 clean, host>>

Client == \/ Begin \/ EndCopy \/ PublishCounted \/ PublishUncounted \/ Return
          \/ Refused \/ WaitRaises \/ Close

----------------------------------------------------------------------------
(* The host's loop                                                          *)

Notice ==
  /\ hpc = "polling" /\ ~quit
  /\ req # ack
  /\ taken' = req
  /\ job' = inBuf
  /\ hpc' = "reading"
  /\ UNCHANGED <<control, files, client, dst, served>>

\* Reading the input takes a while: a frame that changed meanwhile is torn.
ReadIn ==
  /\ hpc = "reading"
  /\ job' = IF inBuf = job THEN job ELSE 0
  /\ hpc' = "working"
  /\ UNCHANGED <<control, files, client, taken, dst, served>>

\* The work fails: nothing is written.
WorkFails ==
  /\ hpc = "working"
  /\ word' = [ok |-> FALSE, gen |-> FALSE]
  /\ served' = TRUE
  /\ hpc' = "answering"
  /\ UNCHANGED <<req, ack, quit, files, client, taken, job, dst>>

\* A frame generator makes no picture of its first frame, and may make none of a
\* later one and still say ok (a cut, a duplicate, a surface that cannot be copied).
MakesNothing ==
  /\ hpc = "working"
  /\ NeedsHistory
  /\ word' = [ok |-> TRUE, gen |-> FALSE]
  /\ served' = TRUE
  /\ hpc' = "answering"
  /\ UNCHANGED <<req, ack, quit, files, client, taken, job, dst>>

\* Fault: the next request's region.
StartWritingAhead ==
  /\ hpc = "working"
  /\ NeedsHistory => served
  /\ dst' = (req + 1) % Regions
  /\ out' = [out EXCEPT ![(req + 1) % Regions] = 0]
  /\ hpc' = "writing"
  /\ UNCHANGED <<control, inBuf, client, taken, job, served>>

\* The region is chosen by REQ_SEQ as it is when the picture is there.
StartWriting ==
  /\ hpc = "working"
  /\ NeedsHistory => served
  /\ dst' = req % Regions
  /\ out' = [out EXCEPT ![req % Regions] = 0]
  /\ hpc' = "writing"
  /\ UNCHANGED <<control, inBuf, client, taken, job, served>>

EndWriting ==
  /\ hpc = "writing"
  /\ out' = [out EXCEPT ![dst] = job]
  /\ word' = [ok |-> TRUE, gen |-> TRUE]
  /\ served' = TRUE
  /\ hpc' = "answering"
  /\ UNCHANGED <<req, ack, quit, inBuf, client, taken, job, dst>>

\* Fault: the number is never written back when the work failed.
AckCurrentOnSuccess ==
  /\ hpc = "answering" /\ kind # "encode"
  /\ ack' = IF word.ok THEN req ELSE ack
  /\ hpc' = "polling"
  /\ UNCHANGED <<req, quit, word, files, client, taken, job, dst, served>>

\* ctrl->ack_seq = ctrl->req_seq
AckCurrent ==
  /\ hpc = "answering" /\ kind # "encode"
  /\ ack' = req
  /\ hpc' = "polling"
  /\ UNCHANGED <<req, quit, word, files, client, taken, job, dst, served>>

\* The jpeg host's `seq', read before the work.
AckTaken ==
  /\ hpc = "answering" /\ kind = "encode"
  /\ ack' = taken
  /\ hpc' = "polling"
  /\ UNCHANGED <<req, quit, word, files, client, taken, job, dst, served>>

Quit ==
  /\ hpc = "polling" /\ quit
  /\ hpc' = "exited"
  /\ UNCHANGED <<control, files, client, taken, job, dst, served>>

HostDies ==
  /\ MayDie /\ hpc \notin {"exited", "dead"}
  /\ hpc' = "dead"
  /\ UNCHANGED <<control, files, client, taken, job, dst, served>>

Host == \/ Notice \/ ReadIn \/ WorkFails \/ MakesNothing \/ StartWriting
        \/ EndWriting \/ AckCurrent \/ AckTaken \/ Quit

Next == Client \/ Host \/ HostDies

Spec == Init /\ [][Next]_vars

----------------------------------------------------------------------------
(* Properties                                                               *)

Pics == 0..MaxCalls

\* Every variable keeps its type; the host never acknowledges a number the
\* client has not asked under.
TypeOK ==
  /\ kind \in Kinds /\ keeps \in BOOLEAN
  /\ req \in Pics /\ ack \in 0..req /\ quit \in BOOLEAN
  /\ word \in [ok : BOOLEAN, gen : BOOLEAN]
  /\ inBuf \in Pics /\ out \in [0..Regions - 1 -> Pics]
  /\ pc \in {"idle", "copying", "publish", "waiting", "closed"}
  /\ seq \in 0..req /\ call \in Pics /\ timeouts \in 0..MaxTimeouts
  /\ given \in [to : Pics, gen : BOOLEAN, shows : Pics]
  /\ hpc \in {"polling", "reading", "working", "writing", "answering", "exited",
              "dead"}
  /\ taken \in 0..req /\ job \in Pics /\ dst \in 0..Regions - 1
  /\ served \in BOOLEAN /\ clean \in BOOLEAN
  /\ views \subseteq [of : 1..req, shows : Pics]

IsOwn == given'.shows = IF word.gen THEN call ELSE 0

\* What does hold with callers that go on after a timeout: a call made when all
\* that was asked before has been answered and counted gets its own result.
BackInStep == [][given' # given /\ clean => IsOwn]_vars

\* nsdlssg.py:146-147 returns views that "stay valid for RING-1 further
\* submits": until the RING-th further request is published the region shows
\* what it showed, late answers and deaths included.
ViewsStayValid ==
  \A v \in views : req - v.of < Regions => out[v.of % Regions] = v.shows

\* Where the link stands for its caller.
Standing ==
  CASE pc = "closed" -> "closed"
    [] pc = "idle"   -> IF Settled THEN "ready" ELSE "owing"
    [] OTHER         -> "asked"

\* The link is SlotService: after a timeout a call may return an earlier frame's
\* picture or a torn one (dlssg_host.cpp:218 acknowledges the request that is there
\* at the end, yt_bridge.py:112-120 counts only what was answered), but no more
\* than one call does, as with the first answer the two sides are in step again.
Service == INSTANCE SlotService WITH state <- Standing, own <- clean

ServiceSpec == Service!Spec

\* Types and views.
Consistent == TypeOK /\ ViewsStayValid

\* Host and client keep running, and the client's wait loop looks whether the
\* process is gone; the caller calls when it likes.
Fairness ==
  /\ WF_vars(Host)
  /\ WF_vars(EndCopy \/ PublishCounted \/ PublishUncounted)
  /\ WF_vars(Return \/ Refused)
  /\ WF_vars(hpc = "dead" /\ WaitRaises)

FairSpec == Spec /\ Fairness

\* Every call returns, also calls made after timeouts left the numbers of
\* client and host apart, and calls on a host that died.
CallsReturn == pc = "waiting" ~> pc \in {"idle", "closed"}
=============================================================================
