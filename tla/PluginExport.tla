---------------------------- MODULE PluginExport ----------------------------
(***************************************************************************)
(* The way of the window's picture from the compositor plugin to the        *)
(* pipeline (hyprplug/src/main.cpp, exportFrame() and what it calls): two   *)
(* paths, the ring of three asynchronous pixel-buffer reads and the render  *)
(* straight into a slot of the shared memory, a GPU that finishes in order  *)
(* some time later, and a pipeline that copies the newest slot              *)
(* (plugin_bridge.py, wait_frame()).  Pipelines come, change their flags    *)
(* and the size they want, and go; the plugin's state stays.                *)
(*                                                                          *)
(* A picture is [commit, size]: the surface's commit it shows and the size  *)
(* it was drawn in.                                                         *)
(***************************************************************************)
EXTENDS Integers, Sequences, FiniteSetsExt

CONSTANTS
  MaxCommits,  \* bound: commits of the window's surface
  MaxEvents    \* bound: pipelines, changes of the window's or the wanted size,
               \* failures of the GL calls, together

ASSUME BoundsAssumption ==
  MaxCommits \in Nat /\ MaxEvents \in Nat

VARIABLES
  commit, native,            \* the surface: S.commitSeq, its size
  expSeq, slot, dims,        \* header: exp_seq, export slots, exp_w and exp_h
  want, flag,                \* header: want_w and want_h, client_flags
  client, bpc,               \* Bridge: client_, its thread
  mapped, declared,          \* a pipeline has the memory; it wrote its flags
  damaged, due, mpc,         \* main thread: repaint asked for; maxFps allows a
                             \* read; where exportFrame() is
  size, lastRead, newConn,   \* S.lastOutW, S.lastReadCommit; S.newConnect is
                             \* not connectSeq_, or S.hadClient is false
  inFlight,                  \* S.inFlight
  zcOk, zPend, zSeq,         \* g_zcExpOk, g_zPend, S.zSeq
  pend, pboIdx, pboSize,     \* g_pend, S.pboIdx, S.pboW and S.pboH
  gpu,                       \* renders into slots the GPU has not finished
  lastSeq, rd, seen, got,    \* pipeline: _last_seq, the seq it copies, the slot
                             \* as it was, the last picture it got
  events,                    \* such events so far
  pub,                       \* history: the picture published last, and its path
  skipped,                   \* history: a render that was numbered was dropped
  spoilt                     \* history: a read was lost with a change of paths
                             \* or a failed draw, and no newer one begun

surface  == <<commit, native>>
header   == <<expSeq, slot, dims>>
wishes   == <<want, flag>>
bridge   == <<client, bpc>>
pipeline == <<mapped, declared, lastSeq, rd, seen, got>>
repaint  == <<damaged, due, mpc>>
change   == <<size, lastRead, newConn>>
zcopy    == <<zcOk, zPend, zSeq, gpu>>
ring     == <<pend, pboIdx, pboSize>>
history  == <<pub, skipped, spoilt>>
vars == <<surface, header, wishes, bridge, pipeline, repaint, change, inFlight,
          zcopy, ring, events, history>>

Slots == 0..2
SlotOf(seq) == seq % 3
None == -1                        \* ~0ULL
Torn == [commit |-> None, size |-> 0]
NoRead == [on |-> FALSE, age |-> 0, commit |-> 0, size |-> 0, behind |-> 0]
Empty == [i \in Slots |-> NoRead]

\* One more event, within the bound.
Event == events < MaxEvents /\ events' = events + 1

\* The size pictures are exported in: what the pipeline wants, never above the
\* window's own (0: it wants nothing in particular).
ExportSize == IF want \in 1..native THEN want ELSE native

Init ==
  /\ commit = 0 /\ native = 1
  /\ expSeq = 0 /\ slot = [s \in Slots |-> Torn] /\ dims = [s \in Slots |-> 0]
  /\ want = 0 /\ flag = FALSE
  /\ client = FALSE /\ bpc = "poll"
  /\ mapped = FALSE /\ declared = FALSE /\ lastSeq = 0 /\ rd = 0 /\ seen = Torn /\ got = Torn
  /\ damaged = FALSE /\ due = TRUE /\ mpc = "idle"
  /\ size = 0 /\ lastRead = None /\ newConn = TRUE /\ inFlight = FALSE
  /\ zcOk = TRUE /\ zPend = <<>> /\ zSeq = 0 /\ gpu = <<>>
  /\ pend = Empty /\ pboIdx = 0 /\ pboSize = 0
  /\ events = 0
  /\ pub = [commit |-> None, size |-> 0, via |-> "none"] /\ skipped = FALSE /\ spoilt = FALSE

----------------------------------------------------------------------------
(* The window, and the pipeline                                             *)

\* The surface commits a buffer, of another size perhaps.
Commit ==
  /\ commit < MaxCommits
  /\ commit' = commit + 1
  /\ \/ UNCHANGED <<native, events>>
     \/ native' = 3 - native /\ Event
  /\ damaged' = TRUE
  /\ UNCHANGED <<header, wishes, bridge, pipeline, due, mpc, change, inFlight, zcopy,
                 ring, history>>

\* set_export_size().
SetWant ==
  /\ mapped
  /\ want' = 1 - want
  /\ Event
  /\ UNCHANGED <<surface, header, flag, bridge, pipeline, repaint, change, inFlight, zcopy,
                 ring, history>>

\* PluginLink.__init__: a new pipeline has mapped the memory that accept1() sent.
Connect ==
  /\ bpc = "poll" /\ ~mapped
  /\ Event
  /\ bpc' = "replace"
  /\ mapped' = TRUE /\ declared' = FALSE /\ lastSeq' = 0 /\ got' = Torn
  /\ UNCHANGED <<surface, header, wishes, client, rd, seen, repaint, change,
                 inFlight, zcopy, ring, history>>

\* accept1(): the old client goes, and its flags.
Replace ==
  /\ bpc = "replace"
  /\ client' = FALSE /\ flag' = FALSE
  /\ bpc' = "install"
  /\ UNCHANGED <<surface, header, want, pipeline, repaint, change, inFlight,
                 zcopy, ring, events, history>>

Install ==
  /\ bpc = "install"
  /\ client' = TRUE /\ newConn' = TRUE
  /\ bpc' = "poll"
  /\ UNCHANGED <<surface, header, wishes, pipeline, repaint, size, lastRead, inFlight, zcopy,
                 ring, events, history>>

\* The pipeline writes client_flags, at any time after the mapping.
Declare ==
  /\ mapped /\ ~declared
  /\ declared' = TRUE
  /\ flag' \in BOOLEAN
  /\ UNCHANGED <<surface, header, want, bridge, mapped, lastSeq, rd, seen, got, repaint,
                 change, inFlight, zcopy, ring, events, history>>

\* It ends, perhaps in the middle of a copy; the bridge thread sees the hang-up.
Leave ==
  /\ mapped
  /\ mapped' = FALSE /\ rd' = 0 /\ seen' = Torn
  /\ UNCHANGED <<surface, header, wishes, bridge, declared, lastSeq, got, repaint, change,
                 inFlight, zcopy, ring, events, history>>

Hangup ==
  /\ bpc = "poll" /\ client /\ ~mapped
  /\ client' = FALSE
  /\ UNCHANGED <<surface, header, wishes, bpc, pipeline, repaint, change,
                 inFlight, zcopy, ring, events, history>>

\* wait_frame(): exp_seq has moved, its slot is copied from now on ...
BeginCopy ==
  /\ mapped /\ rd = 0
  /\ expSeq # lastSeq
  /\ rd' = expSeq /\ lastSeq' = expSeq
  /\ seen' = IF slot[SlotOf(expSeq)].size = dims[SlotOf(expSeq)] THEN slot[SlotOf(expSeq)] ELSE Torn
  /\ UNCHANGED <<surface, header, wishes, bridge, mapped, declared, got, repaint, change,
                 inFlight, zcopy, ring, events, history>>

\* ... and has been: with parts of two pictures if it was drawn into meanwhile.
EndCopy ==
  /\ rd # 0
  /\ got' = IF slot[SlotOf(rd)] = seen THEN seen ELSE Torn
  /\ rd' = 0 /\ seen' = Torn
  /\ UNCHANGED <<surface, header, wishes, bridge, mapped, declared, lastSeq, repaint, change,
                 inFlight, zcopy, ring, events, history>>

----------------------------------------------------------------------------
(* The main thread: timer and draw                                          *)

\* Fault: a read on its way asks for no repaint.
WantFlushForCommits == client /\ (commit # lastRead \/ newConn \/ expSeq = 0)

\* The timer asks for repaints until nothing is on its way.
WantFlush ==
  client /\ (inFlight \/ commit # lastRead \/ newConn \/ expSeq = 0)

\* The 4 ms timer.
Timer ==
  /\ mpc = "idle" /\ WantFlush /\ ~damaged
  /\ damaged' = TRUE
  /\ UNCHANGED <<surface, header, wishes, bridge, pipeline, due, mpc, change, inFlight,
                 zcopy, ring, events, history>>

\* 1/maxFps has passed since the last read.
Due ==
  /\ mpc = "idle" /\ ~due
  /\ due' = TRUE
  /\ UNCHANGED <<surface, header, wishes, bridge, pipeline, damaged, mpc, change, inFlight,
                 zcopy, ring, events, history>>

\* The last read does not count: for a new client, or in another size.
Reread(fresh) == fresh \/ size # ExportSize

\* The window is repainted: exportFrame() up to the choice of the path.
BeginDraw ==
  /\ mpc = "idle" /\ damaged
  /\ damaged' = FALSE
  /\ IF client
     THEN /\ size' = ExportSize
          /\ newConn' = FALSE
          /\ lastRead' = IF Reread(newConn) THEN None ELSE lastRead
          /\ mpc' = "choose"
     ELSE newConn' = TRUE /\ UNCHANGED <<size, lastRead, mpc>>
  /\ UNCHANGED <<surface, header, wishes, bridge, pipeline, due, inFlight, zcopy, ring,
                 events, history>>

\* The path: a coherent client's pictures are drawn into the slots; for any other
\* what is on its way there is dropped (467).
Choose ==
  /\ mpc = "choose"
  /\ IF flag /\ zcOk
     THEN /\ mpc' = "zero-copy"
          /\ spoilt' = (spoilt \/ \E i \in Slots : pend[i].on)
          /\ UNCHANGED <<zPend, skipped>>
     ELSE /\ mpc' = "copy"
          /\ zPend' = IF flag THEN zPend ELSE <<>>
          /\ skipped' = (skipped \/ zPend' # zPend)
          /\ spoilt' = (spoilt \/ zPend' # zPend)
  /\ UNCHANGED <<surface, header, wishes, bridge, pipeline, damaged, due, change, inFlight,
                 zcOk, zSeq, gpu, ring, events, pub>>

Unread == commit # lastRead

\* A picture becomes the newest one.
Published(picture, via) == [commit |-> picture.commit, size |-> picture.size, via |-> via]

----------------------------------------------------------------------------
(* exportZc(): drawn into the next slot, published when the fence signals   *)

\* The GPU finishes the oldest render.
GpuDone ==
  /\ gpu # <<>>
  /\ slot' = [slot EXCEPT ![SlotOf(Head(gpu).seq)] =
                [commit |-> Head(gpu).commit, size |-> Head(gpu).size]]
  /\ gpu' = Tail(gpu)
  /\ pend' = [i \in Slots |-> [pend[i] EXCEPT !.behind = Max({@ - 1, 0})]]
  /\ UNCHANGED <<surface, expSeq, dims, wishes, bridge, pipeline, repaint, change, inFlight,
                 zcOk, zPend, zSeq, pboIdx, pboSize, events, history>>

\* Renders of the current size: of those on their way none if the size changed.
Current == IF zPend # <<>> /\ zPend[Len(zPend)].size # size THEN <<>> ELSE zPend

\* How many of them have finished: the GPU works in order.
Finished == Cardinality({i \in DOMAIN Current : \A j \in DOMAIN gpu : gpu[j].seq # Current[i].seq})

\* The newest finished render is published, the older ones are dropped.
PublishNewest ==
  IF Finished = 0 THEN UNCHANGED <<expSeq, dims, pub>>
  ELSE LET p == Current[Finished]
       IN /\ expSeq' = p.seq
          /\ dims' = [dims EXCEPT ![SlotOf(p.seq)] = p.size]
          /\ pub' = Published(p, "zero-copy")

\* Fault: renders that were passed over stay.
AllButPublished ==
  SubSeq(Current, 1, Finished - 1) \o SubSeq(Current, Finished + 1, Len(Current))

OnItsWay == SubSeq(Current, Finished + 1, Len(Current))

\* Fault: any number of renders is on its way.
WantRenderAny == Unread /\ due

\* A commit that was not rendered yet, two renders at most, not faster than maxFps.
WantRender == Unread /\ Len(OnItsWay) < 2 /\ due

\* The number of the next render.
NextSeq == Max({zSeq, expSeq'}) + 1

\* The slot is drawn into from now on.
Render ==
  /\ due' = FALSE
  /\ zSeq' = NextSeq
  /\ gpu' = Append(gpu, [seq |-> zSeq', commit |-> commit, size |-> size])
  /\ slot' = [slot EXCEPT ![SlotOf(zSeq')] = Torn]

ZeroCopy ==
  /\ mpc = "zero-copy"
  /\ PublishNewest
  /\ IF WantRender
     THEN /\ Render
          /\ lastRead' = commit
          /\ zPend' = Append(OnItsWay, [seq |-> zSeq', commit |-> commit, size |-> size])
          /\ spoilt' = FALSE
     ELSE zPend' = OnItsWay /\ UNCHANGED <<due, zSeq, gpu, slot, lastRead, spoilt>>
  /\ inFlight' = (zPend' # <<>>)
  /\ skipped' = (skipped \/ Current # zPend)
  /\ mpc' = "idle"
  /\ UNCHANGED <<surface, wishes, bridge, pipeline, damaged, size, newConn, zcOk, ring,
                 events>>

\* The render fails, before or after it was issued: the copying path from now on,
\* from this very draw.
ZeroCopyFails ==
  /\ mpc = "zero-copy" /\ WantRender
  /\ Event
  /\ PublishNewest
  /\ Render \/ (due' = FALSE /\ zSeq' = NextSeq /\ UNCHANGED <<gpu, slot>>)
  /\ zcOk' = FALSE /\ zPend' = <<>> /\ lastRead' = None
  /\ skipped' = TRUE
  /\ mpc' = "copy"
  /\ UNCHANGED <<surface, wishes, bridge, pipeline, damaged, size, newConn, inFlight, ring,
                 spoilt>>

----------------------------------------------------------------------------
(* The ring of reads                                                        *)

WantRead == Unread /\ due

\* A read begins: buffers of another size are made anew, with nothing on its way.
Kept == IF size # pboSize THEN Empty ELSE pend
Index == IF size # pboSize THEN 0 ELSE pboIdx
BeginRead ==
  IF WantRead
  THEN [Kept EXCEPT ![Index] = [on |-> TRUE, age |-> 0, commit |-> commit, size |-> size,
                                behind |-> Len(gpu)]]
  ELSE pend

\* The newest read that has had time to complete.
Best(reads) ==
  LET old == {i \in Slots : reads[i].on /\ reads[i].age = 2}
  IN IF old = {} THEN None
     ELSE Min({i \in old : \A j \in old : reads[j].commit <= reads[i].commit})

\* It is delivered into the slot after the newest, and older ones are dropped ...
Rest(reads, best) ==
  IF best = None THEN reads
  ELSE [i \in Slots |-> [reads[i] EXCEPT !.on = @ /\ reads[i].commit > reads[best].commit]]

\* ... and those left have waited for one more draw (ages count to 2, as far as
\* they are looked at).
Aged(reads) ==
  [i \in Slots |-> IF reads[i].on THEN [reads[i] EXCEPT !.age = Min({@ + 1, 2})] ELSE NoRead]

\* Fault: the slot that was published last is written again.
SameSlot == expSeq

\* Where a delivered read goes.
NextExp == expSeq + 1

Deliver(read) ==
  /\ expSeq' = expSeq + 1
  /\ slot' = [slot EXCEPT ![SlotOf(NextExp)] = [commit |-> read.commit, size |-> read.size]]
  /\ dims' = [dims EXCEPT ![SlotOf(expSeq + 1)] = read.size]
  /\ pub' = Published(read, "copy")

\* begin() makes new buffers (and empties g_pend) after `best' was chosen: the
\* mapping of nothing fails, which the final glCheck() finds.
Emptied == size # pboSize /\ ~WantRead /\ Best(pend) # None

\* The mapping waits for the read, and so for the renders issued before it.
Copy ==
  /\ mpc = "copy" /\ ~Emptied
  /\ LET reads == BeginRead
         best  == Best(reads)
     IN /\ IF best = None THEN UNCHANGED <<header, pub>>
           ELSE reads[best].behind = 0 /\ Deliver(reads[best])
        /\ pend' = Aged(Rest(reads, best))
        /\ pboSize' = IF WantRead THEN size ELSE pboSize
        /\ pboIdx' = IF WantRead THEN (Index + 1) % 3 ELSE pboIdx
  /\ lastRead' = IF WantRead THEN commit ELSE lastRead
  /\ due' = (due /\ ~WantRead)
  /\ inFlight' = (\E i \in Slots : pend'[i].on)
  /\ spoilt' = (spoilt /\ ~WantRead)
  /\ mpc' = "idle"
  /\ UNCHANGED <<surface, wishes, bridge, pipeline, damaged, size, newConn, zcopy, events, skipped>>

\* The exception ends the draw; nothing is on its way any more.
CopyEmptied ==
  /\ mpc = "copy" /\ Emptied
  /\ pend' = Empty /\ pboSize' = size /\ pboIdx' = 0
  /\ inFlight' = FALSE
  /\ mpc' = "idle"
  /\ UNCHANGED <<surface, header, wishes, bridge, pipeline, damaged, due, change, zcopy,
                 events, history>>

\* copyClientTexture() throws, before a read (the commit counts as read) or before
\* a delivery (which is tried again): the Guard goes on.
CopyFails ==
  /\ mpc = "copy"
  /\ Event
  /\ \/ /\ WantRead
        /\ lastRead' = commit /\ due' = FALSE /\ spoilt' = TRUE
     \/ /\ ~WantRead /\ Best(pend) # None
        /\ UNCHANGED <<lastRead, due, spoilt>>
  /\ mpc' = "idle"
  /\ UNCHANGED <<surface, header, wishes, bridge, pipeline, damaged, size, newConn, inFlight,
                 zcopy, ring, pub, skipped>>

----------------------------------------------------------------------------
Window == Commit
Pipeline == SetWant \/ Connect \/ Declare \/ Leave \/ BeginCopy \/ EndCopy
BridgeThread == Replace \/ Install \/ Hangup
Draw == BeginDraw \/ Choose \/ ZeroCopy \/ ZeroCopyFails \/ Copy \/ CopyEmptied \/ CopyFails

Next == Window \/ Pipeline \/ BridgeThread \/ Timer \/ Due \/ Draw \/ GpuDone

Spec == Init /\ [][Next]_vars

\* The plugin's two threads and the GPU run on, a damaged window is drawn (it is
\* visible), and a pipeline's capture thread copies.
FairSpec ==
  /\ Spec
  /\ WF_vars(Timer) /\ SF_vars(Due) /\ WF_vars(GpuDone) /\ WF_vars(BridgeThread)
  /\ WF_vars(BeginDraw \/ Choose \/ ZeroCopy \/ Copy \/ CopyEmptied)
  /\ WF_vars(BeginCopy) /\ WF_vars(EndCopy)

----------------------------------------------------------------------------
(* Properties                                                               *)

Pictures == [commit : None..MaxCommits, size : 0..2]

\* A render into a slot that is waited for; a read in the ring.
Renders == [seq : Nat, commit : 0..MaxCommits, size : 1..2]
Reads == [on : BOOLEAN, age : 0..2, commit : 0..MaxCommits, size : 0..2, behind : Nat]

WindowOK ==
  commit \in 0..MaxCommits /\ native \in 1..2 /\ want \in 0..1 /\ flag \in BOOLEAN

HeaderOK == expSeq \in Nat /\ slot \in [Slots -> Pictures] /\ dims \in [Slots -> 0..2]

PipelineOK ==
  /\ client \in BOOLEAN /\ bpc \in {"poll", "replace", "install"}
  /\ mapped \in BOOLEAN /\ declared \in BOOLEAN
  /\ lastSeq \in Nat /\ rd \in Nat /\ seen \in Pictures /\ got \in Pictures

DrawOK ==
  /\ damaged \in BOOLEAN /\ due \in BOOLEAN /\ mpc \in {"idle", "choose", "zero-copy", "copy"}
  /\ size \in 0..2 /\ (mpc # "idle" => size # 0)
  /\ lastRead \in None..commit /\ newConn \in BOOLEAN /\ inFlight \in BOOLEAN

\* At most two renders are waited for.
RendersOK ==
  /\ zcOk \in BOOLEAN /\ zSeq \in Nat
  /\ zPend \in Seq(Renders) /\ Len(zPend) <= 2 /\ gpu \in Seq(Renders)

\* A read that is on is of the size of the buffers.
ReadsOK ==
  /\ pend \in [Slots -> Reads] /\ pboIdx \in Slots /\ pboSize \in 0..2
  /\ \A i \in Slots : pend[i].on => pend[i].size = pboSize

\* Types; at most two renders are waited for, and a read that is on is of the
\* size of the buffers.
TypeOK ==
  /\ WindowOK /\ HeaderOK /\ PipelineOK /\ DrawOK /\ RendersOK /\ ReadsOK
  /\ skipped \in BOOLEAN /\ spoilt \in BOOLEAN

\* main.cpp:391, :524: the newest slot is never drawn into, so what a pipeline
\* copies until exp_seq moves on is one picture, of the size the header said - as
\* long as no numbered render was dropped, which lets the numbers run ahead. As
\* long as every picture is copied, it stays so for two frames.
CopiedWhole ==
  [][EndCopy /\ (\/ expSeq = rd /\ ~skipped
                 \/ expSeq < rd + 2 /\ zSeq = 0) => got' # Torn]_vars

\* main.cpp:368, :513 "older ones are dropped": each path publishes the commits in
\* order, whatever is on its way and wherever the size changes.
InOrder == [][pub' # pub /\ pub'.via = pub.via => pub'.commit >= pub.commit]_vars

\* What the window shows, in the size that is wanted.
Newest == [commit |-> commit, size |-> ExportSize]

\* main.cpp:427, :863: a pipeline gets the current picture even if the window is
\* static: at last it has the newest commit in the size it wants, unless a change
\* of paths or a failed draw has lost the read: the zero-copy path looks neither at
\* the ring nor at a commit that counts as read.
CatchesUp == []<>(got = Newest \/ ~client \/ ~mapped \/ spoilt)

=============================================================================
