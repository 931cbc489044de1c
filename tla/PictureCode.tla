---------------------------- MODULE PictureCode ----------------------------
(***************************************************************************)
(* The code that handles the pixels themselves: rows converted by several   *)
(* threads (hosts), the running sum of the blur and the previous picture of *)
(* the composition pass (post), copies out of slots the GPU writes behind   *)
(* the CPU's caches (nsmem), and the upscalers that draw with a GL context  *)
(* of their own (nis, fsr).  These parts share no state: a behaviour        *)
(* exercises the one that `part' names.  What a pixel's colour becomes is   *)
(* left out.                                                                *)
(***************************************************************************)
EXTENDS Integers, FiniteSets
LOCAL INSTANCE FiniteSetsExt

CONSTANTS
  MaxRows,      \* bound: rows of a picture
  Threads,      \* how many bands nv12_to_rgba() may be asked for
  MaxLine,      \* bound: cells of a line that is blurred
  Widths,       \* widths of pictures in a slot, in pixels
  MaxFrames     \* bound: pictures, or calls, in one behaviour

ASSUME BoundsAssumption ==
  /\ MaxRows \in Nat \ {0} /\ MaxLine \in Nat \ {0} /\ MaxFrames \in Nat
  /\ Threads \subseteq 1 .. 12 /\ Widths \subseteq Nat \ {0}

VARIABLES
  part,
  op, rows, bands,        \* the call in progress and its jobs
  next, turn,             \* g_next; how far the caller is with its bands
  queued, running,        \* submitted works; bands the pool is busy with
  written,                \* history: how often each row was written
  line, radius, x, acc, out,  \* blur_plane(): a line, r, the loop's state
  frames,                 \* pictures so far
  valid, recorded, last,  \* _prev_ys; the size and the number of the picture in
                          \* _prev_out (<<0, 0>>: none); the same of the last one
                          \* that went through
  width, cached, seen,    \* the slot's width; which picture a cached line of it
                          \* is from; history: what the last copy read
  contexts, current,      \* EGL contexts of the display; the thread's current one
  handle, drawn           \* the upscaler's context, 0 without; history: where the
                          \* last upscale() that succeeded drew

sharing  == <<op, rows, bands, next, turn, queued, running, written>>
blurring == <<line, radius, x, acc, out>>
post     == <<valid, recorded, last>>
slot     == <<width, cached, seen>>
drawing  == <<contexts, current, handle, drawn>>
vars == <<part, sharing, blurring, frames, post, slot, drawing>>

Init ==
  /\ part \in {"rows", "blur", "post", "slot", "upscaler"}
  /\ op = "none" /\ rows = 0 /\ bands = <<>> /\ next = 0 /\ turn = 0
  /\ queued = {} /\ running = {} /\ written = <<>>
  /\ line = <<>> /\ radius = 0 /\ x = 0 /\ acc = 0 /\ out = <<>>
  /\ frames = 0
  /\ valid = FALSE /\ recorded = <<0, 0>> /\ last = <<0, 0>>
  /\ width = 0 /\ cached = <<>> /\ seen = {}
  /\ contexts = {} /\ current = 0 /\ handle = 0 /\ drawn = 0

\* One more picture, within the bound.
Frame == frames < MaxFrames /\ frames' = frames + 1

----------------------------------------------------------------------------
(* Rows by bands                                                            *)

\* Fault: the bands are as high as the quotient, rounded down.
ShortBand(h, n) == 2 * (h \div (2 * n))

\* Rows of a band of nv12_to_rgba(): rounded up, and even.
BandHeight(h, n) == 2 * ((((h + n - 1) \div n) + 1) \div 2)

\* Jobs 0 .. used - 1 of nv12_to_rgba().
ConvertBands(h, n) ==
  LET per == BandHeight(h, n)
      used == {i \in 0 .. n - 1 : i * per < h}
  IN [i \in used |-> [from |-> i * per, to |-> IF h < (i + 1) * per THEN h ELSE (i + 1) * per]]

\* parallelRows(): always four.
RowBands(h) == [b \in 0 .. 3 |-> [from |-> (h * b) \div 4, to |-> (h * (b + 1)) \div 4]]

StartCall(kind, h, jobs, first) ==
  /\ part = "rows" /\ op = "none"
  /\ Frame
  /\ op' = kind /\ rows' = h /\ bands' = jobs
  /\ next' = 1 /\ turn' = first
  /\ written' = [r \in 0 .. h - 1 |-> 0]
  /\ UNCHANGED <<part, queued, running, blurring, post, slot, drawing>>

Convert == \E h \in 1 .. MaxRows, n \in Threads : StartCall("convert", h, ConvertBands(h, n), 1)
CopyRows == \E h \in 1 .. MaxRows : StartCall("copy", h, RowBands(h), 0)

\* Band b is done.
Done(b) == [r \in DOMAIN written |->
              written[r] + (IF bands[b].from <= r /\ r < bands[b].to THEN 1 ELSE 0)]

\* The caller hands work to the pool: every band but its own.
IsOthers == IF op = "convert" THEN turn < Cardinality(DOMAIN bands) ELSE turn < 3

\* A call is in progress.
Busy == op \in {"convert", "copy"}

Submit ==
  /\ Busy /\ IsOthers
  /\ queued' = queued \cup {turn} /\ turn' = turn + 1
  /\ UNCHANGED <<part, op, rows, bands, next, running, written, blurring, frames, post, slot, drawing>>

\* CreateThreadpoolWork() failed: the caller does the band at once.
SubmitFails ==
  /\ op = "copy" /\ IsOthers
  /\ written' = Done(turn) /\ turn' = turn + 1
  /\ UNCHANGED <<part, op, rows, bands, next, queued, running, blurring, frames, post, slot, drawing>>

\* No work could be created for nv12_to_rgba() to submit, or no std::thread for a
\* band: the host dies in the call.
HostDies ==
  /\ Busy /\ IsOthers /\ (op = "convert" => turn = 1)
  /\ op' = "dead" /\ queued' = {} /\ running' = {}
  /\ UNCHANGED <<part, rows, bands, next, turn, written, blurring, frames, post, slot, drawing>>

\* The caller's own band: the first of a conversion, the last of a copy.
OwnBand ==
  /\ Busy /\ ~IsOthers /\ turn < 13
  /\ written' = Done(IF op = "convert" THEN 0 ELSE 3)
  /\ turn' = 13
  /\ UNCHANGED <<part, op, rows, bands, next, queued, running, blurring, frames, post, slot, drawing>>

\* A thread of the pool begins: conv_work() takes the next job, parWork() its own.
Work ==
  /\ \E w \in queued :
       /\ queued' = queued \ {w}
       /\ running' = running \cup {IF op = "convert" THEN next ELSE w}
  /\ next' = next + 1
  /\ UNCHANGED <<part, op, rows, bands, turn, written, blurring, frames, post, slot, drawing>>

Worked ==
  /\ \E b \in running : running' = running \ {b} /\ written' = Done(b)
  /\ UNCHANGED <<part, op, rows, bands, next, turn, queued, blurring, frames, post, slot, drawing>>

\* WaitForThreadpoolWorkCallbacks() returns.
CallReturns ==
  /\ turn = 13 /\ queued = {} /\ running = {}
  /\ op' = "none" /\ turn' = 0
  /\ UNCHANGED <<part, rows, bands, next, queued, running, written, blurring, frames, post, slot, drawing>>

----------------------------------------------------------------------------
(* The composition pass                                                     *)

Cells == DOMAIN line
Clamped(i) == IF i < 0 THEN 0 ELSE IF i >= Cardinality(Cells) THEN Cardinality(Cells) - 1 ELSE i

\* What the cells around i add up to, those outside taken from the edge.
Window(i) == MapThenSumSet(LAMBDA k : line[Clamped(k)], (i - radius) .. (i + radius))

Blur ==
  /\ part = "blur" /\ line = <<>>
  /\ \E w \in 1 .. MaxLine, r \in 1 .. 3 :
       /\ line' \in [0 .. w - 1 -> 0 .. 1]
       /\ radius' = r
  /\ x' = 0 /\ out' = <<>>
  /\ acc' = Window(0)'
  /\ UNCHANGED <<part, sharing, frames, post, slot, drawing>>

\* What the sum gains and loses with one step to the right.
Moves == line[Clamped(x + radius + 1)] - line[Clamped(x - radius)]

BlurStep ==
  /\ part = "blur" /\ x \in Cells
  /\ out' = [i \in 0 .. x |-> IF i = x THEN acc ELSE out[i]]
  /\ acc' = acc + Moves
  /\ x' = x + 1
  /\ UNCHANGED <<part, sharing, line, radius, frames, post, slot, drawing>>

\* reset(): the settings have become neutral, or the sizes differ.
Neutral ==
  /\ part = "post" /\ Frame
  /\ valid' = FALSE /\ recorded' = <<0, 0>> /\ last' = <<0, frames'>>
  /\ UNCHANGED <<part, sharing, blurring, slot, drawing>>

\* A picture without shimmer suppression breaks the sequence.
ValidAfter(shimmer) == shimmer

\* apply(): what it blends with is of its own size, or it starts anew.
Apply(size, shimmer) ==
  /\ part = "post" /\ Frame
  /\ \* post_apply() writes the picture ...
     \/ /\ valid' = ValidAfter(shimmer)
        /\ recorded' = IF shimmer THEN <<size, frames'>> ELSE recorded
        /\ last' = <<size, frames'>>
     \* ... or has no memory, and the picture is shown without the pass.
     \/ /\ valid' = (valid /\ (shimmer => recorded[1] = size))
        /\ recorded' = IF shimmer /\ recorded[1] # size THEN <<size, 0>> ELSE recorded
        /\ UNCHANGED last
  /\ UNCHANGED <<part, sharing, blurring, slot, drawing>>

----------------------------------------------------------------------------
(* Pictures out of a slot the GPU writes                                    *)

Line == 64
Pitch(w) == 256 * ((w * 4 + 255) \div 256)      \* pitchFor()
SlotRows == 0 .. 1

\* Lines that the row's bytes are on.
LinesOf(w, r) == {(r * Pitch(w) + b) \div Line : b \in 0 .. w * 4 - 1}

\* evict_opt(), evict_plain(): one flush every 64 bytes from the row's start.
Evicted(w, r) == {(r * Pitch(w) + Line * i) \div Line : i \in 0 .. (w * 4 - 1) \div Line}

\* The GPU writes the next picture to memory: no cached line notices.
GpuWrites ==
  /\ part = "slot" /\ Frame
  /\ width' \in Widths
  /\ seen' = {}
  /\ UNCHANGED <<part, sharing, blurring, post, cached, drawing>>

\* nsmem_copy_rows_evict() copies it: a line comes from the cache, or is fetched.
CopyOut ==
  /\ part = "slot" /\ frames > 0 /\ seen = {}
  /\ LET read == UNION {LinesOf(width, r) : r \in SlotRows}
         gone == UNION {Evicted(width, r) : r \in SlotRows}
         held(l) == IF l \in DOMAIN cached THEN cached[l] ELSE frames
     IN /\ seen' = {held(l) : l \in read}
        /\ cached' = [l \in (DOMAIN cached \cup read) \ gone |-> held(l)]
  /\ UNCHANGED <<part, sharing, blurring, frames, post, width, drawing>>

----------------------------------------------------------------------------
(* nis and fsr on the upscaler thread; contexts are numbered by `frames'.   *)

\* nis_close(), fsr_close(): eglTerminate() takes every context of the display.
Closed(h, c) == IF h = 0 THEN c ELSE {}

\* Fault: the new one is made before the old one is closed.
OpenedFirst(new) == /\ contexts' = Closed(handle, contexts \cup {new})
                    /\ current' = IF handle = 0 THEN new ELSE 0

\* configure(): the old one is closed, then the new one made and made current.
Opened(new) == /\ contexts' = Closed(handle, contexts) \cup {new}
               /\ current' = new

Configure ==
  /\ part = "upscaler" /\ Frame
  /\ Opened(frames') /\ handle' = frames'
  /\ drawn' = 0
  /\ UNCHANGED <<part, sharing, blurring, post, slot>>

\* nis_init(), fsr_init() fail before the context is there, or after: they free
\* their memory and leave it.  _fallback() drops the object.
ConfigureFails ==
  /\ part = "upscaler" /\ Frame
  /\ \/ Opened(frames')
     \/ contexts' = Closed(handle, contexts) /\ current' = IF handle = 0 THEN current ELSE 0
  /\ handle' = 0 /\ drawn' = 0
  /\ UNCHANGED <<part, sharing, blurring, post, slot>>

\* Another library makes its context current on this thread.
OtherSwitches ==
  /\ part = "upscaler" /\ current >= 0
  /\ current' = -1
  /\ UNCHANGED <<part, sharing, blurring, frames, post, slot, contexts, handle, drawn>>

\* nis_upscale(), fsr_upscale(): whether eglMakeCurrent() worked is not looked at.
Upscale ==
  /\ part = "upscaler" /\ handle # 0
  /\ current' = IF handle \in contexts THEN handle ELSE current
  /\ drawn' = current'
  /\ UNCHANGED <<part, sharing, blurring, frames, post, slot, contexts, handle>>

\* A GL error, or close(): the object goes.
CloseUpscaler ==
  /\ part = "upscaler" /\ handle # 0
  /\ contexts' = Closed(handle, contexts) /\ current' = 0
  /\ handle' = 0 /\ drawn' = 0
  /\ UNCHANGED <<part, sharing, blurring, frames, post, slot>>

----------------------------------------------------------------------------
Rows ==
  Convert \/ CopyRows \/ Submit \/ SubmitFails \/ HostDies \/ OwnBand \/ Work \/ Worked \/ CallReturns
Post == Blur \/ BlurStep \/ Neutral \/ \E size \in 1 .. 2, shimmer \in BOOLEAN : Apply(size, shimmer)
Slot == GpuWrites \/ CopyOut
Upscaler == Configure \/ ConfigureFails \/ OtherSwitches \/ Upscale \/ CloseUpscaler

Next == Rows \/ Post \/ Slot \/ Upscaler

Spec == Init /\ [][Next]_vars

----------------------------------------------------------------------------
(* Properties                                                               *)

\* No row is written by two threads, and when the call returns every row has been.
EveryRowOnce ==
  /\ \A r \in DOMAIN written : written[r] <= 1
  /\ op = "none" => \A r \in DOMAIN written : written[r] = 1

\* The running sum never drifts from what the window holds, near the edges and
\* with a window wider than the line.
SumIsWindow == \A i \in DOMAIN out : out[i] = Window(i)

\* Bands and sums are exact for every height, number of threads, width and radius,
\* in whatever order the pool works (dlssg_host.cpp, ngxdlssg_host.cpp,
\* ngxdlssg_vk_host.cpp, post_lib.c).
RowsAndSums == EveryRowOnce /\ SumIsWindow

\* Shimmer suppression blends with the picture that went through last and has the
\* same size.
PreviousIsLast == valid => recorded = last

\* No byte of a copied picture comes from a cache line of an older one.
ReadsFresh == seen \subseteq {frames}

\* What upscale() returns was drawn in the upscaler's own, living context.
DrawsInOwn == drawn # 0 => drawn = handle /\ drawn \in contexts

\* Nothing that an earlier picture, size or object left behind shows up in a later
\* picture (postprocess.py, nsmem.c, nis_lib.c, fsr_lib.c).
NothingOld == PreviousIsLast /\ ReadsFresh /\ DrawsInOwn
=============================================================================
