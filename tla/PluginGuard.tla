----------------------------- MODULE PluginGuard -----------------------------
(***************************************************************************)
(* The compositor plugin as the compositor sees it: loading and unloading,  *)
(* the hyprctl commands, the render hooks, the timer and the bridge thread  *)
(* (hyprplug/src/main.cpp), all of them behind the fault shield and its     *)
(* circuit breaker (guard.hpp).  What a draw exports and paints is the      *)
(* business of PluginExport and PluginLink; here it completes or faults.    *)
(* Its names are other ones than PluginExport's, so that CompositorProofs   *)
(* extends both.                                                            *)
(***************************************************************************)
EXTENDS FiniteSets, Integers

CONSTANTS
  Trip,         \* exceptions within the window that trip the breaker (3)
  MaxHappened   \* bound: faults, loadings, and things that happen to the window

ASSUME GuardBounds == Trip \in Nat \ {0} /\ MaxHappened \in Nat

VARIABLES
  loaded,               \* between PLUGIN_INIT and PLUGIN_EXIT: hooks, timer, command
  disabled, recent,     \* Guard: disabled_, recent_ (the last 10 seconds)
  attached, aimed,      \* S.attached; S.window locks a window
  window,               \* the window the name matches: "none", "shown", "hidden"
  phase,                \* the compositor: "idle"; a frame: "begun", "windows" once the
                        \* window was rendered, "pass"
  added, queued, left,  \* S.addedFrame = S.frame; our elements in the compositor's
                        \* pass; those it has not drawn yet
  drawn,                \* history: how often we drew this frame
  running, thread,      \* Bridge: running_; its thread: "none", "loop", "ended"
  served, caller,       \* Bridge: client_; a pipeline waits to be accepted
  held, lost, failed,   \* what its fields hold open; history: what nothing will close
                        \* any more; a start() was left with something open, running_ unset
  result,               \* the pipeline's newest result: "none", "new", "drawn", "missed"
  news, wish,           \* res_seq # S.lastDamaged; the export waits for a draw
  dirty,                \* the compositor has damage to repaint
  blocked, ours,        \* m_directScanoutBlocked; the timer's blockedByUs
  shared,               \* something else (screen sharing) has blocked it
  happened

breaker     == <<disabled, recent>>
target      == <<attached, aimed, window>>
frame       == <<phase, added, queued, left, drawn>>
bridgeState == <<running, thread, served, caller>>
opened      == <<held, lost, failed>>
showing     == <<result, news, wish, dirty>>
scanout     == <<blocked, ours>>
guardVars == <<loaded, breaker, target, frame, bridgeState, opened, showing, scanout, shared,
               happened>>

GuardInit ==
  /\ loaded = FALSE /\ disabled = FALSE /\ recent = 0
  /\ attached = FALSE /\ aimed = FALSE /\ window = "none"
  /\ phase = "idle" /\ added = FALSE /\ queued = 0 /\ left = 0 /\ drawn = 0
  /\ running = FALSE /\ thread = "none" /\ served = FALSE /\ caller = FALSE
  /\ held = {} /\ lost = {} /\ failed = FALSE
  /\ result = "none" /\ news = FALSE /\ wish = FALSE /\ dirty = FALSE
  /\ blocked = FALSE /\ ours = FALSE /\ shared = FALSE
  /\ happened = 0

\* One more event, within the bound.
Happens == happened < MaxHappened /\ happened' = happened + 1

----------------------------------------------------------------------------
(* Guard                                                                    *)

\* fault(): a signal trips the breaker, and so do Trip exceptions close together.
Trips(hard) ==
  /\ recent' = recent + 1
  /\ disabled' = (disabled \/ hard \/ recent + 1 >= Trip)

\* A result is missed when a fault comes after the timer has damaged the window for it.
Missed(seen) == result' = IF result = "new" /\ seen THEN "missed" ELSE result

\* A guarded section throws or gets a signal (runImpl's three ways out).
FaultAfter(seen) == Happens /\ Missed(seen) /\ \E hard \in BOOLEAN : Trips(hard)
Fault == FaultAfter(~news)

\* run() begins: the plugin is there and armed.
Armed == loaded /\ ~disabled

\* A section that completes.
Completes == UNCHANGED <<breaker, result, happened>>

\* Ten seconds pass since the oldest of them.
Forget ==
  /\ recent > 0
  /\ recent' = recent - 1
  /\ UNCHANGED <<loaded, disabled, target, frame, bridgeState, opened, showing, scanout, shared,
                 happened>>

\* reset().
Rearmed == disabled' = FALSE /\ recent' = 0

\* `hyprctl nsproxy reset', outside the shield.
Reset ==
  /\ loaded /\ phase = "idle"
  /\ Rearmed
  /\ UNCHANGED <<loaded, target, frame, bridgeState, opened, showing, scanout, shared, happened>>

----------------------------------------------------------------------------
(* Loading, attaching, detaching, unloading (the compositor's main thread)  *)

\* PLUGIN_INIT: handlers, hooks, timer, command; S is as it was compiled.
PluginInit ==
  /\ ~loaded /\ phase = "idle"
  /\ Happens
  /\ loaded' = TRUE
  /\ disabled' = FALSE /\ recent' = 0 /\ added' = FALSE
  /\ wish' = TRUE
  /\ UNCHANGED <<target, phase, queued, left, drawn, bridgeState, opened, result, news, dirty,
                 scanout, shared>>

\* What start() opens, in this order.
Resources == {"memory", "socket"}

\* A start() opens the `done' and has written the fields of the `over', whatever
\* an earlier one had left there.
Opens(done, over) ==
  /\ held' = (held \ over) \cup done
  /\ lost' = lost \cup (held \cap over)

\* start(), all the way or because the bridge runs.
Starts ==
  IF running THEN UNCHANGED <<running, thread, opened>>
  ELSE /\ Opens(Resources, Resources)
       /\ running' = TRUE /\ thread' = "loop"
       /\ UNCHANGED failed

\* start() is left by an exception or a signal, at a resource that does not
\* open, before running_ is set (nor can the socket be bound), or by the thread.
StartFails ==
  /\ ~running
  /\ \/ \E done, over \in {{}, {"memory"}, Resources} :
          /\ done \subseteq over /\ Cardinality(over \ done) <= 1
          /\ Opens(done, over)
          /\ failed' = (failed \/ done # {})
          /\ UNCHANGED <<running, thread>>
     \/ /\ Opens(Resources, Resources)
        /\ running' = TRUE
        /\ UNCHANGED <<thread, failed>>

\* `attach': the state first, then the bridge, then the answer.
Attach ==
  /\ Armed /\ phase = "idle" /\ window # "none"
  /\ \/ /\ attached' = TRUE /\ aimed' = TRUE /\ wish' = TRUE
        /\ \/ Starts /\ (Completes \/ Fault)
           \/ StartFails /\ Fault
     \/ Fault /\ UNCHANGED <<attached, aimed, wish, running, thread, opened>>
  /\ UNCHANGED <<loaded, window, frame, served, caller, news, dirty, scanout, shared>>

\* `detach', outside the shield; whoever has blocked the direct scan-out.
Detach ==
  /\ loaded /\ phase = "idle"
  /\ attached' = FALSE /\ aimed' = FALSE
  /\ blocked' = FALSE
  /\ queued' = 0
  /\ UNCHANGED <<loaded, breaker, window, phase, added, left, drawn, bridgeState, opened,
                 showing, ours, shared, happened>>

\* stop(): the thread is joined, the client dropped, the rest closed; it does
\* nothing unless running_ is set, and then the code, and its fields, are gone.
BridgeStops ==
  /\ IF running
     THEN running' = FALSE /\ thread' = "none" /\ served' = FALSE /\ caller' = FALSE
     ELSE UNCHANGED bridgeState
  /\ held' = {}
  /\ lost' = IF running THEN lost ELSE lost \cup held
  /\ UNCHANGED failed

\* Fault: the elements that are queued stay in the compositor's pass.
ElementsStay == queued' = queued

\* "our pass elements outlive the frame that queued them" (main.cpp:1013).
ElementsRemoved == queued' = 0

\* PLUGIN_EXIT; S and the static blockedByUs go with the code.
PluginExit ==
  /\ loaded /\ phase = "idle"
  /\ loaded' = FALSE
  /\ attached' = FALSE /\ aimed' = FALSE
  /\ blocked' = FALSE /\ ours' = FALSE
  /\ ElementsRemoved
  /\ BridgeStops
  /\ result' = "none" /\ news' = FALSE
  /\ UNCHANGED <<breaker, window, phase, added, left, drawn, wish, dirty, shared, happened>>

----------------------------------------------------------------------------
(* The compositor's frames                                                  *)

\* The RENDER_BEGIN hook: S.frame++.
NextFrame == added' = (added /\ ~Armed)

\* Something damages the window: its own commit, what moves over it.
Damage ==
  /\ phase = "idle" /\ ~dirty
  /\ dirty' = TRUE
  /\ UNCHANGED <<loaded, breaker, target, frame, bridgeState, opened, result, news, wish, scanout,
                 shared, happened>>

\* A frame of what is damaged begins; the pass of the last one is cleared.
RenderBegin ==
  /\ phase = "idle" /\ dirty
  /\ phase' = "begun" /\ queued' = 0 /\ drawn' = 0 /\ dirty' = FALSE
  /\ NextFrame
  /\ UNCHANGED <<loaded, breaker, target, left, bridgeState, opened, result, news, wish, scanout,
                 shared, happened>>

\* Fault: no look at S.addedFrame.
EveryPass == attached /\ aimed

\* The POST_WINDOW hook acts on the attached window's first pass of the frame.
Hooks == attached /\ aimed /\ ~added

\* A shown window is rendered, in two passes if it is tiled.
PostWindow ==
  /\ phase \in {"begun", "windows"} /\ window = "shown"
  /\ phase' = "windows"
  /\ \/ Armed /\ Hooks /\ added' = TRUE /\ queued' = queued + 1 /\ Completes
     \/ Armed /\ Hooks /\ added' = TRUE /\ Fault /\ UNCHANGED queued
     \/ Armed /\ Fault /\ UNCHANGED <<added, queued>>
     \/ ~(Armed /\ Hooks) /\ Completes /\ UNCHANGED <<added, queued>>
  /\ UNCHANGED <<loaded, target, left, drawn, bridgeState, opened, news, wish, dirty, scanout,
                 shared>>

\* POST_WINDOWS; the pass is drawn.
RenderPass ==
  /\ phase = IF window = "shown" THEN "windows" ELSE "begun"
  /\ phase' = "pass" /\ left' = queued
  /\ Completes \/ (Armed /\ Fault)
  /\ UNCHANGED <<loaded, target, added, queued, drawn, bridgeState, opened, news, wish, dirty,
                 scanout, shared>>

\* exportFrame() gets on if there is a client; drawOverride() draws the newest
\* result if there is one.
Draws ==
  /\ drawn' = drawn + 1
  /\ wish' = (wish /\ ~served)
  /\ result' = IF result = "none" THEN "none" ELSE "drawn"
  /\ UNCHANGED <<breaker, happened>>

\* CNsElement::draw; a fault strikes before or after the export.
DrawElement ==
  /\ phase = "pass" /\ left > 0
  /\ left' = left - 1
  /\ \/ Armed /\ Draws
     \/ Armed /\ Fault /\ UNCHANGED drawn /\ wish' \in {wish, wish /\ ~served}
     \/ ~Armed /\ Completes /\ UNCHANGED <<drawn, wish>>
  /\ UNCHANGED <<loaded, target, phase, added, queued, bridgeState, opened, news, dirty, scanout,
                 shared>>

RenderEnd ==
  /\ phase = "pass" /\ left = 0
  /\ phase' = "idle"
  /\ UNCHANGED <<loaded, breaker, target, added, queued, left, drawn, bridgeState, opened,
                 showing, scanout, shared, happened>>

\* The timer keeps direct scan-out off while attached.
KeepsScanout ==
  IF attached THEN blocked' = TRUE /\ ours' = TRUE
  ELSE IF ours THEN blocked' = FALSE /\ ours' = FALSE
  ELSE UNCHANGED scanout


\* It damages the window for a result it has not seen, and while a connected
\* pipeline waits for a picture.
Notices ==
  IF attached
  THEN news' = FALSE /\ dirty' = (dirty \/ (aimed /\ (news \/ (served /\ wish))))
  ELSE UNCHANGED <<news, dirty>>

\* A fault strikes before that, or between S.lastDamaged and the damage.
TimerFires ==
  /\ Armed /\ phase = "idle"
  /\ KeepsScanout
  /\ \/ Notices /\ Completes
     \/ Fault /\ UNCHANGED <<news, dirty>>
     \/ attached /\ FaultAfter(TRUE) /\ news' = FALSE /\ UNCHANGED dirty
  /\ UNCHANGED <<loaded, target, frame, bridgeState, opened, wish, shared>>

\* A window the name matches is opened, closed, or its workspace changes; one that
\* opens later is not attached to by itself; one that is shown is damaged.
WindowChanges ==
  /\ phase = "idle"
  /\ Happens
  /\ window' \in {"none", "shown", "hidden"} \ {window}
  /\ aimed' = (aimed /\ window' # "none")
  /\ dirty' = (dirty \/ window' = "shown")
  /\ UNCHANGED <<loaded, breaker, attached, frame, bridgeState, opened, result, news, wish, scanout,
                 shared>>

\* Screen sharing begins or ends.
Sharing ==
  /\ Happens
  /\ shared' = ~shared
  /\ blocked' = shared'
  /\ UNCHANGED <<loaded, breaker, target, frame, bridgeState, opened, showing, ours>>

----------------------------------------------------------------------------
(* The bridge thread, and a pipeline                                        *)

\* A pipeline connects (one after the other): accept1() will answer.
Call ==
  /\ running /\ ~caller
  /\ Happens
  /\ caller' = TRUE
  /\ UNCHANGED <<loaded, breaker, target, frame, running, thread, served, opened, showing, scanout,
                 shared>>

\* accept1(): res_seq starts afresh (which is news unless S.lastDamaged is 0).
Serve ==
  /\ thread = "loop" /\ caller
  /\ caller' = FALSE /\ served' = TRUE
  /\ result' = "none" /\ news' \in BOOLEAN /\ wish' = TRUE
  /\ UNCHANGED <<loaded, breaker, target, frame, running, thread, opened, dirty, scanout, shared,
                 happened>>

\* publish() and set_override(True) in the pipeline.
NewResult ==
  /\ served /\ (result # "new" \/ ~news)
  /\ result' = "new" /\ news' = TRUE
  /\ UNCHANGED <<loaded, breaker, target, frame, bridgeState, opened, wish, dirty, scanout, shared,
                 happened>>

\* The newest result gets older than kResultMaxAgeNs, or the override is taken back.
Expires ==
  /\ result # "none"
  /\ result' = "none"
  /\ UNCHANGED <<loaded, breaker, target, frame, bridgeState, opened, news, wish, dirty, scanout,
                 shared, happened>>

\* Its end of file: the client is dropped, its override taken back.
EndOfFile ==
  /\ thread = "loop" /\ served
  /\ Happens
  /\ served' = FALSE /\ result' = "none"
  /\ UNCHANGED <<loaded, breaker, target, frame, running, thread, caller, opened, news, wish, dirty,
                 scanout, shared>>

\* loop() is one guarded section: a fault in it ends the thread.
BridgeFaults ==
  /\ thread = "loop"
  /\ Fault
  /\ thread' = "ended"
  /\ UNCHANGED <<loaded, target, frame, running, served, caller, opened, news, wish, dirty, scanout,
                 shared>>

----------------------------------------------------------------------------
Commands == Attach \/ Detach \/ Reset \/ PluginInit \/ PluginExit
Frames == RenderBegin \/ PostWindow \/ RenderPass \/ DrawElement \/ RenderEnd
Outside == WindowChanges \/ Damage \/ Sharing \/ Call \/ NewResult \/ Expires \/ Forget

GuardNext == Commands \/ Frames \/ TimerFires \/ Outside \/ Serve \/ EndOfFile \/ BridgeFaults

GuardSpec == GuardInit /\ [][GuardNext]_guardVars

\* The compositor draws a frame when there is damage, and then all of it; its
\* event loop runs the timer between frames; the bridge thread polls.  Nobody has
\* to type a command, and nothing but the timer has to damage a window.
GuardFairSpec ==
  /\ GuardSpec
  /\ WF_guardVars(RenderBegin) /\ WF_guardVars(PostWindow) /\ WF_guardVars(RenderPass)
  /\ WF_guardVars(DrawElement) /\ WF_guardVars(RenderEnd)
  /\ SF_guardVars(TimerFires)
  /\ WF_guardVars(Serve)

----------------------------------------------------------------------------
(* Properties                                                               *)

\* The types of each part; an armed plugin has not used up its exceptions.
GuardOK ==
  /\ loaded \in BOOLEAN /\ disabled \in BOOLEAN
  /\ recent \in Nat /\ (recent < Trip \/ disabled)

TargetOK ==
  /\ attached \in BOOLEAN /\ aimed \in BOOLEAN
  /\ window \in {"none", "shown", "hidden"}
  /\ aimed => attached /\ window # "none"

FrameOK ==
  /\ phase \in {"idle", "begun", "windows", "pass"} /\ added \in BOOLEAN
  /\ queued \in 0..1 /\ left \in 0..queued /\ drawn \in 0..1

BridgeOK ==
  /\ running \in BOOLEAN /\ served \in BOOLEAN /\ caller \in BOOLEAN
  /\ thread \in {"none", "loop", "ended"}
  /\ thread # "none" => running
  /\ held \subseteq Resources /\ lost \subseteq Resources /\ failed \in BOOLEAN
  /\ running => held = Resources

ShowingOK ==
  /\ result \in {"none", "new", "drawn", "missed"}
  /\ news \in BOOLEAN /\ wish \in BOOLEAN /\ dirty \in BOOLEAN

ScanoutOK == blocked \in BOOLEAN /\ ours \in BOOLEAN /\ shared \in BOOLEAN

\* Types; the window is drawn over once a frame at most, however the frames,
\* faults and re-armings interleave (main.cpp:840).
GuardTypeOK == GuardOK /\ TargetOK /\ FrameOK /\ BridgeOK /\ ShowingOK /\ ScanoutOK

\* main.cpp:1013: when the plugin is unloaded nothing of it is left behind that
\* would be called, destroyed or scheduled later: no element in the compositor's
\* pass, no thread, no block of the direct scan-out; nor the socket or the
\* memory, unless a start() had opened them and failed before it set running_
\* (one whose thread could not be created is cleaned up after).
UnloadedIsGone ==
  ~loaded => /\ queued = 0 /\ thread = "none" /\ ~running /\ ~served
             /\ blocked => shared
             /\ lost # {} => failed


=============================================================================
