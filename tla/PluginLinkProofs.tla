---------------------------- MODULE PluginLinkProofs ----------------------------
(***************************************************************************)
(* Proofs about PluginLink for any number of pipelines and results and any  *)
(* age limits: its types, that only a coherent pipeline's slots are sampled *)
(* without copying, that a result is drawn whole unless the pipeline        *)
(* overtakes the draw, and that a dead or stalled pipeline uncovers the     *)
(* window.                                                                  *)
(***************************************************************************)
EXTENDS PluginLink, TLAPS

USE BoundsAssumption

----------------------------------------------------------------------------
(* The inductive invariant                                                  *)

\* Types, part by part.
HeaderOK ==
  /\ resSeq \in 0..MaxResults
  /\ slot \in [Slots -> [by : 0..MaxPipelines, n : 0..MaxResults]]
  /\ resAge \in 0..MaxAge + 1 /\ okAge \in 0..MaxAge + 1 /\ expAge \in 0..Stall + 1
  /\ screen \in {"window", "result", "torn"}

FlagsOK == override \in BOOLEAN /\ flag \in BOOLEAN /\ coherent \in BOOLEAN

\* Who is connected. While a connection is being taken in, the pipeline it is from has
\* the memfd already unless it is gone, and waits with its first result until it is
\* installed.
BridgeInv ==
  /\ bpc \in {"poll", "drop", "flags", "install"}
  /\ gen \in 0..MaxPipelines /\ incoming \in 0..gen /\ client \in 0..gen
  /\ status \in {"connecting", "hasFd", "on", "stuck", "closing", "gone"}
  /\ status = "connecting" => client # gen /\ incoming # gen
  /\ bpc = "poll" <=> incoming = 0
  /\ bpc # "poll" /\ incoming # gen => status \in {"connecting", "gone"}
  /\ bpc # "poll" => ppc = "idle"
  /\ status \in {"connecting", "hasFd", "gone"} => ppc = "idle"

\* From the reset on the flag is that of the pipeline being installed.
FlagInv ==
  /\ bpc = "install" /\ incoming = gen /\ status # "gone" => (flag => coherent)
  /\ client # 0 /\ client = gen /\ status # "gone" => (flag => coherent)

\* publish() fills the slot after the newest, and the newest is whole.
PublishInv ==
  /\ ppc \in {"idle", "writing", "written", "bumped"} /\ pseq \in 0..MaxResults
  /\ ppc \in {"writing", "written"} => pseq = resSeq + 1
  /\ ppc = "written" => slot[SlotOf(pseq)].n = pseq
  /\ ppc = "bumped" => pseq = resSeq
  /\ resSeq # 0 => slot[SlotOf(resSeq)].n = resSeq

\* A draw that was overtaken once at most still reads what it began to read.
ReadInv ==
  /\ mpc \in {"idle", "upload", "sample"} /\ bumps \in 0..2
  /\ mpc # "idle" => resAge <= MaxAge
  /\ mpc # "idle" /\ bumps <= 1 =>
       /\ rs \in Nat /\ rs >= 1 /\ resSeq = rs + bumps
       /\ slot[SlotOf(rs)] = seen /\ seen.n # 0

\* The stamp is no younger than the pipeline's last being on time, unless it is now.
AgeInv == okAge <= resAge \/ (Beating /\ ~Stalled)

IInv == HeaderOK /\ FlagsOK /\ BridgeInv /\ FlagInv /\ PublishInv /\ ReadInv /\ AgeInv

----------------------------------------------------------------------------
(* Lemmas                                                                   *)

\* Every number names a slot, and of three in a row each a slot of its own.
LEMMA SlotsApart ==
  ASSUME NEW n \in Nat
  PROVE  SlotOf(n) \in Slots /\ SlotOf(n + 1) # SlotOf(n) /\ SlotOf(n + 2) # SlotOf(n)
BY DEF SlotOf, Slots

\* A part of the invariant stays as long as what it speaks of does.
LEMMA Untouched ==
  /\ HeaderOK /\ UNCHANGED <<resSeq, slot, resAge, okAge, expAge, screen>> => HeaderOK'
  /\ FlagsOK /\ UNCHANGED <<override, flag, coherent>> => FlagsOK'
  /\ BridgeInv /\ UNCHANGED <<bpc, gen, incoming, client, status, ppc>> => BridgeInv'
  /\ FlagInv /\ UNCHANGED <<bpc, gen, incoming, client, status, flag, coherent>> => FlagInv'
  /\ PublishInv /\ UNCHANGED <<ppc, pseq, resSeq, slot>> => PublishInv'
  /\ ReadInv /\ UNCHANGED <<mpc, bumps, resAge, rs, resSeq, slot, seen>> => ReadInv'
  /\ AgeInv /\ UNCHANGED <<okAge, resAge, status, unanswered, expAge>> => AgeInv'
<1>1. HeaderOK /\ UNCHANGED <<resSeq, slot, resAge, okAge, expAge, screen>> => HeaderOK'
  BY DEF HeaderOK
<1>2. FlagsOK /\ UNCHANGED <<override, flag, coherent>> => FlagsOK'
  BY Zenon DEF FlagsOK
<1>3. BridgeInv /\ UNCHANGED <<bpc, gen, incoming, client, status, ppc>> => BridgeInv'
  BY DEF BridgeInv
<1>4. FlagInv /\ UNCHANGED <<bpc, gen, incoming, client, status, flag, coherent>> => FlagInv'
  BY DEF FlagInv
<1>5. PublishInv /\ UNCHANGED <<ppc, pseq, resSeq, slot>> => PublishInv'
  BY DEF PublishInv
<1>6. ReadInv /\ UNCHANGED <<mpc, bumps, resAge, rs, resSeq, slot, seen>> => ReadInv'
  BY DEF ReadInv
<1>7. AgeInv /\ UNCHANGED <<okAge, resAge, status, unanswered, expAge>> => AgeInv'
  BY DEF AgeInv, Beating, Stalled
<1> QED
  BY <1>1, <1>2, <1>3, <1>4, <1>5, <1>6, <1>7

\* An age that counts stays an age, and keeps its order to another.
LEMMA Ages ==
  ASSUME NEW limit \in Nat, NEW a \in 0..limit + 1, NEW b \in 0..limit + 1
  PROVE  Older(a, limit) \in 0..limit + 1 /\ (a <= b => Older(a, limit) <= Older(b, limit))
BY DEF Older

\* Only the end of a read ends a draw, and only a repaint takes the damage away.
LEMMA OnlyEndsEnd ==
  [Next]_vars /\ mpc # "idle" /\ mpc' = "idle" => EndUpload \/ EndSample
BY DEF Next, Life, Publishing, BridgeThread, Compositor, Connect, Map, ProcessingEnds,
   CloseOverride,
       Exit, Receive, StartWrite, EndWrite, Bump, ShowResult, DropFrame, Beat, Accept, ReplaceClient,
       ResetFlags, Install, Hangup, Commit, Timer, Repaint, Tick, vars, drawing

LEMMA OnlyRepaintRepaints ==
  [Next]_vars /\ mpc = "idle" /\ damaged /\ ~damaged' => Repaint
BY DEF Next, Life, Publishing, BridgeThread, Compositor, Connect, Map, ProcessingEnds,
   CloseOverride,
       Exit, Receive, StartWrite, EndWrite, Bump, ShowResult, DropFrame, Beat, Accept, ReplaceClient,
       ResetFlags, Install, Hangup, Commit, Timer, NoticeResult, EndUpload, EndSample, Tick, vars, damage

LEMMA InitInvariant == Init => IInv
<1> SUFFICES ASSUME Init PROVE IInv
  OBVIOUS
<1> USE DEF Init
<1>1. HeaderOK
  BY DEF HeaderOK, Torn, Slots
<1>2. FlagsOK
  <2>1. coherent = FALSE /\ flag = FALSE /\ override = FALSE
    BY Zenon
  <2> QED
    BY <2>1 DEF FlagsOK
<1>3. BridgeInv /\ PublishInv
  BY DEF BridgeInv, PublishInv
<1>4. FlagInv /\ ReadInv /\ AgeInv
  BY DEF FlagInv, ReadInv, AgeInv
<1> QED
  BY <1>1, <1>2, <1>3, <1>4 DEF IInv

----------------------------------------------------------------------------
(* The pipeline's life                                                      *)

LEMMA LifeStep ==
  IInv /\ (Connect \/ Map \/ ProcessingEnds \/ CloseOverride \/ Exit) => IInv'
<1> SUFFICES ASSUME IInv, Connect \/ Map \/ ProcessingEnds \/ CloseOverride \/ Exit PROVE IInv'
  OBVIOUS
<1>t. /\ resSeq \in Nat /\ pseq \in Nat /\ gen \in Nat /\ bumps \in 0..2
      /\ resAge \in Nat /\ okAge \in Nat /\ expAge \in Nat
  BY DEF IInv, HeaderOK, BridgeInv, PublishInv, ReadInv
<1> USE DEF IInv, header, bridge, export, damage, drawing, process, frames, publish, timing
<1>1. CASE Connect
  <2>u. UNCHANGED <<resSeq, slot, resAge, okAge, expAge, screen, override, flag, bpc, incoming,
                  client, ppc, pseq, mpc, bumps, rs, seen, unanswered>>
    BY <1>1 DEF Connect
  <2>a. /\ gen < MaxPipelines /\ gen' = gen + 1 /\ status = "gone"
        /\ status' = "connecting"
    BY <1>1 DEF Connect
  <2>b. coherent' \in BOOLEAN
    BY <1>1, Zenon DEF Connect
  <2>1. HeaderOK' /\ PublishInv' /\ ReadInv'
    BY <2>u, Untouched
  <2>2. FlagsOK'
    BY <2>u, <2>b DEF FlagsOK
  <2>3. BridgeInv'
    BY <1>t, <2>u, <2>a DEF BridgeInv
  <2>4. FlagInv'
    BY <2>u, <2>a, <2>b DEF FlagInv, BridgeInv
  <2>5. AgeInv'
    BY <1>t, <2>u, <2>a DEF AgeInv, Beating, Stalled
  <2> QED
    BY <2>1, <2>2, <2>3, <2>4, <2>5
<1>2. CASE Map
  <2>u. UNCHANGED <<resSeq, slot, resAge, okAge, expAge, screen, override, coherent, bpc, gen,
                  incoming, client, ppc, pseq, mpc, bumps, rs, seen, unanswered>>
    BY <1>2 DEF Map
  <2>a. status = "hasFd" /\ status' = "on"
    BY <1>2 DEF Map
  <2>b. flag' = coherent
    BY <1>2, Zenon DEF Map
  <2>1. HeaderOK' /\ PublishInv' /\ ReadInv'
    BY <2>u, Untouched
  <2>2. FlagsOK'
    BY <2>u, <2>b DEF FlagsOK
  <2>3. BridgeInv'
    BY <1>t, <2>u, <2>a DEF BridgeInv
  <2>4. FlagInv'
    BY <2>u, <2>a, <2>b DEF FlagInv, BridgeInv
  <2>5. AgeInv'
    BY <1>t, <2>u, <2>a DEF AgeInv, Beating, Stalled
  <2> QED
    BY <2>1, <2>2, <2>3, <2>4, <2>5
<1>3. CASE ProcessingEnds
  <2>u. UNCHANGED <<resSeq, slot, resAge, okAge, expAge, screen, override, flag, coherent, bpc,
                  gen, incoming, client, ppc, pseq, mpc, bumps, rs, seen, unanswered>>
    BY <1>3 DEF ProcessingEnds
  <2>a. status = "on" /\ status' = "stuck"
    BY <1>3 DEF ProcessingEnds
  <2>1. HeaderOK' /\ FlagsOK' /\ PublishInv' /\ ReadInv'
    BY <2>u, Untouched
  <2>2. BridgeInv'
    BY <1>t, <2>u, <2>a DEF BridgeInv
  <2>3. FlagInv'
    BY <2>u, <2>a DEF FlagInv, BridgeInv
  <2>4. AgeInv'
    BY <1>t, <2>u, <2>a DEF AgeInv, Beating, Stalled
  <2> QED
    BY <2>1, <2>2, <2>3, <2>4
<1>4. CASE CloseOverride
  <2>u. UNCHANGED <<resSeq, slot, resAge, expAge, screen, flag, coherent, bpc, gen, incoming,
                  client, ppc, pseq, mpc, bumps, rs, seen, unanswered>>
    BY <1>4 DEF CloseOverride, Leaves
  <2>a. Beating /\ status' = "closing" /\ okAge' = IF Beating /\ ~Stalled THEN 0 ELSE okAge
    BY <1>4 DEF CloseOverride, Leaves
  <2>b. override' = FALSE
    BY <1>4, Zenon DEF CloseOverride
  <2>p. status \in {"on", "stuck"}
    BY <2>a DEF Beating
  <2>1. PublishInv' /\ ReadInv'
    BY <2>u, Untouched
  <2>2. HeaderOK'
    BY <1>t, <2>u, <2>a DEF HeaderOK
  <2>3. FlagsOK'
    BY <2>u, <2>b DEF FlagsOK
  <2>4. BridgeInv'
    BY <2>u, <2>a, <2>p DEF BridgeInv
  <2>5. FlagInv'
    BY <2>u, <2>a, <2>p DEF FlagInv
  <2>6. AgeInv'
    BY <1>t, <2>u, <2>a DEF AgeInv, Beating, Stalled
  <2> QED
    BY <2>1, <2>2, <2>3, <2>4, <2>5, <2>6
<1>5. CASE Exit
  <2>u. UNCHANGED <<resSeq, slot, resAge, screen, override, flag, bpc, gen, incoming, client,
                  mpc, bumps, rs, seen>>
    BY <1>5 DEF Exit, Leaves, NoProcess
  <2>a. /\ status # "gone" /\ status' = "gone" /\ ppc' = "idle" /\ pseq' = 0 /\ expAge' = 0
        /\ okAge' = IF Beating /\ ~Stalled THEN 0 ELSE okAge
    BY <1>5 DEF Exit, Leaves, NoProcess
  <2>b. coherent' = FALSE
    BY <1>5, Zenon DEF Exit, NoProcess
  <2>1. ReadInv'
    BY <2>u, Untouched
  <2>2. HeaderOK'
    BY <1>t, <2>u, <2>a DEF HeaderOK
  <2>3. FlagsOK'
    BY <2>u, <2>b DEF FlagsOK
  <2>4. BridgeInv'
    BY <1>t, <2>u, <2>a DEF BridgeInv
  <2>5. FlagInv'
    BY <2>u, <2>a, <2>b DEF FlagInv, BridgeInv
  <2>6. PublishInv'
    BY <1>t, <2>u, <2>a DEF PublishInv
  <2>7. AgeInv'
    BY <1>t, <2>u, <2>a DEF AgeInv, Beating, Stalled
  <2> QED
    BY <2>1, <2>2, <2>3, <2>4, <2>5, <2>6, <2>7
<1> QED
  BY <1>1, <1>2, <1>3, <1>4, <1>5

----------------------------------------------------------------------------
(* Frames in, results out                                                   *)

LEMMA WorkingStep ==
  IInv /\ (Receive \/ StartWrite \/ EndWrite \/ Bump \/ ShowResult \/ DropFrame \/ Beat) => IInv'
<1> SUFFICES ASSUME IInv,
                    Receive \/ StartWrite \/ EndWrite \/ Bump \/ ShowResult \/ DropFrame \/ Beat
             PROVE  IInv'
  OBVIOUS
<1>t. /\ resSeq \in Nat /\ pseq \in Nat /\ gen \in Nat /\ bumps \in 0..2
      /\ resAge \in Nat /\ okAge \in Nat /\ expAge \in Nat
  BY DEF IInv, HeaderOK, BridgeInv, PublishInv, ReadInv
<1> USE DEF IInv, header, bridge, export, damage, drawing, process, frames, publish, timing
<1>1. CASE Receive
  <2>u. UNCHANGED <<resSeq, slot, resAge, okAge, screen, override, flag, coherent, bpc, gen,
                  incoming, client, status, ppc, pseq, mpc, bumps, rs, seen>>
    BY <1>1 DEF Receive
  <2>a. Beating /\ expAge' = 0
    BY <1>1 DEF Receive
  <2>1. FlagsOK' /\ BridgeInv' /\ FlagInv' /\ PublishInv' /\ ReadInv'
    BY <2>u, Untouched
  <2>2. HeaderOK'
    BY <1>t, <2>u, <2>a DEF HeaderOK
  <2>3. AgeInv'
    BY <1>t, <2>u, <2>a DEF AgeInv, Beating, Stalled
  <2> QED
    BY <2>1, <2>2, <2>3
<1>2. CASE StartWrite
  <2>u. UNCHANGED <<resSeq, resAge, okAge, expAge, screen, override, flag, coherent, bpc, gen,
                  incoming, client, status, mpc, bumps, rs, seen, unanswered>>
    BY <1>2 DEF StartWrite
  <2>a. /\ status = "on" /\ ppc = "idle" /\ ppc' = "writing" /\ incoming # gen
        /\ resSeq < MaxResults /\ pseq' = resSeq + 1
        /\ slot' = [slot EXCEPT ![SlotOf(resSeq + 1)] = Torn]
    BY <1>2 DEF StartWrite
  <2>1. FlagsOK' /\ FlagInv' /\ AgeInv'
    BY <2>u, Untouched
  <2>2. HeaderOK'
    <3>1. SlotOf(resSeq + 1) \in Slots
      BY <1>t, SlotsApart
    <3>2. Torn \in [by : 0..MaxPipelines, n : 0..MaxResults]
      BY DEF Torn
    <3> QED
      BY <2>u, <2>a, <3>1, <3>2 DEF HeaderOK
  <2>3. BridgeInv'
    BY <1>t, <2>u, <2>a DEF BridgeInv
  <2>4. PublishInv'
    <3>1. SlotOf(resSeq + 1) # SlotOf(resSeq) /\ SlotOf(resSeq) \in Slots
      BY <1>t, SlotsApart
    <3>2. slot'[SlotOf(resSeq)] = slot[SlotOf(resSeq)]
      BY <2>a, <3>1 DEF HeaderOK
    <3> QED
      BY <1>t, <2>u, <2>a, <3>2 DEF PublishInv
  <2>5. ReadInv'
    <3>1. ASSUME mpc # "idle", bumps <= 1 PROVE slot'[SlotOf(rs)] = slot[SlotOf(rs)]
      <4>1. rs \in Nat /\ (resSeq = rs \/ resSeq = rs + 1)
        BY <1>t, <3>1 DEF ReadInv
      <4>2. SlotOf(rs) \in Slots /\ SlotOf(resSeq + 1) # SlotOf(rs)
        BY <1>t, <4>1, SlotsApart
      <4> QED
        BY <2>a, <4>2 DEF HeaderOK
    <3> QED
      BY <1>t, <2>u, <2>a, <3>1 DEF ReadInv
  <2> QED
    BY <2>1, <2>2, <2>3, <2>4, <2>5
<1>3. CASE EndWrite
  <2>u. UNCHANGED <<resSeq, expAge, screen, override, flag, coherent, bpc, gen, incoming,
                  client, status, pseq, mpc, bumps, rs, seen, unanswered>>
    BY <1>3 DEF EndWrite
  <2>a. /\ ppc = "writing" /\ ppc' = "written" /\ resAge' = 0 /\ okAge' = 0
        /\ slot' = [slot EXCEPT ![SlotOf(pseq)] = [by |-> gen, n |-> pseq]]
    BY <1>3 DEF EndWrite
  <2>p. pseq = resSeq + 1 /\ pseq \in 0..MaxResults
    BY <2>a DEF PublishInv
  <2>1. FlagsOK' /\ FlagInv'
    BY <2>u, Untouched
  <2>2. HeaderOK'
    <3>1. SlotOf(pseq) \in Slots
      BY <2>p, SlotsApart
    <3>2. [by |-> gen, n |-> pseq] \in [by : 0..MaxPipelines, n : 0..MaxResults]
      BY <2>p DEF BridgeInv
    <3> QED
      BY <2>u, <2>a, <3>1, <3>2 DEF HeaderOK
  <2>3. BridgeInv'
    BY <1>t, <2>u, <2>a DEF BridgeInv
  <2>4. PublishInv'
    <3>1. SlotOf(resSeq + 1) # SlotOf(resSeq) /\ SlotOf(resSeq) \in Slots /\ SlotOf(pseq) \in Slots
      BY <1>t, <2>p, SlotsApart
    <3>2. slot'[SlotOf(resSeq)] = slot[SlotOf(resSeq)] /\ slot'[SlotOf(pseq)].n = pseq
      BY <2>a, <2>p, <3>1 DEF HeaderOK
    <3> QED
      BY <1>t, <2>u, <2>a, <2>p, <3>2 DEF PublishInv
  <2>5. ReadInv'
    <3>1. ASSUME mpc # "idle", bumps <= 1 PROVE slot'[SlotOf(rs)] = slot[SlotOf(rs)]
      <4>1. rs \in Nat /\ (resSeq = rs \/ resSeq = rs + 1)
        BY <1>t, <3>1 DEF ReadInv
      <4>2. SlotOf(rs) \in Slots /\ SlotOf(pseq) # SlotOf(rs)
        BY <2>p, <1>t, <4>1, SlotsApart
      <4> QED
        BY <2>a, <4>2 DEF HeaderOK
    <3> QED
      BY <1>t, <2>u, <2>a, <3>1 DEF ReadInv
  <2>6. AgeInv'
    BY <1>t, <2>u, <2>a DEF AgeInv, Beating, Stalled
  <2> QED
    BY <2>1, <2>2, <2>3, <2>4, <2>5, <2>6
<1>4. CASE Bump
  <2>u. UNCHANGED <<slot, resAge, okAge, screen, override, flag, coherent, bpc, gen, incoming,
                  client, status, pseq, mpc, rs, seen>>
    BY <1>4 DEF Bump, Moves
  <2>a. /\ ppc = "written" /\ ppc' = "bumped" /\ resSeq' = pseq /\ expAge' = 0
        /\ bumps' = IF mpc # "idle" /\ bumps < 2 THEN bumps + 1 ELSE bumps
    BY <1>4 DEF Bump, Moves
  <2>1. FlagsOK' /\ FlagInv'
    BY <2>u, Untouched
  <2>2. HeaderOK'
    BY <1>t, <2>u, <2>a DEF HeaderOK, PublishInv
  <2>3. BridgeInv'
    BY <1>t, <2>u, <2>a DEF BridgeInv
  <2>4. PublishInv'
    BY <1>t, <2>u, <2>a DEF PublishInv
  <2>5. ReadInv'
    BY <1>t, <2>u, <2>a DEF ReadInv, PublishInv
  <2>6. AgeInv'
    BY <1>t, <2>u, <2>a DEF AgeInv, Beating, Stalled
  <2> QED
    BY <2>1, <2>2, <2>3, <2>4, <2>5, <2>6
<1>5. CASE ShowResult
  <2>u. UNCHANGED <<resSeq, slot, resAge, okAge, expAge, screen, flag, coherent, bpc, gen,
                  incoming, client, status, mpc, bumps, rs, seen, unanswered>>
    BY <1>5 DEF ShowResult
  <2>a. ppc = "bumped" /\ ppc' = "idle" /\ pseq' = 0
    BY <1>5 DEF ShowResult
  <2>b. override' = TRUE
    BY <1>5, Zenon DEF ShowResult
  <2>1. HeaderOK' /\ FlagInv' /\ ReadInv' /\ AgeInv'
    BY <2>u, Untouched
  <2>2. FlagsOK'
    BY <2>u, <2>b DEF FlagsOK
  <2>3. BridgeInv'
    BY <1>t, <2>u, <2>a DEF BridgeInv
  <2>4. PublishInv'
    BY <1>t, <2>u, <2>a DEF PublishInv
  <2> QED
    BY <2>1, <2>2, <2>3, <2>4
<1>6. CASE DropFrame
  <2>u. UNCHANGED <<resSeq, slot, resAge, okAge, expAge, screen, override, flag, coherent, bpc,
                  gen, incoming, client, status, ppc, pseq, mpc, bumps, rs, seen, unanswered>>
    BY <1>6 DEF DropFrame
  <2>1. HeaderOK' /\ FlagsOK' /\ BridgeInv' /\ FlagInv' /\ PublishInv' /\ ReadInv' /\ AgeInv'
    BY <2>u, Untouched
  <2> QED
    BY <2>1
<1>7. CASE Beat
  <2>u. UNCHANGED <<resSeq, slot, okAge, expAge, screen, override, flag, coherent, bpc, gen,
                  incoming, client, status, ppc, pseq, mpc, bumps, rs, seen, unanswered>>
    BY <1>7 DEF Beat, Vouches
  <2>a. Beating /\ resAge' = IF ~Stalled /\ resSeq # 0 THEN 0 ELSE resAge
    BY <1>7 DEF Beat, Vouches
  <2>1. FlagsOK' /\ BridgeInv' /\ FlagInv' /\ PublishInv'
    BY <2>u, Untouched
  <2>2. HeaderOK'
    BY <1>t, <2>u, <2>a DEF HeaderOK
  <2>3. ReadInv'
    BY <1>t, <2>u, <2>a DEF ReadInv
  <2>4. AgeInv'
    BY <1>t, <2>u, <2>a DEF AgeInv, Beating, Stalled
  <2> QED
    BY <2>1, <2>2, <2>3, <2>4
<1> QED
  BY <1>1, <1>2, <1>3, <1>4, <1>5, <1>6, <1>7

----------------------------------------------------------------------------
(* The bridge thread                                                        *)

LEMMA BridgeThreadStep ==
  IInv /\ (Accept \/ ReplaceClient \/ ResetFlags \/ Install \/ Hangup) => IInv'
<1> SUFFICES ASSUME IInv, Accept \/ ReplaceClient \/ ResetFlags \/ Install \/ Hangup PROVE IInv'
  OBVIOUS
<1>t. /\ resSeq \in Nat /\ pseq \in Nat /\ gen \in Nat /\ bumps \in 0..2
      /\ resAge \in Nat /\ okAge \in Nat /\ expAge \in Nat
  BY DEF IInv, HeaderOK, BridgeInv, PublishInv, ReadInv
<1> USE DEF IInv, header, bridge, export, damage, drawing, process, frames, publish, timing
<1>1. CASE Accept
  <2>u. UNCHANGED <<resSeq, slot, resAge, okAge, expAge, screen, override, flag, coherent, gen,
                  client, ppc, pseq, mpc, bumps, rs, seen, unanswered>>
    BY <1>1 DEF Accept
  <2>a. /\ bpc = "poll" /\ bpc' = "drop" /\ status = "connecting" /\ status' = "hasFd"
        /\ incoming' = gen
    BY <1>1 DEF Accept
  <2>1. HeaderOK' /\ FlagsOK' /\ PublishInv' /\ ReadInv'
    BY <2>u, Untouched
  <2>2. BridgeInv'
    BY <1>t, <2>u, <2>a DEF BridgeInv
  <2>3. FlagInv'
    BY <2>u, <2>a DEF FlagInv, BridgeInv
  <2>4. AgeInv'
    BY <1>t, <2>u, <2>a DEF AgeInv, Beating, Stalled
  <2> QED
    BY <2>1, <2>2, <2>3, <2>4
<1>2. CASE ReplaceClient
  <2>u. UNCHANGED <<slot, resAge, okAge, expAge, screen, flag, coherent, gen, incoming, status,
                  ppc, pseq, mpc, rs, seen, unanswered>>
    BY <1>2 DEF ReplaceClient
  <2>a. /\ bpc = "drop" /\ bpc' = "flags" /\ client' = 0 /\ resSeq' = 0
        /\ bumps' = IF mpc # "idle" THEN 2 ELSE bumps
    BY <1>2 DEF ReplaceClient
  <2>b. override' = FALSE
    BY <1>2, Zenon DEF ReplaceClient
  <2>1. AgeInv'
    BY <2>u, Untouched
  <2>2. HeaderOK'
    BY <1>t, <2>u, <2>a DEF HeaderOK
  <2>3. FlagsOK'
    BY <2>u, <2>b DEF FlagsOK
  <2>4. BridgeInv'
    BY <1>t, <2>u, <2>a DEF BridgeInv
  <2>5. FlagInv'
    BY <2>u, <2>a, <2>b DEF FlagInv, BridgeInv
  <2>6. PublishInv'
    BY <1>t, <2>u, <2>a DEF PublishInv, BridgeInv
  <2>7. ReadInv'
    BY <1>t, <2>u, <2>a DEF ReadInv
  <2> QED
    BY <2>1, <2>2, <2>3, <2>4, <2>5, <2>6, <2>7
<1>3. CASE ResetFlags
  <2>u. UNCHANGED <<resSeq, slot, resAge, okAge, expAge, screen, override, coherent, gen,
                  incoming, client, status, ppc, pseq, mpc, bumps, rs, seen, unanswered>>
    BY <1>3 DEF ResetFlags
  <2>a. bpc = "flags" /\ bpc' = "install"
    BY <1>3 DEF ResetFlags
  <2>b. flag' = FALSE
    BY <1>3, Zenon DEF ResetFlags
  <2>1. HeaderOK' /\ PublishInv' /\ ReadInv' /\ AgeInv'
    BY <2>u, Untouched
  <2>2. FlagsOK'
    BY <2>u, <2>b DEF FlagsOK
  <2>3. BridgeInv'
    BY <1>t, <2>u, <2>a DEF BridgeInv
  <2>4. FlagInv'
    BY <2>u, <2>a, <2>b DEF FlagInv, BridgeInv
  <2> QED
    BY <2>1, <2>2, <2>3, <2>4
<1>4. CASE Install
  <2>u. UNCHANGED <<resSeq, slot, resAge, okAge, expAge, screen, override, flag, coherent, gen,
                  status, ppc, pseq, mpc, bumps, rs, seen, unanswered>>
    BY <1>4 DEF Install
  <2>a. bpc = "install" /\ bpc' = "poll" /\ client' = incoming /\ incoming' = 0
    BY <1>4 DEF Install
  <2>1. HeaderOK' /\ FlagsOK' /\ PublishInv' /\ ReadInv' /\ AgeInv'
    BY <2>u, Untouched
  <2>2. BridgeInv'
    BY <1>t, <2>u, <2>a DEF BridgeInv
  <2>3. FlagInv'
    BY <2>u, <2>a DEF FlagInv, BridgeInv
  <2> QED
    BY <2>1, <2>2, <2>3
<1>5. CASE Hangup
  <2>u. UNCHANGED <<resSeq, slot, resAge, okAge, expAge, screen, flag, coherent, bpc, gen,
                  incoming, status, ppc, pseq, mpc, bumps, rs, seen, unanswered>>
    BY <1>5 DEF Hangup
  <2>a. client' = 0
    BY <1>5 DEF Hangup
  <2>b. override' = FALSE
    BY <1>5, Zenon DEF Hangup
  <2>1. HeaderOK' /\ PublishInv' /\ ReadInv' /\ AgeInv'
    BY <2>u, Untouched
  <2>2. FlagsOK'
    BY <2>u, <2>b DEF FlagsOK
  <2>3. BridgeInv'
    BY <1>t, <2>u, <2>a DEF BridgeInv
  <2>4. FlagInv'
    BY <2>u, <2>a, <2>b DEF FlagInv, BridgeInv
  <2> QED
    BY <2>1, <2>2, <2>3, <2>4
<1> QED
  BY <1>1, <1>2, <1>3, <1>4, <1>5

----------------------------------------------------------------------------
(* The main thread, and time                                                *)

LEMMA DrawingStep ==
  IInv /\ (Commit \/ Timer \/ Repaint \/ EndUpload \/ EndSample \/ Tick) => IInv'
<1> SUFFICES ASSUME IInv, Commit \/ Timer \/ Repaint \/ EndUpload \/ EndSample \/ Tick PROVE IInv'
  OBVIOUS
<1>t. /\ resSeq \in Nat /\ pseq \in Nat /\ gen \in Nat /\ bumps \in 0..2
      /\ resAge \in Nat /\ okAge \in Nat /\ expAge \in Nat
  BY DEF IInv, HeaderOK, BridgeInv, PublishInv, ReadInv
<1> USE DEF IInv, header, bridge, export, damage, drawing, process, frames, publish, timing
<1>1. CASE Commit
  <2>u. UNCHANGED <<resSeq, slot, resAge, okAge, expAge, screen, override, flag, coherent, bpc,
                  gen, incoming, client, status, ppc, pseq, mpc, bumps, rs, seen, unanswered>>
    BY <1>1 DEF Commit
  <2>1. HeaderOK' /\ FlagsOK' /\ BridgeInv' /\ FlagInv' /\ PublishInv' /\ ReadInv' /\ AgeInv'
    BY <2>u, Untouched
  <2> QED
    BY <2>1
<1>2. CASE Timer
  <2>u. UNCHANGED <<resSeq, slot, resAge, okAge, expAge, screen, override, flag, coherent, bpc,
                  gen, incoming, client, status, ppc, pseq, mpc, bumps, rs, seen, unanswered>>
    BY <1>2 DEF Timer
  <2>1. HeaderOK' /\ FlagsOK' /\ BridgeInv' /\ FlagInv' /\ PublishInv' /\ ReadInv' /\ AgeInv'
    BY <2>u, Untouched
  <2> QED
    BY <2>1
<1>3. CASE Repaint
  <2>u. UNCHANGED <<resSeq, slot, resAge, okAge, expAge, override, flag, coherent, bpc, gen,
                  incoming, client, status, ppc, pseq, unanswered>>
    BY <1>3 DEF Repaint, BeginRead, DrawNothing, Reuse, ExportFrame
  <2>r. \/ /\ UNCHANGED <<mpc, rs, seen, bumps>>
           /\ screen' \in {"window", "result", "torn"}
        \/ /\ mpc' \in {"upload", "sample"} /\ rs' = resSeq /\ resSeq # 0 /\ resAge <= MaxAge
           /\ seen' = slot[SlotOf(resSeq)] /\ bumps' = 0 /\ UNCHANGED screen
    <3>1. CASE DrawNothing
      BY <3>1 DEF DrawNothing
    <3>2. CASE Reuse
      BY <3>2 DEF Reuse, Shown
    <3>3. CASE BeginRead("upload") \/ BeginRead("sample")
      BY <3>3 DEF BeginRead, Covers
    <3> QED
      BY <1>3, <3>1, <3>2, <3>3, Zenon DEF Repaint
  <2>1. FlagsOK' /\ BridgeInv' /\ FlagInv' /\ PublishInv' /\ AgeInv'
    BY <2>u, Untouched
  <2>2. HeaderOK'
    BY <2>u, <2>r DEF HeaderOK
  <2>3. ReadInv'
    BY <1>t, <2>u, <2>r DEF ReadInv, PublishInv
  <2> QED
    BY <2>1, <2>2, <2>3
<1>4. CASE EndUpload
  <2>u. UNCHANGED <<resSeq, slot, resAge, okAge, expAge, override, flag, coherent, bpc, gen,
                  incoming, client, status, ppc, pseq, unanswered>>
    BY <1>4 DEF EndUpload, Shown
  <2>a. mpc' = "idle" /\ bumps' = 0 /\ screen' \in {"window", "result", "torn"}
    BY <1>4 DEF EndUpload, Shown
  <2>1. FlagsOK' /\ BridgeInv' /\ FlagInv' /\ PublishInv' /\ AgeInv'
    BY <2>u, Untouched
  <2>2. HeaderOK'
    BY <1>t, <2>u, <2>a DEF HeaderOK
  <2>3. ReadInv'
    BY <1>t, <2>u, <2>a DEF ReadInv
  <2> QED
    BY <2>1, <2>2, <2>3
<1>5. CASE EndSample
  <2>u. UNCHANGED <<resSeq, slot, resAge, okAge, expAge, override, flag, coherent, bpc, gen,
                  incoming, client, status, ppc, pseq, unanswered>>
    BY <1>5 DEF EndSample, Shown
  <2>a. mpc' = "idle" /\ bumps' = 0 /\ screen' \in {"window", "result", "torn"}
    BY <1>5 DEF EndSample, Shown
  <2>1. FlagsOK' /\ BridgeInv' /\ FlagInv' /\ PublishInv' /\ AgeInv'
    BY <2>u, Untouched
  <2>2. HeaderOK'
    BY <1>t, <2>u, <2>a DEF HeaderOK
  <2>3. ReadInv'
    BY <1>t, <2>u, <2>a DEF ReadInv
  <2> QED
    BY <2>1, <2>2, <2>3
<1>6. CASE Tick
  <2>u. UNCHANGED <<resSeq, slot, screen, override, flag, coherent, bpc, gen, incoming, client,
                  status, ppc, pseq, mpc, bumps, rs, seen, unanswered>>
    BY <1>6 DEF Tick, OnTime
  <2>a. /\ mpc = "idle" /\ resAge' = Older(resAge, MaxAge)
        /\ okAge' = IF Beating /\ ~Stalled THEN 0 ELSE Older(okAge, MaxAge)
        /\ expAge' = IF unanswered THEN Older(expAge, Stall) ELSE 0
    BY <1>6 DEF Tick, OnTime
  <2>g. /\ Older(resAge, MaxAge) \in 0..MaxAge + 1 /\ Older(okAge, MaxAge) \in 0..MaxAge + 1
        /\ Older(expAge, Stall) \in 0..Stall + 1
        /\ okAge <= resAge => Older(okAge, MaxAge) <= Older(resAge, MaxAge)
    BY Ages DEF HeaderOK
  <2>1. FlagsOK' /\ BridgeInv' /\ FlagInv' /\ PublishInv'
    BY <2>u, Untouched
  <2>2. HeaderOK'
    BY <1>t, <2>u, <2>a, <2>g DEF HeaderOK
  <2>3. ReadInv'
    BY <1>t, <2>u, <2>a DEF ReadInv
  <2>4. AgeInv'
    BY <1>t, <2>u, <2>a, <2>g DEF AgeInv
  <2> QED
    BY <2>1, <2>2, <2>3, <2>4
<1> QED
  BY <1>1, <1>2, <1>3, <1>4, <1>5, <1>6

----------------------------------------------------------------------------
(* Theorems                                                                 *)

LEMMA Inductive == IInv /\ [Next]_vars => IInv'
<1> SUFFICES ASSUME IInv, [Next]_vars PROVE IInv'
  OBVIOUS
<1>1. CASE UNCHANGED vars
  <2>1. UNCHANGED <<resSeq, slot, resAge, okAge, expAge, screen, override, flag, coherent, bpc,
                gen, incoming, client, status, ppc, pseq, mpc, bumps, rs, seen, unanswered>>
    BY <1>1 DEF vars, header, bridge, export, damage, drawing, process, frames, publish, timing
  <2> QED
    BY <2>1, Untouched DEF IInv
<1> QED
  BY <1>1, LifeStep, WorkingStep, BridgeThreadStep, DrawingStep
     DEF Next, Life, Publishing, BridgeThread, Compositor

LEMMA Invariant == Spec => []IInv
BY InitInvariant, Inductive, PTL DEF Spec

\* The header the two processes share keeps its ranges, whatever pipelines come and go.
THEOREM TypeCorrect == Spec => []TypeOK
<1>1. IInv => TypeOK
  BY DEF IInv, TypeOK, HeaderOK, FlagsOK, BridgeInv, PublishInv, ReadInv
<1> QED
  BY <1>1, Invariant, PTL

\* The bridge thread forgets the old client's flags before it installs the new one
\* (bridge.hpp), so a slot is sampled in place only for a pipeline with the cache-aware
\* copies.
THEOREM ZeroCopyIsSafe == Spec => []ZeroCopyIfCoherent
<1>1. IInv => ZeroCopyIfCoherent
  BY DEF IInv, ZeroCopyIfCoherent, FlagInv, ClientGone
<1> QED
  BY <1>1, Invariant, PTL

\* Three slots are enough for a draw that is overtaken once: what it reads is not written
\* meanwhile.
THEOREM DrawsAreWhole == Spec => DrawnWhole
<1>1. IInv /\ [Next]_vars => (Covering /\ mpc # "idle" /\ bumps <= 1 => screen' # "torn")
  <2> SUFFICES ASSUME IInv, [Next]_vars, Covering, mpc # "idle", bumps <= 1
               PROVE  screen' # "torn"
    OBVIOUS
  <2>1. EndUpload \/ EndSample
    BY OnlyEndsEnd DEF Covering
  <2>2. WasRead # Torn
    BY DEF WasRead, IInv, ReadInv, Torn
  <2>3. screen' = Shown(WasRead)
    BY <2>1 DEF EndUpload, EndSample
  <2> QED
    BY <2>2, <2>3 DEF Shown
<1> QED
  BY <1>1, Invariant, PTL DEF Spec, DrawnWhole

\* A repaint that shows a result does so within the age limit of the moment at which the
\* pipeline was last alive and on time: the watchdog's stamp cannot outlive it.
THEOREM StallUncovers == Spec => StalledUncovers
<1>1. IInv /\ [Next]_vars => (Covering => okAge <= MaxAge \/ (Beating /\ ~Stalled))
  <2> SUFFICES ASSUME IInv, [Next]_vars, Covering PROVE okAge <= MaxAge \/ (Beating /\ ~Stalled)
    OBVIOUS
  <2>1. resAge <= MaxAge
    <3>1. CASE mpc # "idle"
      BY <3>1 DEF IInv, ReadInv
    <3>2. CASE mpc = "idle"
      <4>1. Repaint
        BY <3>2, OnlyRepaintRepaints DEF Covering
      <4> QED
        BY <3>2, <4>1 DEF Covering, Repaint, DrawNothing, Reuse, BeginRead, Covers
    <3> QED
      BY <3>1, <3>2
  <2> QED
    BY <2>1 DEF IInv, AgeInv, HeaderOK
<1> QED
  BY <1>1, Invariant, PTL DEF Spec, StalledUncovers

=============================================================================
