-------------------------- MODULE CapturePipelineProofs --------------------------
(***************************************************************************)
(* Proofs about CapturePipeline for any number of capture threads, changes  *)
(* and restarts: its types, that frames reach the worker in the order of    *)
(* their numbers, and that they have the worker's size.                     *)
(***************************************************************************)
EXTENDS CapturePipeline, FiniteSetTheorems, TLAPS

USE BoundsAssumption

----------------------------------------------------------------------------
(* The inductive invariant                                                  *)

\* Types, part by part.
PanelOK ==
  /\ resolution \in Sizes /\ native \in Sizes
  /\ settled \in BOOLEAN /\ active \in BOOLEAN /\ stop \in BOOLEAN

CaptureOK ==
  /\ cpc \in [Threads -> {"head", "number", "capture", "ended"}]
  /\ csize \in [Threads -> Sizes \cup {0}]

ProcessOK ==
  /\ ppc \in {"start", "head", "reconfigure", "get", "process", "ended"}
  /\ applied \in Sizes \cup {0} /\ wanted \in Sizes \cup {0}
  /\ ppc = "reconfigure" => wanted \in Sizes

NumbersOK ==
  /\ my \in [Threads -> Nat] /\ lastPut \in Nat /\ taken \in Nat
  /\ queue = <<>> \/ \E n \in Nat, s \in Sizes \cup {0} : queue = <<[num |-> n, size |-> s]>>

\* The numbers stay below what there are threads and places for.
DenseInv == \A n \in InUse : n \in 0..Cardinality(Threads) + 3

\* The waiting frame is the one put last, and not the one taken last; a capture in
\* flight has a number that no other and no put frame has.
OrderInv ==
  /\ taken <= lastPut
  /\ queue # <<>> => queue[1].num = lastPut /\ taken < lastPut
  /\ \A t \in Threads :
       /\ cpc[t] # "capture" => my[t] = 0
       /\ cpc[t] = "capture" =>
            my[t] > 0 /\ my[t] # lastPut /\ \A s \in Threads \ {t} : my[s] # my[t]

\* The process thread's size is its worker's, unless it began too late or the worker
\* is closed; the worker's memory is made for the window's first size at most.
WorkerInv ==
  /\ worker \in {0, 1, Ceiling} /\ limit \in {0, 1, Ceiling}
  /\ gpc \in {"idle", "join capture", "join process", "check", "new", "quit"}
  /\ ppc = "process" => frame = applied
  /\ ~raced /\ gpc # "quit" /\ ppc \notin {"start", "ended"} => applied = worker

\* While the worker is made anew there is neither of the threads.
RestartInv == gpc = "new" => ppc = "ended" /\ cpc[Main] = "ended"

IInv == PanelOK /\ CaptureOK /\ ProcessOK /\ NumbersOK /\ DenseInv /\ OrderInv /\ WorkerInv
        /\ RestartInv

----------------------------------------------------------------------------
(* Lemmas about the numbers                                                 *)

\* The numbers in use when the waiting frame is the one put last.
Used == {my[t] : t \in Threads} \cup {lastPut, taken, 0}

LEMMA InUseIsUsed ==
  NumbersOK /\ OrderInv => InUse = Used /\ InUse \subseteq Nat
<1> SUFFICES ASSUME NumbersOK, OrderInv PROVE InUse = Used /\ InUse \subseteq Nat
  OBVIOUS
<1>1. CASE queue = <<>>
  BY <1>1 DEF InUse, Used, NumbersOK
<1>2. CASE queue # <<>>
  <2>1. PICK n \in Nat, s \in Sizes \cup {0} : queue = <<[num |-> n, size |-> s]>>
    BY <1>2 DEF NumbersOK
  <2>2. DOMAIN queue = {1} /\ queue[1].num = n
    BY <2>1
  <2>3. n = lastPut
    BY <1>2, <2>2 DEF OrderInv
  <2>4. {queue[i].num : i \in DOMAIN queue} = {lastPut}
    BY <2>2, <2>3
  <2>5. InUse = Used
    BY <2>4 DEF InUse, Used
  <2> QED
    BY <2>5 DEF Used, NumbersOK
<1> QED
  BY <1>1, <1>2

\* One element more makes a finite set larger by no more than one.
LEMMA OneMore ==
  ASSUME NEW S, NEW x, NEW k \in Nat, IsFiniteSet(S), Cardinality(S) <= k
  PROVE  /\ IsFiniteSet(S \cup {x}) /\ Cardinality(S \cup {x}) \in Nat
         /\ Cardinality(S \cup {x}) <= k + 1
<1>1. Cardinality(S) \in Nat
  BY FS_CardinalityType
<1>2. IsFiniteSet(S \cup {x}) /\ Cardinality(S \cup {x}) \in {Cardinality(S), Cardinality(S) + 1}
  BY FS_AddElement
<1> QED
  BY <1>1, <1>2

\* There are at most three more of them than threads.
LEMMA FewInUse ==
  ASSUME NumbersOK, OrderInv
  PROVE  /\ IsFiniteSet(InUse) /\ Cardinality(InUse) \in Nat
         /\ Cardinality(Threads) \in Nat /\ Cardinality(InUse) <= Cardinality(Threads) + 3
<1> DEFINE M == {my[t] : t \in Threads}
<1>1. IsFiniteSet(Threads) /\ Cardinality(Threads) \in Nat
  <2>1. Threads = Extra \cup {Main}
    BY DEF Threads
  <2> QED
    BY <2>1, FS_AddElement, FS_CardinalityType
<1>2. IsFiniteSet(M) /\ Cardinality(M) \in Nat /\ Cardinality(M) <= Cardinality(Threads)
  <2>1. my \in Surjection(Threads, M)
    BY DEF NumbersOK, Surjection
  <2> QED
    BY <1>1, <2>1, FS_Surjection, FS_CardinalityType
<1> HIDE DEF M
<1>3. /\ IsFiniteSet(M \cup {lastPut})
      /\ Cardinality(M \cup {lastPut}) <= Cardinality(Threads) + 1
  BY <1>1, <1>2, OneMore
<1>4. /\ IsFiniteSet((M \cup {lastPut}) \cup {taken})
      /\ Cardinality((M \cup {lastPut}) \cup {taken}) <= (Cardinality(Threads) + 1) + 1
  <2>1. Cardinality(Threads) + 1 \in Nat
    BY <1>1
  <2> QED
    BY <1>3, <2>1, OneMore
<1>5. /\ IsFiniteSet(((M \cup {lastPut}) \cup {taken}) \cup {0})
      /\ Cardinality(((M \cup {lastPut}) \cup {taken}) \cup {0}) \in Nat
      /\ Cardinality(((M \cup {lastPut}) \cup {taken}) \cup {0})
           <= ((Cardinality(Threads) + 1) + 1) + 1
  <2>1. (Cardinality(Threads) + 1) + 1 \in Nat
    BY <1>1
  <2> QED
    BY <1>4, <2>1, OneMore
<1>6. InUse = ((M \cup {lastPut}) \cup {taken}) \cup {0}
  BY InUseIsUsed DEF Used, M
<1> QED
  BY <1>1, <1>5, <1>6

\* Ranks keep the order of the numbers and are below the count of them.
LEMMA Ranks ==
  ASSUME NumbersOK, OrderInv
  PROVE  /\ \A n \in InUse : Rank(n) \in Nat /\ Rank(n) < Cardinality(InUse)
         /\ \A m, n \in InUse : m < n => Rank(m) < Rank(n)
         /\ Rank(0) = 0
<1> DEFINE Below(n) == {m \in InUse : m < n}
<1>1. InUse \subseteq Nat /\ 0 \in InUse
  BY InUseIsUsed DEF InUse
<1>2. IsFiniteSet(InUse) /\ Cardinality(InUse) \in Nat
  BY FewInUse
<1>3. \A n \in InUse : IsFiniteSet(Below(n)) /\ Cardinality(Below(n)) \in Nat
  <2> TAKE n \in InUse
  <2>1. Below(n) \in SUBSET InUse
    OBVIOUS
  <2> QED
    BY <1>2, <2>1, FS_Subset, FS_CardinalityType
<1>4. \A n \in InUse : Cardinality(Below(n)) < Cardinality(InUse)
  <2> TAKE n \in InUse
  <2>1. Below(n) \in SUBSET InUse /\ n \notin Below(n)
    <3>1. ~(n < n)
      BY <1>1
    <3> QED
      BY <3>1
  <2> HIDE DEF Below
  <2>2. Cardinality(Below(n)) <= Cardinality(InUse) /\ Cardinality(Below(n)) # Cardinality(InUse)
    BY <1>2, <2>1, FS_Subset
  <2> QED
    BY <1>2, <1>3, <2>2
<1>5. \A m, n \in InUse : m < n => Cardinality(Below(m)) < Cardinality(Below(n))
  <2> SUFFICES ASSUME NEW m \in InUse, NEW n \in InUse, m < n
               PROVE  Cardinality(Below(m)) < Cardinality(Below(n))
    OBVIOUS
  <2>1. Below(m) \in SUBSET Below(n) /\ m \notin Below(m) /\ m \in Below(n)
    <3>1. ~(m < m) /\ \A k \in InUse : k < m => k < n
      BY <1>1
    <3> QED
      BY <3>1
  <2> HIDE DEF Below
  <2>2. Cardinality(Below(m)) <= Cardinality(Below(n)) /\ Cardinality(Below(m)) # Cardinality(Below(n))
    BY <1>3, <2>1, FS_Subset
  <2> QED
    BY <1>3, <2>2
<1>6. Cardinality(Below(0)) = 0
  <2>1. Below(0) = {}
    <3>1. \A k \in InUse : ~(k < 0)
      BY <1>1
    <3> QED
      BY <3>1, Zenon
  <2> QED
    BY <2>1, FS_EmptySet
<1>7. \A n : Rank(n) = Cardinality(Below(n))
  BY DEF Rank
<1> HIDE DEF Below
<1> QED
  BY <1>3, <1>4, <1>5, <1>6, <1>7

\* Renumbering keeps the queue a queue.
LEMMA Renumbered ==
  ASSUME NumbersOK, OrderInv,
         NEW q, q = [i \in DOMAIN queue |-> [queue[i] EXCEPT !.num = Rank(@)]]
  PROVE  /\ q = <<>> \/ \E n \in Nat, s \in Sizes \cup {0} : q = <<[num |-> n, size |-> s]>>
         /\ q = <<>> <=> queue = <<>>
         /\ queue # <<>> => q[1].num = Rank(lastPut)
<1>1. CASE queue = <<>>
  <2>1. q = <<>>
    BY <1>1
  <2> QED
    BY <1>1, <2>1
<1>2. CASE queue # <<>>
  <2>1. PICK n \in Nat, s \in Sizes \cup {0} : queue = <<[num |-> n, size |-> s]>>
    BY <1>2 DEF NumbersOK
  <2>2. n = lastPut
    BY <1>2, <2>1 DEF OrderInv
  <2>3. Rank(lastPut) \in Nat
    BY Ranks DEF InUse
  <2>4. q = [i \in {1} |-> [num |-> Rank(n), size |-> s]]
    BY <2>1
  <2>5. q = <<[num |-> Rank(n), size |-> s]>>
    BY <2>4
  <2>6. q # <<>> /\ q[1].num = Rank(lastPut)
    <3>1. q[1] = [num |-> Rank(n), size |-> s] /\ Len(q) = 1
      BY <2>5
    <3>2. q[1].num = Rank(lastPut)
      BY <2>2, <3>1
    <3> QED
      BY <3>1, <3>2
  <2>7. \E m \in Nat, z \in Sizes \cup {0} : q = <<[num |-> m, size |-> z]>>
    BY <2>2, <2>3, <2>5
  <2> QED
    BY <1>2, <2>6, <2>7
<1> QED
  BY <1>1, <1>2

\* Fewer numbers in use, or others that were in use, are dense as well.
LEMMA StaysDense == DenseInv /\ InUse' \subseteq InUse => DenseInv'
BY DEF DenseInv, Threads

\* A part of the invariant stays as long as what it speaks of does.
LEMMA Untouched ==
  /\ PanelOK /\ UNCHANGED <<panel, stop>> => PanelOK'
  /\ CaptureOK /\ UNCHANGED <<cpc, csize>> => CaptureOK'
  /\ ProcessOK /\ UNCHANGED <<ppc, applied, wanted>> => ProcessOK'
  /\ NumbersOK /\ UNCHANGED <<my, lastPut, taken, queue>> => NumbersOK'
  /\ DenseInv /\ UNCHANGED <<my, lastPut, taken, queue>> => DenseInv'
  /\ OrderInv /\ UNCHANGED <<cpc, my, lastPut, taken, queue>> => OrderInv'
  /\ WorkerInv /\ UNCHANGED <<worker, limit, gpc, ppc, frame, applied, raced>> => WorkerInv'
  /\ RestartInv /\ UNCHANGED <<gpc, ppc, cpc>> => RestartInv'
<1>1. PanelOK /\ UNCHANGED <<panel, stop>> => PanelOK'
  BY DEF PanelOK, panel, Sizes
<1>2. CaptureOK /\ UNCHANGED <<cpc, csize>> => CaptureOK'
  BY DEF CaptureOK, Threads, Sizes
<1>3. ProcessOK /\ UNCHANGED <<ppc, applied, wanted>> => ProcessOK'
  BY DEF ProcessOK, Sizes
<1>4. NumbersOK /\ UNCHANGED <<my, lastPut, taken, queue>> => NumbersOK'
  BY DEF NumbersOK, Threads, Sizes
<1>5. DenseInv /\ UNCHANGED <<my, lastPut, taken, queue>> => DenseInv'
  BY DEF DenseInv, InUse, Threads
<1>6. OrderInv /\ UNCHANGED <<cpc, my, lastPut, taken, queue>> => OrderInv'
  BY DEF OrderInv, Threads
<1>7. WorkerInv /\ UNCHANGED <<worker, limit, gpc, ppc, frame, applied, raced>> => WorkerInv'
  <2> SUFFICES ASSUME WorkerInv, UNCHANGED <<worker, limit, gpc, ppc, frame, applied, raced>>
               PROVE  WorkerInv'
    OBVIOUS
  <2>1. worker' = worker /\ limit' = limit /\ gpc' = gpc /\ ppc' = ppc /\ frame' = frame /\ applied' = applied
    OBVIOUS
  <2>2. raced' = raced
    OBVIOUS
  <2> QED
    <3>1. /\ worker' \in {0, 1, Ceiling} /\ limit' \in {0, 1, Ceiling}
          /\ gpc' \in {"idle", "join capture", "join process", "check", "new", "quit"}
          /\ ppc' = "process" => frame' = applied'
      BY <2>1 DEF WorkerInv
    <3>2. ~raced /\ gpc # "quit" /\ ppc \notin {"start", "ended"} => applied = worker
      BY DEF WorkerInv
    <3>3. ~raced' /\ gpc' # "quit" /\ ppc' \notin {"start", "ended"} => applied' = worker'
      <4> SUFFICES ASSUME ~raced', gpc' # "quit", ppc' \notin {"start", "ended"}
                   PROVE  applied' = worker'
        OBVIOUS
      <4>1. ~raced
        BY <2>2
      <4> QED
        BY <2>1, <3>2, <4>1
    <3> QED
      BY <3>1, <3>3, Zenon DEF WorkerInv
<1>8. RestartInv /\ UNCHANGED <<gpc, ppc, cpc>> => RestartInv'
  BY DEF RestartInv
<1> QED
  BY <1>1, <1>2, <1>3, <1>4, <1>5, <1>6, <1>7, <1>8

LEMMA InitInvariant == Init => IInv
<1> SUFFICES ASSUME Init PROVE IInv
  OBVIOUS
<1> USE DEF Init
<1>1. PanelOK
  <2>1. resolution \in Sizes /\ native \in Sizes
    BY DEF Sizes
  <2>2. settled \in BOOLEAN /\ active \in BOOLEAN /\ stop \in BOOLEAN
    BY Zenon
  <2> QED
    BY <2>1, <2>2 DEF PanelOK
<1>2. CaptureOK /\ ProcessOK
  BY DEF CaptureOK, ProcessOK, Sizes
<1>3. NumbersOK /\ OrderInv
  BY DEF NumbersOK, OrderInv
<1>4. WorkerInv /\ RestartInv
  BY DEF WorkerInv, RestartInv
<1>5. DenseInv
  <2>1. InUse = {0}
    <3>1. Used = {0}
      BY DEF Used
    <3> QED
      BY <1>3, <3>1, InUseIsUsed
  <2>2. Cardinality(Threads) \in Nat
    BY <1>3, FewInUse
  <2> QED
    BY <2>1, <2>2 DEF DenseInv
<1> QED
  BY <1>1, <1>2, <1>3, <1>4, <1>5 DEF IInv

----------------------------------------------------------------------------
(* The GTK thread's steps                                                   *)

LEMMA GtkStep == IInv /\ (Gtk \/ Settle) => IInv'
<1> SUFFICES ASSUME IInv, Gtk \/ Settle PROVE IInv'
  OBVIOUS
<1>n. UNCHANGED <<csize, my, lastPut, taken, queue, applied, wanted, frame, raced>>
  BY DEF Gtk, Settle, ChangeResolution, WindowResized, ToggleActive, Shutdown, Restart, JoinCapture,
         JoinProcess, GiveUp, CloseOld, StartNew, NewFails, capture, process
<1> USE DEF IInv
<1>d. NumbersOK' /\ DenseInv'
  BY <1>n, Untouched
<1>1. CASE ChangeResolution \/ WindowResized \/ ToggleActive \/ Settle
  <2>u. UNCHANGED <<stop, cpc, ppc, worker, limit, gpc>>
    BY <1>1 DEF ChangeResolution, WindowResized, ToggleActive, Settle, capture, process
  <2>1. resolution' \in Sizes /\ native' \in Sizes
    <3>1. CASE ChangeResolution
      BY <3>1 DEF ChangeResolution, SetResolution, PanelOK, Sizes, Larger
    <3>2. CASE WindowResized
      BY <3>2 DEF WindowResized, SetResolution, PanelOK, Sizes, Larger
    <3>3. CASE ToggleActive \/ Settle
      BY <3>3 DEF ToggleActive, Settle, PanelOK, panel
    <3> QED
      BY <1>1, <3>1, <3>2, <3>3
  <2>2. settled' \in BOOLEAN /\ active' \in BOOLEAN
    <3>1. CASE ChangeResolution
      <4>1. PICK size \in {1, native, Larger} : SetResolution(size)
        BY <3>1 DEF ChangeResolution
      <4>2. settled' \in BOOLEAN
        BY <4>1, Zenon DEF SetResolution, PanelOK
      <4> QED
        BY <3>1, <4>2, Zenon DEF ChangeResolution, PanelOK
    <3>2. CASE WindowResized
      <4>1. settled' \in BOOLEAN
        BY <3>2, Zenon DEF WindowResized, SetResolution, PanelOK
      <4> QED
        BY <3>2, <4>1, Zenon DEF WindowResized, PanelOK
    <3>3. CASE ToggleActive
      BY <3>3, Zenon DEF ToggleActive, PanelOK
    <3>4. CASE Settle
      BY <3>4, Zenon DEF Settle, PanelOK
    <3> QED
      BY <1>1, <3>1, <3>2, <3>3, <3>4
  <2>3. PanelOK'
    BY <2>1, <2>2, <2>u, Zenon DEF PanelOK, Sizes
  <2> QED
    BY <1>n, <1>d, <2>u, <2>3, Untouched
<1>2. CASE Restart \/ JoinCapture \/ JoinProcess \/ GiveUp \/ NewFails \/ Shutdown
  <2>u. UNCHANGED <<panel, cpc, ppc>>
    BY <1>2 DEF Restart, JoinCapture, JoinProcess, GiveUp, NewFails, Shutdown, capture, process
  <2>s. stop' \in BOOLEAN
    BY <1>2, Zenon DEF Restart, JoinCapture, JoinProcess, GiveUp, NewFails, Shutdown, PanelOK
  <2>w. \/ worker' = worker /\ limit' = limit /\ gpc # "quit" /\ gpc' \in {"idle", "join capture", "join process", "check"}
        \/ worker' = 0 /\ limit' = 0 /\ gpc' = "quit"
    BY <1>2 DEF Restart, JoinCapture, JoinProcess, GiveUp, NewFails, Shutdown
  <2>1. PanelOK'
    BY <2>u, <2>s DEF PanelOK, panel, Sizes
  <2>2. WorkerInv'
    BY <1>n, <2>u, <2>w DEF WorkerInv
  <2>3. RestartInv'
    BY <2>w DEF RestartInv
  <2> QED
    BY <1>n, <1>d, <2>u, <2>1, <2>2, <2>3, Untouched
<1>3. CASE CloseOld
  <2>u. /\ UNCHANGED <<panel, cpc, ppc>> /\ worker' = 0 /\ limit' = 0 /\ gpc' = "new"
        /\ ppc = "ended" /\ cpc[Main] = "ended"
    BY <1>3 DEF CloseOld, capture, process
  <2>s. stop' \in BOOLEAN
    BY <1>3, Zenon DEF CloseOld
  <2>1. PanelOK'
    BY <2>u, <2>s DEF PanelOK, panel, Sizes
  <2>2. WorkerInv'
    BY <1>n, <2>u DEF WorkerInv
  <2>3. RestartInv'
    BY <2>u DEF RestartInv
  <2> QED
    BY <1>n, <1>d, <2>u, <2>1, <2>2, <2>3, Untouched
<1>4. CASE StartNew
  <2>u. /\ UNCHANGED <<panel, stop>> /\ ppc' = "start" /\ gpc' = "idle" /\ worker' = resolution
        /\ limit' = resolution /\ resolution <= Ceiling /\ cpc' = [cpc EXCEPT ![Main] = "head"]
    BY <1>4 DEF StartNew
  <2>e. cpc[Main] = "ended"
    BY <1>4 DEF StartNew, RestartInv
  <2>1. CaptureOK'
    BY <1>n, <2>u DEF CaptureOK, Sizes, Threads
  <2>2. ProcessOK'
    BY <1>n, <2>u DEF ProcessOK, Sizes
  <2>r. resolution \in {1, Ceiling}
    BY <2>u DEF PanelOK, Sizes, Larger
  <2>3. WorkerInv' /\ RestartInv'
    BY <1>n, <2>u, <2>r DEF WorkerInv, RestartInv
  <2>4. OrderInv'
    BY <1>n, <2>u, <2>e DEF OrderInv, CaptureOK, Threads
  <2> QED
    BY <1>n, <1>d, <2>u, <2>1, <2>2, <2>3, <2>4, Untouched
<1> QED
  BY <1>1, <1>2, <1>3, <1>4 DEF Gtk

----------------------------------------------------------------------------
(* The capture threads' steps                                               *)

LEMMA CaptureStep ==
  ASSUME IInv, NEW t \in Threads, Capture(t) \/ CaptureFails(t)
  PROVE  IInv'
<1>n. /\ UNCHANGED <<panel, stop, ppc, applied, wanted, frame, worker, limit, gpc, raced>>
      /\ UNCHANGED Threads /\ UNCHANGED Sizes
  BY DEF Capture, CaptureFails, LookForStop, DrawNumber, Deliver, process, Threads, Sizes
<1>t. /\ my \in [Threads -> Nat] /\ lastPut \in Nat /\ taken \in Nat
      /\ cpc \in [Threads -> {"head", "number", "capture", "ended"}]
      /\ csize \in [Threads -> Sizes \cup {0}]
  BY DEF IInv, NumbersOK, CaptureOK
<1>m. Main \in Threads
  BY DEF Threads
<1> USE DEF IInv
<1>o. PanelOK' /\ ProcessOK' /\ WorkerInv'
  BY <1>n, Untouched
<1>1. CASE LookForStop(t)
  <2>u. UNCHANGED <<my, lastPut, queue, taken>> /\ cpc[t] = "head"
    BY <1>1 DEF LookForStop
  <2>c. /\ cpc' \in {[cpc EXCEPT ![t] = "ended"], [cpc EXCEPT ![t] = "number"]}
        /\ csize' \in {csize, [csize EXCEPT ![t] = resolution]}
    BY <1>1, Zenon DEF LookForStop, WorkSize
  <2>1. CaptureOK'
    BY <1>n, <1>t, <2>c DEF CaptureOK, PanelOK
  <2>2. OrderInv'
    BY <1>n, <1>t, <2>u, <2>c DEF OrderInv
  <2>3. RestartInv'
    <3>1. cpc[Main] = "ended" => cpc'[Main] = "ended"
      BY <1>t, <1>m, <2>u, <2>c
    <3> QED
      BY <1>n, <3>1 DEF RestartInv
  <2> QED
    BY <1>o, <2>u, <2>1, <2>2, <2>3, Untouched
<1>2. CASE DrawNumber(t)
  <2>u. /\ UNCHANGED csize /\ cpc[t] = "number" /\ cpc' = [cpc EXCEPT ![t] = "capture"]
        /\ lastPut' = Rank(lastPut) /\ taken' = Rank(taken)
    BY <1>2 DEF DrawNumber
  <2>m. my' = [s \in Threads |-> IF s = t THEN Cardinality(InUse) ELSE Rank(my[s])]
    BY <1>2 DEF DrawNumber
  <2>q. /\ queue' = <<>> \/ \E n \in Nat, s \in Sizes \cup {0} : queue' = <<[num |-> n,
                                                                            size |-> s]>>
        /\ queue' = <<>> <=> queue = <<>>
        /\ queue # <<>> => queue'[1].num = lastPut'
    BY <1>2, <2>u, Renumbered DEF DrawNumber
  <2>i. lastPut \in InUse /\ taken \in InUse /\ 0 \in InUse /\ \A s \in Threads : my[s] \in InUse
    BY DEF InUse
  <2>r. /\ \A n \in InUse : Rank(n) \in Nat /\ Rank(n) < Cardinality(InUse)
        /\ \A m, n \in InUse : m < n => Rank(m) < Rank(n)
        /\ Rank(0) = 0
    BY Ranks
  <2>f. /\ Cardinality(InUse) \in Nat /\ Cardinality(Threads) \in Nat
        /\ Cardinality(InUse) <= Cardinality(Threads) + 3
    BY FewInUse
  <2>n. InUse \subseteq Nat
    BY InUseIsUsed
  <2> HIDE DEF IInv
  <2>e. \A m, n \in InUse : m # n => Rank(m) # Rank(n)
    <3> SUFFICES ASSUME NEW m \in InUse, NEW n \in InUse, m # n PROVE Rank(m) # Rank(n)
      OBVIOUS
    <3>1. m < n \/ n < m
      BY <2>n
    <3> QED
      BY <2>r, <3>1
  <2>a. my'[t] = Cardinality(InUse) /\ \A s \in Threads \ {t} : my'[s] = Rank(my[s])
    BY <2>m
  <2>1. CaptureOK'
    BY <1>n, <1>t, <2>u DEF CaptureOK
  <2>2. NumbersOK'
    <3>1. my' \in [Threads -> Nat] /\ lastPut' \in Nat /\ taken' \in Nat
      BY <2>u, <2>m, <2>i, <2>r, <2>f
    <3> QED
      BY <1>n, <2>q, <3>1 DEF NumbersOK
  <2>3. OrderInv'
    <3>1. taken' <= lastPut'
      <4>1. taken = lastPut \/ taken < lastPut
        BY <1>t DEF IInv, OrderInv
      <4> QED
        BY <2>u, <2>i, <2>r, <4>1
    <3>2. queue' # <<>> => queue'[1].num = lastPut' /\ taken' < lastPut'
      <4>1. queue # <<>> => taken < lastPut
        BY DEF IInv, OrderInv
      <4> QED
        BY <2>u, <2>q, <2>i, <2>r, <4>1
    <3>3. ASSUME NEW s \in Threads, cpc'[s] # "capture" PROVE my'[s] = 0
      <4>1. s # t /\ my[s] = 0
        BY <1>t, <2>u, <3>3 DEF IInv, OrderInv
      <4> QED
        BY <2>a, <2>r, <4>1
    <3>4. ASSUME NEW s \in Threads, cpc'[s] = "capture"
          PROVE  my'[s] > 0 /\ my'[s] # lastPut' /\ \A z \in Threads \ {s} : my'[z] # my'[s]
      <4>1. CASE s = t
        <5>1. my'[s] > 0 /\ my'[s] # lastPut'
          BY <2>u, <2>a, <2>i, <2>r, <2>f, <4>1
        <5>2. ASSUME NEW z \in Threads \ {s} PROVE my'[z] # my'[s]
          BY <2>a, <2>i, <2>r, <2>f, <4>1
        <5> QED
          BY <5>1, <5>2
      <4>2. CASE s # t
        <5>1. my[s] > 0 /\ my[s] # lastPut /\ \A z \in Threads \ {s} : my[z] # my[s]
          BY <1>t, <2>u, <3>4, <4>2 DEF IInv, OrderInv
        <5>2. my'[s] = Rank(my[s]) /\ my[s] \in InUse /\ Rank(my[s]) \in Nat
          BY <2>a, <2>i, <2>r, <4>2
        <5>3. my'[s] > 0 /\ my'[s] # lastPut'
          BY <1>t, <2>u, <2>i, <2>r, <2>e, <5>1, <5>2
        <5>4. ASSUME NEW z \in Threads \ {s} PROVE my'[z] # my'[s]
          <6>1. CASE z = t
            BY <2>a, <2>r, <2>f, <5>2, <6>1
          <6>2. CASE z # t
            BY <2>a, <2>i, <2>e, <5>1, <5>2, <6>2
          <6> QED
            BY <6>1, <6>2
        <5> QED
          BY <5>3, <5>4
      <4> QED
        BY <4>1, <4>2
    <3> QED
      BY <1>n, <3>1, <3>2, <3>3, <3>4 DEF OrderInv
  <2>4. DenseInv'
    <3>0. (NumbersOK /\ OrderInv => InUse = Used /\ InUse \subseteq Nat)'
      BY InUseIsUsed, PTL
    <3>1. InUse' = Used'
      BY <2>2, <2>3, <3>0, Zenon
    <3>2. ASSUME NEW n \in Used' PROVE n \in 0..Cardinality(Threads) + 3
      <4>1. \/ n = Cardinality(InUse) \/ n = 0
            \/ \E m \in InUse : n = Rank(m)
        BY <1>n, <2>u, <2>a, <2>i DEF Used
      <4> QED
        BY <2>r, <2>f, <4>1
    <3> QED
      BY <1>n, <3>1, <3>2 DEF DenseInv
  <2>5. RestartInv'
    <3>1. cpc[Main] = "ended" => cpc'[Main] = "ended"
      BY <1>t, <1>m, <2>u
    <3> QED
      BY <1>n, <3>1 DEF RestartInv, IInv
  <2> QED
    BY <1>o, <2>1, <2>2, <2>3, <2>4, <2>5 DEF IInv
<1>3. CASE Deliver(t) \/ CaptureFails(t)
  <2>u. /\ UNCHANGED taken /\ cpc[t] = "capture" /\ cpc' = [cpc EXCEPT ![t] = "head"]
        /\ my' = [my EXCEPT ![t] = 0] /\ csize' = [csize EXCEPT ![t] = 0]
    BY <1>3 DEF Deliver, CaptureFails
  <2>q. \/ UNCHANGED <<lastPut, queue>>
        \/ /\ ~(my[t] < lastPut)
           /\ lastPut' = my[t] /\ queue' = <<[num |-> my[t], size |-> csize[t]]>>
    BY <1>3 DEF Deliver, CaptureFails, TooLate
  <2>1. CaptureOK'
    BY <1>n, <1>t, <2>u DEF CaptureOK
  <2>c. \A s \in Threads \ {t} : my'[s] = my[s] /\ cpc'[s] = cpc[s]
    BY <1>t, <2>u
  <2>d. my'[t] = 0 /\ cpc'[t] = "head"
    BY <1>t, <2>u
  <2>o. /\ my[t] > 0 /\ my[t] # lastPut /\ taken <= lastPut
        /\ \A s \in Threads \ {t} : my[s] # my[t]
    BY <2>u DEF OrderInv
  <2>2. NumbersOK'
    <3>1. my' \in [Threads -> Nat] /\ my[t] \in Nat /\ csize[t] \in Sizes \cup {0}
      BY <1>t, <2>u
    <3>2. CASE UNCHANGED <<lastPut, queue>>
      BY <1>n, <2>u, <3>1, <3>2 DEF NumbersOK
    <3>3. CASE lastPut' = my[t] /\ queue' = <<[num |-> my[t], size |-> csize[t]]>>
      <4>1. \E n \in Nat, s \in Sizes \cup {0} : queue' = <<[num |-> n, size |-> s]>>
        BY <3>1, <3>3
      <4> QED
        BY <1>n, <1>t, <2>u, <3>1, <3>3, <4>1 DEF NumbersOK
    <3> QED
      BY <2>q, <3>2, <3>3
  <2>3. OrderInv'
    <3>1. \A s \in Threads :
            /\ cpc'[s] # "capture" => my'[s] = 0
            /\ cpc'[s] = "capture" =>
                 my'[s] > 0 /\ my'[s] # lastPut' /\ \A z \in Threads \ {s} : my'[z] # my'[s]
      <4> SUFFICES ASSUME NEW s \in Threads
                   PROVE  /\ cpc'[s] # "capture" => my'[s] = 0
                          /\ cpc'[s] = "capture" =>
                               /\ my'[s] > 0 /\ my'[s] # lastPut'
                               /\ \A z \in Threads \ {s} : my'[z] # my'[s]
        OBVIOUS
      <4>1. CASE s = t
        BY <2>d, <4>1
      <4>2. CASE s # t
        <5>1. my'[s] = my[s] /\ cpc'[s] = cpc[s] /\ my[s] # my[t]
          BY <2>c, <2>o, <4>2
        <5>2. /\ cpc[s] # "capture" => my[s] = 0
              /\ cpc[s] = "capture" =>
                   my[s] > 0 /\ my[s] # lastPut /\ \A z \in Threads \ {s} : my[z] # my[s]
          BY DEF OrderInv
        <5> QED
          BY <1>t, <2>c, <2>d, <2>q, <5>1, <5>2
      <4> QED
        BY <4>1, <4>2
    <3>2. CASE UNCHANGED <<lastPut, queue>>
      BY <1>n, <2>u, <3>1, <3>2 DEF OrderInv
    <3>3. CASE ~(my[t] < lastPut) /\ lastPut' = my[t] /\ queue' = <<[num |-> my[t],
                                                                    size |-> csize[t]]>>
      <4>1. taken' < lastPut' /\ queue'[1].num = lastPut'
        BY <1>t, <2>u, <2>o, <3>3
      <4> QED
        BY <1>n, <1>t, <2>u, <3>1, <3>3, <4>1 DEF OrderInv
    <3> QED
      BY <2>q, <3>2, <3>3
  <2>4. DenseInv'
    <3>0. (NumbersOK /\ OrderInv => InUse = Used /\ InUse \subseteq Nat)'
      BY InUseIsUsed, PTL
    <3>1. InUse' = Used' /\ InUse = Used
      BY <2>2, <2>3, <3>0, InUseIsUsed, Zenon
    <3>2. Used' \subseteq Used
      BY <1>n, <2>u, <2>c, <2>d, <2>q DEF Used
    <3> QED
      BY <3>1, <3>2, StaysDense
  <2>5. RestartInv'
    <3>1. cpc[Main] = "ended" => cpc'[Main] = "ended"
      BY <1>t, <1>m, <2>u
    <3> QED
      BY <1>n, <3>1 DEF RestartInv
  <2> QED
    BY <1>o, <2>1, <2>2, <2>3, <2>4, <2>5
<1> QED
  BY <1>1, <1>2, <1>3 DEF Capture

----------------------------------------------------------------------------
(* The process thread's steps                                               *)

LEMMA ProcessStep == IInv /\ Process => IInv'
<1> SUFFICES ASSUME IInv, Process PROVE IInv'
  OBVIOUS
<1>n. UNCHANGED <<panel, stop, cpc, csize, my, lastPut, limit, gpc>>
  BY DEF Process, Begin, Snapshot, Reconfigure, GetFrame, Processed, ProcessFails, capture
<1>s. UNCHANGED Sizes
  BY DEF Sizes
<1>r. ppc # "ended"
  BY DEF Process, Begin, Snapshot, Reconfigure, GetFrame, Processed, ProcessFails
<1> USE DEF IInv
<1>o. PanelOK' /\ CaptureOK'
  BY <1>n, Untouched
<1>h. RestartInv'
  BY <1>n, <1>r DEF RestartInv
<1>1. CASE Begin
  <2>u. /\ UNCHANGED <<queue, wanted, frame, worker, taken>>
        /\ ppc = "start" /\ ppc' = "head" /\ applied' = resolution
    BY <1>1 DEF Begin
  <2>r. ~raced' => resolution = worker
    BY <1>1, Zenon DEF Begin
  <2>1. ProcessOK'
    BY <1>s, <2>u DEF ProcessOK, PanelOK
  <2>2. WorkerInv'
    BY <1>n, <2>u, <2>r DEF WorkerInv
  <2> QED
    BY <1>n, <1>o, <1>h, <2>u, <2>1, <2>2, Untouched
<1>2. CASE Snapshot
  <2>u. /\ UNCHANGED <<queue, frame, worker, taken, raced>> /\ ppc = "head"
        /\ \/ ppc' = "ended" /\ applied' = 0 /\ wanted' = wanted
           \/ ppc' = "get" /\ UNCHANGED <<applied, wanted>>
           \/ ppc' = "reconfigure" /\ wanted' = resolution /\ applied' = applied
    BY <1>2 DEF Snapshot
  <2>1. ProcessOK'
    BY <1>s, <2>u DEF ProcessOK, PanelOK
  <2>2. WorkerInv'
    BY <1>n, <2>u DEF WorkerInv
  <2> QED
    BY <1>n, <1>o, <1>h, <2>u, <2>1, <2>2, Untouched
<1>3. CASE Reconfigure
  <2>u. /\ UNCHANGED <<queue, frame, taken, raced>>
        /\ ppc = "reconfigure" /\ ppc' = "get" /\ wanted' = 0
        /\ \/ wanted <= limit /\ worker' = wanted /\ applied' = wanted
           \/ UNCHANGED <<worker, applied>>
    BY <1>3 DEF Reconfigure, WithinCeiling
  <2>w. wanted \in Sizes
    BY <2>u DEF ProcessOK
  <2>c. wanted <= limit => wanted \in {1, Ceiling}
    <3>1. limit \in {0, 1, Ceiling}
      BY DEF WorkerInv
    <3>2. wanted \in {1, Ceiling, Ceiling + 1}
      BY <2>w DEF Sizes, Larger
    <3> QED
      BY <3>1, <3>2
  <2>1. ProcessOK'
    BY <1>s, <2>u, <2>w DEF ProcessOK
  <2>2. WorkerInv'
    BY <1>n, <2>u, <2>c DEF WorkerInv
  <2> QED
    BY <1>n, <1>o, <1>h, <2>u, <2>1, <2>2, Untouched
<1>4. CASE GetFrame
  <2>u. UNCHANGED <<applied, wanted, worker, raced>> /\ ppc = "get"
    BY <1>4 DEF GetFrame
  <2>f. \/ ppc' = "head" /\ UNCHANGED <<queue, taken>>
        \/ /\ queue # <<>> /\ queue' = <<>> /\ taken' = queue[1].num
           /\ ppc' = "head" \/ (ppc' = "process" /\ frame' = applied)
    BY <1>4 DEF GetFrame, Fits
  <2>1. ProcessOK'
    BY <1>s, <2>u, <2>f DEF ProcessOK
  <2>2. WorkerInv'
    BY <1>n, <2>u, <2>f DEF WorkerInv
  <2>3. CASE UNCHANGED <<queue, taken>>
    BY <1>n, <1>o, <1>h, <2>1, <2>2, <2>3, Untouched
  <2>4. CASE queue # <<>> /\ queue' = <<>> /\ taken' = queue[1].num
    <3>1. taken' = lastPut /\ lastPut \in Nat
      BY <2>4 DEF OrderInv, NumbersOK
    <3>2. NumbersOK'
      BY <1>n, <2>4, <3>1 DEF NumbersOK, Threads
    <3>3. OrderInv'
      <4> HIDE DEF IInv
      <4>1. \A t \in Threads :
              /\ cpc[t] # "capture" => my[t] = 0
              /\ cpc[t] = "capture" =>
                   my[t] > 0 /\ my[t] # lastPut /\ \A s \in Threads \ {t} : my[s] # my[t]
        BY DEF IInv, OrderInv
      <4>2. taken' <= lastPut'
        BY <1>n, <3>1
      <4> QED
        BY <1>n, <2>4, <4>1, <4>2 DEF OrderInv, Threads
    <3>4. DenseInv'
      <4>0. (NumbersOK /\ OrderInv => InUse = Used /\ InUse \subseteq Nat)'
        BY InUseIsUsed, PTL
      <4>1. InUse' = Used' /\ InUse = Used
        BY <3>2, <3>3, <4>0, InUseIsUsed, Zenon
      <4>2. Used' \subseteq Used
        BY <1>n, <3>1 DEF Used, Threads
      <4> QED
        BY <4>1, <4>2, StaysDense
    <3> QED
      BY <1>o, <1>h, <2>1, <2>2, <3>2, <3>3, <3>4
  <2> QED
    BY <2>f, <2>3, <2>4
<1>5. CASE Processed \/ ProcessFails
  <2>u. /\ UNCHANGED <<queue, wanted, worker, taken, raced>>
        /\ ppc = "process"
        /\ \/ ppc' = "head" /\ applied' = applied
           \/ ppc' = "ended" /\ applied' = 0
    BY <1>5 DEF Processed, ProcessFails
  <2>1. ProcessOK'
    BY <1>s, <2>u DEF ProcessOK
  <2>2. WorkerInv'
    BY <1>n, <2>u DEF WorkerInv
  <2> QED
    BY <1>n, <1>o, <1>h, <2>u, <2>1, <2>2, Untouched
<1> QED
  BY <1>1, <1>2, <1>3, <1>4, <1>5 DEF Process

----------------------------------------------------------------------------
(* Theorems                                                                 *)

LEMMA Inductive == IInv /\ [Next]_vars => IInv'
<1> SUFFICES ASSUME IInv, [Next]_vars PROVE IInv'
  OBVIOUS
<1>1. CASE UNCHANGED vars
  BY <1>1, Untouched DEF IInv, vars, panel, capture, process
<1>2. CASE \E t \in Threads : Capture(t) \/ CaptureFails(t)
  BY <1>2, CaptureStep
<1> QED
  BY <1>1, <1>2, GtkStep, ProcessStep DEF Next

LEMMA Invariant == Spec => []IInv
BY InitInvariant, Inductive, PTL DEF Spec

\* Every variable of the threads keeps its type, and the numbers stay dense: which is what
\* lets TLC see all of them.
THEOREM TypeCorrect == Spec => []TypeOK
<1>1. IInv => TypeOK
  <2> SUFFICES ASSUME IInv PROVE TypeOK
    OBVIOUS
  <2>1. Len(queue) <= 1
    <3>1. CASE queue = <<>>
      BY <3>1
    <3>2. CASE \E n \in Nat, s \in Sizes \cup {0} : queue = <<[num |-> n, size |-> s]>>
      BY <3>2
    <3> QED
      BY <3>1, <3>2 DEF IInv, NumbersOK
  <2> QED
    BY <2>1 DEF IInv, TypeOK, PanelOK, CaptureOK, ProcessOK, DenseInv, WorkerInv
<1> QED
  BY <1>1, Invariant, PTL

\* What the worker is given is newer than what it was given before, however many captures
\* run side by side and over restarts (live_filter.py:869), and has the worker's size
\* (live_filter.py:941-955), through resizes and refusals.
THEOREM WorkerIsFedInOrder == Spec => []NewerAndFits
<1>1. IInv => NewerAndFits
  <2> SUFFICES ASSUME IInv PROVE NewerAndFits
    OBVIOUS
  <2>1. QueueIsNewer
    BY DEF IInv, NumbersOK, OrderInv, QueueIsNewer
  <2>2. FedAtWorkersSize
    BY DEF IInv, WorkerInv, FedAtWorkersSize
  <2> QED
    BY <2>1, <2>2 DEF NewerAndFits
<1> QED
  BY <1>1, Invariant, PTL

=============================================================================
