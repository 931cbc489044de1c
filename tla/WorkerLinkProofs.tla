--------------------------- MODULE WorkerLinkProofs ---------------------------
(***************************************************************************)
(* Proofs about WorkerLink for every size, bound and caller policy: the     *)
(* link's types, the lock step of REQ_SEQ and ACK_SEQ, that OUT is stable   *)
(* while the client copies it although nothing ever locks it, that all      *)
(* parties stand at one size and the inner worker is never left waiting,    *)
(* and that the link is the service of WorkerService, both of the latter    *)
(* until a wait times out or a resize is refused.                           *)
(***************************************************************************)
EXTENDS WorkerLink, SequenceTheorems, TLAPS

USE SizesAssumption, BoundsAssumption, PolicyAssumption

\* The adapter's main loop is between the two reads of REQ_SEQ.
Serving == apc \in {"resizing", "rendering", "filling", "answering"}

\* The sequence numbers as a lock: `next` is always one past the last answer,
\* a request is at most one ahead of the last answer the client has taken,
\* and the adapter is only at work on the newest request.
SeqInv ==
  /\ next = ctl.ack_seq + 1
  /\ seq <= ctl.ack_seq
  /\ ctl.ack_seq <= ctl.req_seq
  /\ ctl.req_seq <= seq + 1
  /\ Serving => next = ctl.req_seq
  /\ pc = "waiting" => ctl.req_seq = seq + 1
  /\ pc = "reading" => ctl.req_seq = seq

IInv == TypeOK /\ SeqInv

\* What the control block keeps when either side writes its own words.
LEMMA ControlFields ==
  ASSUME NEW c \in Control
  PROVE  /\ c.req_seq \in Nat /\ c.ack_seq \in Nat
         /\ c.req_mode \in {0, 1}
         /\ c.size \in Sizes \cup {0} /\ c.out \in Sizes \cup {0}
         /\ c.ok \in BOOLEAN
BY DEF Control

LEMMA ControlQuit ==
  ASSUME NEW c \in Control
  PROVE  /\ [c EXCEPT !.quit = TRUE] \in Control
         /\ [c EXCEPT !.quit = TRUE].ack_seq = c.ack_seq
         /\ [c EXCEPT !.quit = TRUE].req_seq = c.req_seq
BY DEF Control

LEMMA ControlState ==
  ASSUME NEW c \in Control
  PROVE  /\ [c EXCEPT !.state = 1] \in Control
         /\ [c EXCEPT !.state = 1].ack_seq = c.ack_seq
         /\ [c EXCEPT !.state = 1].req_seq = c.req_seq
         /\ [c EXCEPT !.state = 2] \in Control
         /\ [c EXCEPT !.state = 2].ack_seq = c.ack_seq
         /\ [c EXCEPT !.state = 2].req_seq = c.req_seq
BY DEF Control

LEMMA ControlSize ==
  ASSUME NEW c \in Control, NEW s \in Sizes \cup {0}
  PROVE  /\ [c EXCEPT !.size = s] \in Control
         /\ [c EXCEPT !.size = s].ack_seq = c.ack_seq
         /\ [c EXCEPT !.size = s].req_seq = c.req_seq
BY DEF Control

LEMMA ControlRequest ==
  ASSUME NEW c \in Control, NEW m \in {0, 1}, NEW n \in Nat
  PROVE  /\ [c EXCEPT !.req_mode = m, !.req_seq = n] \in Control
         /\ [c EXCEPT !.req_mode = m, !.req_seq = n].ack_seq = c.ack_seq
         /\ [c EXCEPT !.req_mode = m, !.req_seq = n].req_seq = n
BY DEF Control

LEMMA ControlAnswer ==
  ASSUME NEW c \in Control, NEW b \in BOOLEAN, NEW n \in Nat,
         NEW o \in Sizes \cup {0}
  PROVE  /\ [c EXCEPT !.ok = b, !.ack_seq = n, !.out = o] \in Control
         /\ [c EXCEPT !.ok = b, !.ack_seq = n, !.out = o].ack_seq = n
         /\ [c EXCEPT !.ok = b, !.ack_seq = n, !.out = o].req_seq = c.req_seq
BY DEF Control

\* The adapter's locals, and a reply taken from the pipe.
LEMMA WorkFields ==
  ASSUME NEW w \in Work
  PROVE  w.ok \in BOOLEAN /\ w.size \in Sizes \cup {0}
BY DEF Work

LEMMA WorkOk ==
  ASSUME NEW w \in Work, NEW b \in BOOLEAN
  PROVE  [w EXCEPT !.ok = b] \in Work
BY DEF Work

LEMMA WorkRecord ==
  ASSUME NEW m \in {0, 1}, NEW b \in BOOLEAN, NEW s \in Sizes \cup {0}
  PROVE  [mode |-> m, ok |-> b, size |-> s] \in Work
BY DEF Work

LEMMA ReplyFields ==
  ASSUME NEW r \in Replies
  PROVE  r.ok \in BOOLEAN /\ r.image \in Frames
BY DEF Replies

LEMMA MessageFields ==
  ASSUME NEW m \in Messages
  PROVE  m.size \in Sizes \cup {0} /\ m.image \in Frames
BY DEF Messages

LEMMA MessageQueues ==
  ASSUME NEW S, NEW q \in Seq(S)
  PROVE  /\ \A x \in S : Append(q, x) \in Seq(S)
         /\ q # <<>> => Head(q) \in S /\ Tail(q) \in Seq(S)
OBVIOUS

\* Type correctness of the whole link.
LEMMA TypeInit == Init => TypeOK
BY DEF Init, TypeOK, SharedOK, ClientOK, AdapterOK, PipesOK, Call, Frames, Messages, Replies,
   Control,
       Work

LEMMA TypeClient == TypeOK /\ Client => TypeOK'
<1> SUFFICES ASSUME SharedOK, ClientOK, AdapterOK, PipesOK, Client
             PROVE  SharedOK' /\ ClientOK' /\ AdapterOK' /\ PipesOK'
  BY DEF TypeOK
<1>u. (adapter' = adapter => AdapterOK') /\ (pipes' = pipes => PipesOK')
  BY DEF adapter, pipes, AdapterOK, PipesOK
<1>s. shared' = shared => SharedOK'
  BY DEF shared, SharedOK
<1>d. ctl' \in Control /\ UNCHANGED <<inBuf, outBuf>> => SharedOK'
  BY DEF SharedOK
<1>1. CASE Started
  BY <1>1, <1>u, <1>s DEF Started, ClientOK, Frames
<1>2. CASE StartFailed
  <2>1. ctl' \in Control
    BY <1>2, ControlQuit DEF StartFailed, SharedOK
  <2> QED
    BY <1>2, <1>u, <1>d, <2>1 DEF StartFailed, ClientOK
<1>3. CASE BeginProcess
  BY <1>3, <1>u DEF BeginProcess, Call, SharedOK, ClientOK, Frames
<1>4. CASE EndCopy
  BY <1>4, <1>u DEF EndCopy, SharedOK, ClientOK, Frames
<1>5. CASE BeginReconfigure
  BY <1>5, <1>u, <1>s DEF BeginReconfigure, Call, ClientOK, Frames
<1>6. CASE WriteFields
  <2>1. ctl' \in Control
    BY <1>6, ControlSize DEF WriteFields, SharedOK, ClientOK
  <2> QED
    BY <1>6, <1>u, <1>d, <2>1 DEF WriteFields, ClientOK
<1>7. CASE Publish
  <2> DEFINE mode == IF call.kind = "configure" THEN 1 ELSE 0
  <2>1. ctl' = [ctl EXCEPT !.req_mode = mode, !.req_seq = seq + 1]
    BY <1>7 DEF Publish
  <2>2. mode \in {0, 1} /\ seq + 1 \in Nat
    BY DEF ClientOK
  <2>3. ctl' \in Control
    <3> HIDE DEF mode
    <3> QED BY <2>1, <2>2, ControlRequest DEF SharedOK
  <2> QED
    BY <1>7, <1>u, <1>d, <2>3 DEF Publish, ClientOK
<1>8. CASE Reconfigured
  <2>1. ctl.out \in Sizes \cup {0}
    BY ControlFields DEF SharedOK
  <2>2. /\ call.id \in Frames /\ call.size \in Sizes \cup {0}
        /\ 0 \in Frames
    BY DEF ClientOK, Frames
  <2>3. returned' \in [id : Frames, ok : BOOLEAN, image : Frames]
    BY <1>8, <2>2 DEF Reconfigured
  <2> QED
    BY <1>8, <1>u, <1>s, <2>1, <2>2, <2>3 DEF Reconfigured, ClientOK
<1>9. CASE Refused
  BY <1>9, <1>u, <1>s DEF Refused, AfterFailure, ClientOK, Frames
<1>10. CASE FrameAcked
  BY <1>10, <1>u, <1>s DEF FrameAcked, ClientOK, Frames
<1>11. CASE ReadOut
  BY <1>11, <1>u, <1>s DEF ReadOut, ClientOK, Frames, SharedOK
<1>12. CASE TimeOut
  BY <1>12, <1>u, <1>s DEF TimeOut, Raise, AfterFailure, ClientOK, Frames
<1>13. CASE FoundDead
  BY <1>13, <1>u, <1>s DEF FoundDead, Raise, AfterFailure, ClientOK, Frames
<1>14. CASE Close
  <2>1. ctl' \in Control
    BY <1>14, ControlQuit DEF Close, SharedOK
  <2> QED
    BY <1>14, <1>u, <1>d, <2>1 DEF Close, ClientOK
<1>15. CASE Kill
  BY <1>15, <1>s DEF Kill, client, pipes, ClientOK, AdapterOK, PipesOK
<1> QED
  BY <1>1, <1>2, <1>3, <1>4, <1>5, <1>6, <1>7, <1>8, <1>9, <1>10, <1>11,
     <1>12, <1>13, <1>14, <1>15 DEF Client

LEMMA TypeAdapter == TypeOK /\ (Adapter \/ AdapterDies) => TypeOK'
<1> SUFFICES ASSUME SharedOK, ClientOK, AdapterOK, PipesOK,
                    Adapter \/ AdapterDies
             PROVE  SharedOK' /\ ClientOK' /\ AdapterOK' /\ PipesOK'
  BY DEF TypeOK
<1> USE DEF shared, adapter, pipes, Requested
<1>c. client' = client => ClientOK'
  BY DEF client, ClientOK
<1>0. /\ ctl.req_mode \in {0, 1} /\ ctl.size \in Sizes \cup {0}
      /\ cur \in Sizes \cup {0} /\ inBuf.image \in Frames
  BY ControlFields DEF SharedOK, AdapterOK
<1>h. fromInner # <<>> => /\ Head(fromInner) \in Replies
                          /\ Tail(fromInner) \in Seq(Replies)
  BY MessageQueues DEF PipesOK
<1>f. fromInner # <<>> => /\ Head(fromInner).ok \in BOOLEAN
                          /\ Head(fromInner).image \in Frames
                          /\ [taken EXCEPT !.ok = Head(fromInner).ok] \in Work
  BY <1>h, ReplyFields, WorkOk DEF AdapterOK
<1>1. CASE AdapterReady
  BY <1>1, <1>c, ControlState DEF AdapterReady, SharedOK, AdapterOK, PipesOK
<1>2. CASE AdapterQuits
  BY <1>2, <1>c DEF AdapterQuits, SharedOK, AdapterOK, PipesOK
<1>4. CASE TakeFirst
  <2>1. [kind |-> "video", size |-> ctl.size, image |-> 0] \in Messages
    BY <1>0 DEF Messages, Frames
  <2> QED
    BY <1>4, <1>c, <1>0, <2>1, MessageQueues, WorkRecord
       DEF TakeFirst, SharedOK, AdapterOK, PipesOK
<1>5. CASE SpawnFails
  BY <1>5, <1>c, ControlState DEF SpawnFails, SharedOK, AdapterOK, PipesOK
<1>6. CASE TakeResize
  <2>1. [kind |-> "resize", size |-> ctl.size, image |-> 0] \in Messages
    BY <1>0 DEF Messages, Frames
  <2> QED
    BY <1>6, <1>c, <1>0, <2>1, MessageQueues, WorkRecord
       DEF TakeResize, SharedOK, AdapterOK, PipesOK
<1>7. CASE TakeFrame
  <2> DEFINE m == [kind |-> "frame", size |-> cur,
                   image |-> IF inBuf.size = cur THEN inBuf.image ELSE 0]
  <2>1. m \in Messages
    BY <1>0 DEF Messages, Frames
  <2>2. toInner' = Append(toInner, m)
    BY <1>7 DEF TakeFrame
  <2>3. toInner' \in Seq(Messages)
    <3> HIDE DEF m
    <3> QED BY <2>1, <2>2, MessageQueues DEF PipesOK
  <2> QED
    BY <1>7, <1>c, <1>0, <2>3, WorkRecord
       DEF TakeFrame, SharedOK, AdapterOK, PipesOK
<1>8. CASE WriteFails
  BY <1>8, <1>c, <1>0, WorkRecord DEF WriteFails, SharedOK, AdapterOK, PipesOK
<1>9. CASE ResizeAcked
  BY <1>9, <1>c, <1>h, <1>f, WorkFields
     DEF ResizeAcked, SharedOK, AdapterOK, PipesOK
<1>10. CASE SkipAck
  BY <1>10, <1>c, <1>h DEF SkipAck, SharedOK, AdapterOK, PipesOK
<1>11. CASE FrameReply
  <2>1. 0 \in Frames
    BY DEF Frames
  <2>2. /\ apc' \in {"filling", "answering"}
        /\ outBuf' \in {0, outBuf}
        /\ fromInner' \in {fromInner, Tail(fromInner)}
        /\ fromInner # <<>>
    <3>1. CASE Head(fromInner).ok
      BY <1>11, <3>1, Zenon DEF FrameReply
    <3>2. CASE ~Head(fromInner).ok
      BY <1>11, <3>2, Zenon DEF FrameReply
    <3> QED
      BY <3>1, <3>2
  <2>3. fromInner' \in Seq(Replies)
    BY <2>2, <1>h DEF PipesOK
  <2> QED
    BY <1>11, <1>c, <2>1, <2>2, <2>3
       DEF FrameReply, SharedOK, AdapterOK, PipesOK
<1>12. CASE FillOut
  BY <1>12, <1>c, <1>h, <1>f, WorkOk DEF FillOut, SharedOK, AdapterOK, PipesOK
<1>13. CASE PipeBroken
  BY <1>13, <1>c, <1>h DEF PipeBroken, SharedOK, AdapterOK, PipesOK
<1>14. CASE Answer
  <2> DEFINE o == IF taken.mode = 1 THEN cur ELSE ctl.out
  <2>1. ctl' = [ctl EXCEPT !.ok = taken.ok, !.ack_seq = next, !.out = o]
    BY <1>14 DEF Answer
  <2>2. taken.ok \in BOOLEAN /\ next \in Nat /\ o \in Sizes \cup {0}
    BY ControlFields, WorkFields DEF SharedOK, AdapterOK
  <2>3. ctl' \in Control
    <3> HIDE DEF o
    <3> QED BY <2>1, <2>2, ControlAnswer DEF SharedOK
  <2> QED
    BY <1>14, <1>c, <2>3 DEF Answer, SharedOK, AdapterOK, PipesOK
<1>15. CASE AdapterDies
  BY <1>15, <1>c DEF AdapterDies, SharedOK, AdapterOK, PipesOK
<1>16. CASE FirstWriteFails
  BY <1>16, <1>c, <1>0, WorkRecord DEF FirstWriteFails, SharedOK, AdapterOK, PipesOK
<1> QED
  BY <1>1, <1>2, <1>4, <1>5, <1>6, <1>7, <1>8, <1>9, <1>10, <1>11,
     <1>12, <1>13, <1>14, <1>15, <1>16 DEF Adapter, AdapterWorks

LEMMA TypeInner == TypeOK /\ Inner => TypeOK'
<1> SUFFICES ASSUME SharedOK, ClientOK, AdapterOK, PipesOK, Inner
             PROVE  SharedOK' /\ ClientOK' /\ AdapterOK' /\ PipesOK'
  BY DEF TypeOK
<1>u. shared' = shared /\ client' = client /\ adapter' = adapter
  BY DEF Inner, InnerWorks, InnerConfigured, InnerRefuses, InnerRenders, InnerStarves,
         InnerDies, Reply
<1>1. SharedOK' /\ ClientOK' /\ AdapterOK'
  BY <1>u DEF shared, client, adapter, SharedOK, ClientOK, AdapterOK
<1>h. toInner # <<>> => /\ Head(toInner) \in Messages
                        /\ Tail(toInner) \in Seq(Messages)
  BY MessageQueues DEF PipesOK
<1>m. toInner # <<>> => /\ Head(toInner).size \in Sizes \cup {0}
                        /\ Head(toInner).image \in Frames
                        /\ Tail(toInner) \in Seq(Messages)
  BY <1>h, MessageFields
<1>r. ASSUME NEW kind \in {"ack", "out"}, NEW ok \in BOOLEAN,
             NEW image \in Frames, toInner # <<>>, Reply(kind, ok, image)
      PROVE  fromInner' \in Seq(Replies) /\ toInner' \in Seq(Messages)
  <2>1. [kind |-> kind, ok |-> ok, image |-> image] \in Replies
    BY DEF Replies
  <2> QED
    BY <1>r, <1>m, <2>1, MessageQueues DEF Reply, PipesOK
<1>2. CASE InnerConfigured
  <2>0. 0 \in Frames
    BY DEF Frames
  <2>1. toInner # <<>> /\ Reply("ack", TRUE, 0)
    BY <1>2, Zenon DEF InnerConfigured
  <2>2. fromInner' \in Seq(Replies) /\ toInner' \in Seq(Messages)
    BY <2>0, <2>1, <1>r
  <2> QED
    BY <1>1, <1>2, <1>m, <2>2 DEF InnerConfigured, PipesOK
<1>3. CASE InnerRefuses
  <2>0. 0 \in Frames
    BY DEF Frames
  <2>1. toInner # <<>> /\ Reply("ack", FALSE, 0)
    BY <1>3, Zenon DEF InnerRefuses
  <2>2. fromInner' \in Seq(Replies) /\ toInner' \in Seq(Messages)
    BY <2>0, <2>1, <1>r
  <2> QED
    BY <1>1, <1>3, <1>m, <2>2 DEF InnerRefuses, PipesOK
<1>4. CASE InnerRenders
  <2> PICK ok \in BOOLEAN : Reply("out", ok, Head(toInner).image)
    BY <1>4 DEF InnerRenders
  <2> QED
    BY <1>1, <1>4, <1>m, <1>r DEF InnerRenders, PipesOK
<1>5. CASE InnerStarves
  BY <1>1, <1>5 DEF InnerStarves, PipesOK
<1>6. CASE InnerDies
  BY <1>1, <1>6 DEF InnerDies, PipesOK
<1> QED
  BY <1>2, <1>3, <1>4, <1>5, <1>6 DEF Inner, InnerWorks

LEMMA TypeStep == TypeOK /\ [Next]_vars => TypeOK'
<1>1. TypeOK /\ UNCHANGED vars => TypeOK'
  BY DEF vars, shared, client, adapter, pipes, TypeOK, SharedOK, ClientOK,
         AdapterOK, PipesOK
<1> QED
  BY <1>1, TypeClient, TypeAdapter, TypeInner DEF Next

\* Every behaviour of the link keeps its types, for all sizes and bounds.
THEOREM TypeCorrect == Spec => []TypeOK
BY TypeInit, TypeStep, PTL DEF Spec

LEMMA SeqInit == Init => SeqInv
BY DEF Init, SeqInv, Serving

\* The client's steps move REQ_SEQ and _seq; the adapter cannot be at work
\* on an older request than the one they lead to.
LEMMA SeqClient == IInv /\ Client => SeqInv'
<1> SUFFICES ASSUME SharedOK, ClientOK, AdapterOK, SeqInv, Client PROVE SeqInv'
  BY DEF IInv, TypeOK
<1> USE DEF SeqInv, Serving, shared, adapter, pipes, Acked
<1>0. /\ ctl \in Control /\ ctl.req_seq \in Nat /\ ctl.ack_seq \in Nat
      /\ seq \in Nat /\ next \in Nat
  BY ControlFields DEF SharedOK, ClientOK, AdapterOK
<1>1. CASE Started
  BY <1>1, <1>0 DEF Started
<1>2. CASE StartFailed
  BY <1>2, <1>0, ControlQuit DEF StartFailed
<1>3. CASE BeginProcess
  BY <1>3, <1>0 DEF BeginProcess
<1>4. CASE EndCopy
  BY <1>4, <1>0 DEF EndCopy
<1>5. CASE BeginReconfigure
  BY <1>5, <1>0 DEF BeginReconfigure
<1>6. CASE WriteFields
  BY <1>6, <1>0, ControlSize DEF WriteFields, ClientOK
<1>7. CASE Publish
  <2> DEFINE mode == IF call.kind = "configure" THEN 1 ELSE 0
  <2>1. ctl' = [ctl EXCEPT !.req_mode = mode, !.req_seq = seq + 1]
    BY <1>7 DEF Publish
  <2>2. mode \in {0, 1} /\ seq + 1 \in Nat
    BY <1>0
  <2>3. ctl'.ack_seq = ctl.ack_seq /\ ctl'.req_seq = seq + 1
    <3> HIDE DEF mode, SeqInv, Serving
    <3> DEFINE asked == [ctl EXCEPT !.req_mode = mode, !.req_seq = seq + 1]
    <3>1. asked.ack_seq = ctl.ack_seq /\ asked.req_seq = seq + 1
      BY <1>0 DEF Control
    <3> QED BY <2>1, <3>1
  <2> QED
    BY <1>7, <1>0, <2>3 DEF Publish
<1>8. CASE Reconfigured
  BY <1>8, <1>0 DEF Reconfigured
<1>9. CASE Refused
  BY <1>9, <1>0 DEF Refused, AfterFailure
<1>10. CASE FrameAcked
  BY <1>10, <1>0 DEF FrameAcked
<1>11. CASE ReadOut
  BY <1>11, <1>0 DEF ReadOut
<1>12. CASE TimeOut
  BY <1>12, <1>0 DEF TimeOut, Raise, AfterFailure
<1>13. CASE FoundDead
  BY <1>13, <1>0 DEF FoundDead, Raise, AfterFailure
<1>14. CASE Close
  BY <1>14, <1>0, ControlQuit DEF Close
<1>15. CASE Kill
  BY <1>15, <1>0 DEF Kill, client
<1> QED
  BY <1>1, <1>2, <1>3, <1>4, <1>5, <1>6, <1>7, <1>8, <1>9, <1>10, <1>11,
     <1>12, <1>13, <1>14, <1>15 DEF Client

\* The adapter picks up a request only when it is one ahead of the answers,
\* and answers it with that very number.
LEMMA SeqAdapter == IInv /\ (Adapter \/ AdapterDies) => SeqInv'
<1> SUFFICES ASSUME SharedOK, ClientOK, AdapterOK, SeqInv, Adapter \/ AdapterDies
             PROVE SeqInv'
  BY DEF IInv, TypeOK
<1> USE DEF SeqInv, Serving, shared, client, pipes, Requested
<1>0. /\ ctl \in Control /\ ctl.req_seq \in Nat /\ ctl.ack_seq \in Nat
      /\ seq \in Nat /\ next \in Nat
  BY ControlFields DEF SharedOK, ClientOK, AdapterOK
<1>1. CASE AdapterReady
  BY <1>1, <1>0, ControlState DEF AdapterReady
<1>2. CASE AdapterQuits \/ AdapterDies
  BY <1>2, <1>0 DEF AdapterQuits, AdapterDies
<1>3. CASE TakeFirst \/ FirstWriteFails \/ TakeResize \/ TakeFrame \/ WriteFails
  BY <1>3, <1>0, SMTT(30) DEF TakeFirst, FirstWriteFails, TakeResize, TakeFrame, WriteFails
<1>4. CASE SpawnFails
  BY <1>4, <1>0, ControlState DEF SpawnFails
<1>5. CASE ResizeAcked \/ SkipAck \/ FrameReply \/ FillOut \/ PipeBroken
  BY <1>5, <1>0 DEF ResizeAcked, SkipAck, FrameReply, FillOut, PipeBroken, adapter
<1>6. CASE Answer
  <2> DEFINE o == IF taken.mode = 1 THEN cur ELSE ctl.out
  <2>1. ctl' = [ctl EXCEPT !.ok = taken.ok, !.ack_seq = next, !.out = o]
    BY <1>6 DEF Answer
  <2>2. taken.ok \in BOOLEAN /\ o \in Sizes \cup {0}
    BY ControlFields, WorkFields DEF SharedOK, AdapterOK
  <2>3. ctl'.ack_seq = next /\ ctl'.req_seq = ctl.req_seq
    <3> HIDE DEF o, SeqInv, Serving
    <3> DEFINE answered == [ctl EXCEPT !.ok = taken.ok, !.ack_seq = next, !.out = o]
    <3>1. answered.ack_seq = next /\ answered.req_seq = ctl.req_seq
      BY <1>0 DEF Control
    <3> QED BY <2>1, <3>1
  <2> QED
    BY <1>6, <1>0, <2>3 DEF Answer
<1> QED
  BY <1>1, <1>2, <1>3, <1>4, <1>5, <1>6 DEF Adapter, AdapterWorks

LEMMA SeqStep == IInv /\ [Next]_vars => SeqInv'
<1>1. SeqInv /\ Inner => SeqInv'
  BY DEF Inner, InnerWorks, InnerConfigured, InnerRefuses, InnerRenders, InnerStarves,
         InnerDies, Reply, SeqInv, Serving, shared, client, adapter
<1>2. SeqInv /\ UNCHANGED vars => SeqInv'
  BY DEF vars, shared, client, adapter, SeqInv, Serving
<1> QED
  BY <1>1, <1>2, SeqClient, SeqAdapter DEF Next, IInv

\* IInv is inductive, so it holds throughout.
THEOREM Inductive == Spec => []IInv
<1>1. Init => IInv
  BY TypeInit, SeqInit DEF IInv
<1>2. IInv /\ [Next]_vars => IInv'
  BY TypeStep, SeqStep DEF IInv
<1> QED
  BY <1>1, <1>2, PTL DEF Spec

\* ACK_SEQ follows REQ_SEQ at a distance of at most one, whatever timed out,
\* died or was refused.
THEOREM AckFollows == Spec => []AckFollowsRequest
<1>1. IInv => AckFollowsRequest
  BY ControlFields DEF IInv, TypeOK, SharedOK, ClientOK, SeqInv, AckFollowsRequest
<1> QED
  BY <1>1, Inductive, PTL

\* While the client copies the output frame nothing writes it: the adapter
\* would need a request newer than the one just answered.
THEOREM OutStable == Spec => OutStableWhileRead
<1>1. IInv /\ [Next]_vars => [pc = "reading" => outBuf' = outBuf]_vars
  <2> SUFFICES ASSUME IInv, Next, pc = "reading" PROVE outBuf' = outBuf
    BY DEF vars, shared
  <2>1. ~Serving
    BY ControlFields DEF IInv, TypeOK, SharedOK, ClientOK, AdapterOK, SeqInv
  <2>2. Client => outBuf' = outBuf
    BY DEF Client, Started, StartFailed, BeginProcess, EndCopy,
           BeginReconfigure, WriteFields, Publish, Reconfigured, Refused,
           FrameAcked, ReadOut, TimeOut, FoundDead, Raise, Close, Kill, shared
  <2>3. Adapter \/ AdapterDies => outBuf' = outBuf
    BY <2>1 DEF Serving, Adapter, AdapterWorks, AdapterReady, AdapterQuits, TakeFirst,
           SpawnFails, FirstWriteFails, TakeResize, TakeFrame, WriteFails,
           ResizeAcked, SkipAck, FrameReply, FillOut, PipeBroken, Answer,
           AdapterDies, shared
  <2>4. Inner => outBuf' = outBuf
    BY DEF Inner, InnerWorks, InnerConfigured, InnerRefuses, InnerRenders, InnerStarves,
           InnerDies, Reply, shared
  <2> QED
    BY <2>2, <2>3, <2>4 DEF Next
<1> QED
  BY <1>1, Inductive, PTL DEF Spec, OutStableWhileRead

----------------------------------------------------------------------------
(* What the parties agree on                                                *)

\* The first configure could not be written: its failure is all that is answered.
Unstarted ==
  /\ InConstructor /\ pc \in {"waiting", "lost"}
  /\ inner.up = "dead"
  /\ apc \in {"polling", "answering", "dead"}
  /\ ~taken.ok /\ taken.mode = 1
  /\ ctl.req_seq = 1
  /\ apc = "polling" => ctl.ack_seq # 0
  /\ ctl.ack_seq # 0 => ~ctl.ok

\* From the first request on there is a size, never above the ceiling, and from the first
\* answer on the adapter runs; a caller that has got its worker has both.
StartInv ==
  /\ ctl.size <= Ceiling
  /\ pc \in {"starting", "fields"} => call.size <= Ceiling
  /\ ctl.req_seq # 0 \/ pc = "publish" => ctl.size # 0
  /\ ctl.req_mode = 0 /\ ctl.req_seq # 0 => seq # 0
  /\ ~InConstructor \/ pc = "idle" => seq # 0 /\ size # 0
  /\ ctl.ack_seq # 0 \/ Serving => primed \/ Unstarted
  /\ ~primed => inner.up = "none" \/ Unstarted
  /\ apc = "resizing" => taken.size # 0
  /\ ctl.req_seq # 0 /\ ctl.ack_seq = 0 => pc \in {"waiting", "lost"}

\* A call's words are in the slot and its picture in the mapped frame before they are
\* published, and stay there.
CallInv ==
  /\ InConstructor \/ pc \in {"starting", "fields"} => call.kind = "configure"
  /\ pc \in {"copying", "reading"} => call.kind = "frame"
  /\ call.kind = "configure" => call.size # 0
  /\ call.kind = "frame" /\ pc \in {"copying", "publish", "waiting"} => call.size = size
  /\ call.kind = "frame" /\ pc \in {"publish", "waiting"} =>
       inBuf.image = call.id /\ inBuf.size = call.size
  /\ call.kind = "configure" /\ pc \in {"publish", "waiting"} => ctl.size = call.size
  /\ pc = "waiting" => (ctl.req_mode = 1 <=> call.kind = "configure")
  /\ apc \in {"resizing", "rendering", "filling"} => ~taken.ok

\* The adapter works on what the client waits for, and both stand at one size but for the
\* time from the adapter's change to the client's.
SizesInv ==
  ~Disturbed /\ apc # "dead" =>
    /\ pc # "waiting" => ctl.req_seq = seq
    /\ Serving => taken.mode = ctl.req_mode
    /\ apc = "resizing" => taken.mode = 1 /\ taken.size = ctl.size
    /\ apc \in {"rendering", "filling"} => taken.mode = 0
    /\ ~Serving \/ taken.mode = 0 => ctl.out = cur
    /\ out = size
    /\ pc # "waiting" \/ call.kind = "frame" => size = cur
    /\ pc = "waiting" /\ call.kind = "configure" =>
         /\ Acked => cur = IF ctl.ok THEN call.size ELSE size
         /\ apc = "answering" => cur = IF taken.ok THEN call.size ELSE size
         /\ ~Acked /\ apc # "answering" => cur = size

\* A frame is the last message on its way to the inner worker, and of the size the ones
\* before it leave it at.
NoFrames == \A i \in 1 .. Len(toInner) : toInner[i].kind # "frame"
LeftAt == IF toInner = <<>> THEN inner.size ELSE toInner[Len(toInner)].size
PipeInv ==
  ~Disturbed /\ inner.up # "dead" =>
    /\ inner.up # "starved"
    /\ \A i \in 1 .. Len(toInner) : toInner[i].kind = "frame" =>
         /\ i = Len(toInner)
         /\ toInner[i].size = IF i = 1 THEN inner.size ELSE toInner[i - 1].size
    /\ apc # "dead" => LeftAt = IF apc = "resizing" THEN taken.size ELSE cur
    /\ apc \notin {"rendering", "dead"} => NoFrames

\* The only picture on its way back is that of the frame the client waits for.
NoOuts == \A i \in 1 .. Len(fromInner) : fromInner[i].kind # "out"
ReplyInv ==
  ~Disturbed =>
    /\ \A i \in 1 .. Len(fromInner) : fromInner[i].kind = "ack" => fromInner[i].ok
    /\ apc \notin {"rendering", "filling", "dead"} => NoOuts
    /\ apc \in {"rendering", "filling"} =>
         /\ \A i \in 1 .. Len(fromInner) : fromInner[i].kind = "out" =>
              i = Len(fromInner) /\ fromInner[i].image = call.id /\ toInner = <<>>
         /\ \A i \in 1 .. Len(toInner) : toInner[i].kind = "frame" => toInner[i].image = call.id
    /\ apc = "filling" => fromInner # <<>> /\ fromInner[1].kind = "out"
    /\ apc = "answering" /\ taken.mode = 0 /\ taken.ok => outBuf = call.id
    /\ pc = "waiting" /\ call.kind = "frame" /\ Acked /\ ctl.ok => outBuf = call.id
    /\ pc = "reading" => outBuf = call.id
    /\ pc # "waiting" => ctl.ack_seq = seq

Agreed == StartInv /\ CallInv /\ SizesInv /\ PipeInv /\ ReplyInv
LinkInv == IInv /\ Agreed

\* The numbers behind the invariants.
LEMMA Facts ==
  IInv =>
    /\ ctl \in Control /\ ctl.req_seq \in Nat /\ ctl.ack_seq \in Nat /\ seq \in Nat /\ next \in Nat
    /\ ctl.size \in Sizes \cup {0} /\ ctl.out \in Sizes \cup {0} /\ size \in Sizes \cup {0}
    /\ out \in Sizes \cup {0} /\ cur \in Sizes \cup {0}
    /\ call.id \in 0..(MaxCalls + 1) /\ call.kind \in {"frame", "configure"} /\ call.size \in Sizes \cup {0}
    /\ ctl.req_mode \in {0, 1} /\ taken \in Work /\ taken.mode \in {0, 1} /\ taken.size \in Sizes \cup {0}
    /\ timeouts \in Nat /\ rejects \in Nat
    /\ toInner \in Seq(Messages) /\ fromInner \in Seq(Replies) /\ Len(toInner) \in Nat /\ Len(fromInner) \in Nat
    /\ inner \in [up : {"none", "up", "starved", "dead"}, size : Sizes \cup {0}]
<1> SUFFICES ASSUME SharedOK, ClientOK, AdapterOK, PipesOK
             PROVE  /\ ctl \in Control /\ ctl.req_seq \in Nat /\ ctl.ack_seq \in Nat /\ seq \in Nat /\ next \in Nat
                    /\ ctl.size \in Sizes \cup {0} /\ ctl.out \in Sizes \cup {0} /\ size \in Sizes \cup {0}
                    /\ out \in Sizes \cup {0} /\ cur \in Sizes \cup {0}
                    /\ call.id \in 0..(MaxCalls + 1) /\ call.kind \in {"frame", "configure"}
                    /\ call.size \in Sizes \cup {0} /\ ctl.req_mode \in {0, 1}
                    /\ taken \in Work /\ taken.mode \in {0, 1} /\ taken.size \in Sizes \cup {0}
                    /\ timeouts \in Nat /\ rejects \in Nat
                    /\ toInner \in Seq(Messages) /\ fromInner \in Seq(Replies)
                    /\ Len(toInner) \in Nat /\ Len(fromInner) \in Nat
                    /\ inner \in [up : {"none", "up", "starved", "dead"}, size : Sizes \cup {0}]
  BY DEF IInv, TypeOK
<1>1. /\ ctl \in Control /\ ctl.req_seq \in Nat /\ ctl.ack_seq \in Nat /\ ctl.req_mode \in {0, 1}
      /\ ctl.size \in Sizes \cup {0} /\ ctl.out \in Sizes \cup {0}
  BY ControlFields DEF SharedOK
<1>2. /\ seq \in Nat /\ size \in Sizes \cup {0} /\ out \in Sizes \cup {0} /\ timeouts \in Nat
      /\ call.id \in 0..(MaxCalls + 1) /\ call.kind \in {"frame", "configure"}
      /\ call.size \in Sizes \cup {0}
  BY DEF ClientOK, Frames
<1>3. next \in Nat /\ cur \in Sizes \cup {0} /\ taken \in Work
  BY DEF AdapterOK
<1>4. taken.mode \in {0, 1} /\ taken.size \in Sizes \cup {0}
  BY <1>3 DEF Work
<1>5. /\ toInner \in Seq(Messages) /\ fromInner \in Seq(Replies) /\ rejects \in Nat
      /\ inner \in [up : {"none", "up", "starved", "dead"}, size : Sizes \cup {0}]
  BY DEF PipesOK
<1>6. Len(toInner) \in Nat /\ Len(fromInner) \in Nat
  BY <1>5
<1> QED
  BY <1>1, <1>2, <1>3, <1>4, <1>5, <1>6

\* The words a side writes, and those it leaves.
SameWords ==
  /\ ctl'.req_seq = ctl.req_seq /\ ctl'.req_mode = ctl.req_mode /\ ctl'.size = ctl.size
  /\ ctl'.ack_seq = ctl.ack_seq /\ ctl'.ok = ctl.ok /\ ctl'.out = ctl.out

LEMMA Words ==
  IInv =>
    /\ StartFailed \/ Close \/ AdapterReady \/ SpawnFails => SameWords
    /\ ctl' = ctl => SameWords
    /\ WriteFields =>
         /\ ctl'.size = call.size
         /\ ctl'.req_seq = ctl.req_seq /\ ctl'.req_mode = ctl.req_mode
         /\ ctl'.ack_seq = ctl.ack_seq /\ ctl'.ok = ctl.ok /\ ctl'.out = ctl.out
    /\ Publish =>
         /\ ctl'.req_mode = (IF call.kind = "configure" THEN 1 ELSE 0) /\ ctl'.req_seq = seq + 1
         /\ ctl'.size = ctl.size
         /\ ctl'.ack_seq = ctl.ack_seq /\ ctl'.ok = ctl.ok /\ ctl'.out = ctl.out
    /\ Answer =>
         /\ ctl'.ok = taken.ok /\ ctl'.ack_seq = next
         /\ ctl'.out = (IF taken.mode = 1 THEN cur ELSE ctl.out)
         /\ ctl'.req_seq = ctl.req_seq /\ ctl'.req_mode = ctl.req_mode /\ ctl'.size = ctl.size
<1>1. IInv => ctl \in Control
  BY Facts
<1> QED
  BY <1>1 DEF Control, StartFailed, Close, AdapterReady, SpawnFails, SameWords, WriteFields,
     Publish,
              Answer

\* When nothing has been disturbed the adapter only works while the client waits.
LEMMA Alone ==
  LinkInv /\ ~Disturbed /\ apc # "dead" =>
    /\ Serving \/ next <= ctl.req_seq => pc = "waiting" /\ ~Acked
    /\ Serving => next = ctl.req_seq /\ ctl.req_seq = seq + 1
  BY Facts DEF LinkInv, Agreed, IInv, SeqInv, SizesInv, Acked

\* What a step leaves alone.
LEMMA Untouched ==
  LinkInv =>
    /\ UNCHANGED <<ctl, pc, call, seq, size, apc, cur, inner, taken>> => StartInv'
    /\ UNCHANGED <<ctl, pc, call, size, inBuf, apc, taken>> => CallInv'
    /\ UNCHANGED <<timeouts, rejects, apc, pc, ctl, seq, taken, cur, out, size, call>> => SizesInv'
    /\ UNCHANGED <<timeouts, rejects, inner, toInner, apc, taken, cur>> => PipeInv'
    /\ UNCHANGED <<timeouts, rejects, fromInner, apc, toInner, call, taken, outBuf, pc, seq,
                   ctl>> =>
         ReplyInv'
<1> SUFFICES ASSUME LinkInv
             PROVE  /\ UNCHANGED <<ctl, pc, call, seq, size, apc, cur, inner, taken>> => StartInv'
                    /\ UNCHANGED <<ctl, pc, call, size, inBuf, apc, taken>> => CallInv'
                    /\ UNCHANGED <<timeouts, rejects, apc, pc, ctl, seq, taken, cur, out, size,
                                  call>> => SizesInv'
                    /\ UNCHANGED <<timeouts, rejects, inner, toInner, apc, taken, cur>> => PipeInv'
                    /\ UNCHANGED <<timeouts, rejects, fromInner, apc, toInner, call, taken, outBuf,
                                  pc, seq, ctl>> => ReplyInv'
  OBVIOUS
<1> USE DEF LinkInv, Agreed
<1>1. ASSUME UNCHANGED <<ctl, pc, call, seq, size, apc, cur, inner, taken>> PROVE StartInv'
  BY <1>1 DEF StartInv, Unstarted, InConstructor, Serving, primed
<1>2. ASSUME UNCHANGED <<ctl, pc, call, size, inBuf, apc, taken>> PROVE CallInv'
  BY <1>2 DEF CallInv, InConstructor
<1>3. ASSUME UNCHANGED <<timeouts, rejects, apc, pc, ctl, seq, taken, cur, out, size, call>>
      PROVE  SizesInv'
  BY <1>3 DEF SizesInv, Disturbed, Serving, Acked
<1>4. ASSUME UNCHANGED <<timeouts, rejects, inner, toInner, apc, taken, cur>> PROVE PipeInv'
  BY <1>4 DEF PipeInv, Disturbed, NoFrames, LeftAt
<1>5. ASSUME UNCHANGED <<timeouts, rejects, fromInner, apc, toInner, call, taken, outBuf, pc, seq,
                         ctl>>
      PROVE  ReplyInv'
  BY <1>5 DEF ReplyInv, Disturbed, NoFrames, NoOuts, Acked
<1> QED
  BY <1>1, <1>2, <1>3, <1>4, <1>5

\* The client's steps.
LEMMA AgreedClient == LinkInv /\ Client => Agreed'
<1> SUFFICES ASSUME LinkInv, Client PROVE Agreed'
  OBVIOUS
<1> USE DEF shared, adapter, pipes
<1>f. IInv /\ StartInv /\ CallInv /\ SizesInv /\ PipeInv /\ ReplyInv /\ SeqInv
  BY DEF LinkInv, Agreed, IInv
<1>n. \A n \in Sizes \cup {0} : n \in Nat
  OBVIOUS
<1>1. CASE Started
  <2>u. UNCHANGED <<ctl, inBuf, outBuf, seq, size, out, call, timeouts, returned, apc, next, cur,
                    taken, toInner, fromInner, inner, rejects>>
    BY <1>1 DEF Started
  <2>h. pc = "starting" /\ pc' = "fields"
    BY <1>1 DEF Started
  <2>1. StartInv'
    BY <1>f, <1>n, Facts, Alone, <2>u, <2>h DEF SeqInv, StartInv, Unstarted, CallInv, InConstructor, Serving,
       primed
  <2>2. CallInv'
    BY <1>f, <1>n, Facts, Alone, <2>u, <2>h DEF SeqInv, CallInv, InConstructor
  <2>3. SizesInv'
    BY <1>f, <1>n, Facts, Alone, <2>u, <2>h DEF SeqInv, SizesInv, Disturbed, Serving, Acked
  <2>4. PipeInv'
    BY <2>u, Untouched
  <2>5. ReplyInv'
    BY <1>f, <1>n, Facts, Alone, <2>u, <2>h DEF SeqInv, ReplyInv, Disturbed, NoFrames, NoOuts, Acked
  <2> QED
    BY <2>1, <2>2, <2>3, <2>4, <2>5 DEF Agreed
<1>2. CASE StartFailed
  <2>u. UNCHANGED <<inBuf, outBuf, seq, size, out, call, timeouts, returned, apc, next, cur, taken,
                    toInner, fromInner, inner, rejects>>
    BY <1>2 DEF StartFailed
  <2>h. pc = "starting" /\ pc' = "closed"
    BY <1>2 DEF StartFailed
  <2>w. /\ ctl'.req_seq = ctl.req_seq /\ ctl'.req_mode = ctl.req_mode /\ ctl'.size = ctl.size
        /\ ctl'.ack_seq = ctl.ack_seq /\ ctl'.ok = ctl.ok /\ ctl'.out = ctl.out
    BY <1>f, <1>2, Words DEF SameWords
  <2>1. StartInv'
    BY <1>f, <1>n, Facts, Alone, <2>u, <2>h, <2>w DEF SeqInv, StartInv, Unstarted, CallInv, InConstructor,
       Serving, primed
  <2>2. CallInv'
    BY <1>f, <1>n, Facts, Alone, <2>u, <2>h, <2>w DEF SeqInv, CallInv, InConstructor
  <2>3. SizesInv'
    BY <1>f, <1>n, Facts, Alone, <2>u, <2>h, <2>w DEF SeqInv, SizesInv, Disturbed, Serving, Acked
  <2>4. PipeInv'
    BY <2>u, Untouched
  <2>5. ReplyInv'
    BY <1>f, <1>n, Facts, Alone, <2>u, <2>h, <2>w DEF SeqInv, ReplyInv, Disturbed, NoFrames,
       NoOuts, Acked
  <2> QED
    BY <2>1, <2>2, <2>3, <2>4, <2>5 DEF Agreed
<1>3. CASE BeginProcess
  <2>u. UNCHANGED <<ctl, outBuf, seq, size, out, timeouts, returned, apc, next, cur, taken,
                    toInner, fromInner, inner, rejects>>
    BY <1>3 DEF BeginProcess, Call
  <2>h. pc = "idle" /\ pc' = "copying" /\ call' = [kind |-> "frame", id |-> call.id + 1, size |-> size]
    BY <1>3 DEF BeginProcess, Call
  <2>q. ~Disturbed' => apc \notin {"rendering", "filling", "answering"}
    BY <1>f, Alone, <2>u, <2>h DEF Disturbed, Serving
  <2>1. StartInv'
    <3>1. (ctl.size <= Ceiling)'
      BY <1>f, <1>n, Facts, Alone, <2>u, <2>h, <2>q DEF SeqInv, StartInv, Unstarted, CallInv, InConstructor,
         Serving, primed
    <3>2. (pc \in {"starting", "fields"} => call.size <= Ceiling)'
      BY <1>f, <1>n, Facts, Alone, <2>u, <2>h, <2>q DEF SeqInv, StartInv, Unstarted, CallInv, InConstructor,
         Serving, primed
    <3>3. (ctl.req_seq # 0 \/ pc = "publish" => ctl.size # 0)'
      BY <1>f, <1>n, Facts, Alone, <2>u, <2>h, <2>q DEF SeqInv, StartInv, Unstarted, CallInv, InConstructor,
         Serving, primed
    <3>4. (ctl.req_mode = 0 /\ ctl.req_seq # 0 => seq # 0)'
      BY <1>f, <1>n, Facts, Alone, <2>u, <2>h, <2>q DEF SeqInv, StartInv, Unstarted, CallInv, InConstructor,
         Serving, primed
    <3>5. (~InConstructor \/ pc = "idle" => seq # 0 /\ size # 0)'
      BY <1>f, <1>n, Facts, Alone, <2>u, <2>h, <2>q DEF SeqInv, StartInv, Unstarted, CallInv, InConstructor,
         Serving, primed
    <3>6. (ctl.ack_seq # 0 \/ Serving => primed \/ Unstarted)'
      BY <1>f, <1>n, Facts, Alone, <2>u, <2>h, <2>q DEF SeqInv, StartInv, Unstarted, CallInv, InConstructor,
         Serving, primed
    <3>7. (~primed => inner.up = "none" \/ Unstarted)'
      BY <1>f, <1>n, Facts, Alone, <2>u, <2>h, <2>q DEF SeqInv, StartInv, Unstarted, CallInv, InConstructor,
         Serving, primed
    <3>8. (apc = "resizing" => taken.size # 0)'
      BY <1>f, <1>n, Facts, Alone, <2>u, <2>h, <2>q DEF SeqInv, StartInv, Unstarted, CallInv, InConstructor,
         Serving, primed
    <3>9. (ctl.req_seq # 0 /\ ctl.ack_seq = 0 => pc \in {"waiting", "lost"})'
      BY <1>f, <1>n, Facts, Alone, <2>u, <2>h, <2>q DEF SeqInv, StartInv, Unstarted, CallInv, InConstructor,
         Serving, primed
    <3> QED
      BY <3>1, <3>2, <3>3, <3>4, <3>5, <3>6, <3>7, <3>8, <3>9 DEF StartInv
  <2>2. CallInv'
    BY <1>f, <1>n, Facts, Alone, <2>u, <2>h, <2>q DEF SeqInv, CallInv, InConstructor
  <2>3. SizesInv'
    BY <1>f, <1>n, Facts, Alone, <2>u, <2>h, <2>q DEF SeqInv, SizesInv, Disturbed, Serving, Acked
  <2>4. PipeInv'
    BY <2>u, Untouched
  <2>5. ReplyInv'
    <3>1. (~Disturbed => \A i \in 1 .. Len(fromInner) : fromInner[i].kind = "ack" => fromInner[i].ok)'
      BY <1>f, <1>n, Facts, Alone, <2>u, <2>h, <2>q DEF SeqInv, ReplyInv, Disturbed, NoFrames,
         NoOuts, Acked
    <3>2. (~Disturbed /\ apc \notin {"rendering", "filling", "dead"} => NoOuts)'
      BY <1>f, <1>n, Facts, Alone, <2>u, <2>h, <2>q DEF SeqInv, ReplyInv, Disturbed, NoFrames,
         NoOuts, Acked
    <3>3. (~Disturbed /\ apc \in {"rendering", "filling"} =>
           \A i \in 1 .. Len(fromInner) : fromInner[i].kind = "out" =>
             i = Len(fromInner) /\ fromInner[i].image = call.id /\ toInner = <<>>)'
      BY <1>f, <1>n, Facts, Alone, <2>u, <2>h, <2>q DEF SeqInv, ReplyInv, Disturbed, NoFrames,
         NoOuts, Acked
    <3>4. (~Disturbed /\ apc \in {"rendering", "filling"} =>
           \A i \in 1 .. Len(toInner) : toInner[i].kind = "frame" => toInner[i].image = call.id)'
      BY <1>f, <1>n, Facts, Alone, <2>u, <2>h, <2>q DEF SeqInv, ReplyInv, Disturbed, NoFrames,
         NoOuts, Acked
    <3>5. (~Disturbed /\ apc = "filling" => fromInner # <<>> /\ fromInner[1].kind = "out")'
      BY <1>f, <1>n, Facts, Alone, <2>u, <2>h, <2>q DEF SeqInv, ReplyInv, Disturbed, NoFrames,
         NoOuts, Acked
    <3>6. (~Disturbed /\ apc = "answering" /\ taken.mode = 0 /\ taken.ok => outBuf = call.id)'
      BY <1>f, <1>n, Facts, Alone, <2>u, <2>h, <2>q DEF SeqInv, ReplyInv, Disturbed, NoFrames,
         NoOuts, Acked
    <3>7. (~Disturbed /\ pc = "waiting" /\ call.kind = "frame" /\ Acked /\ ctl.ok => outBuf = call.id)'
      BY <1>f, <1>n, Facts, Alone, <2>u, <2>h, <2>q DEF SeqInv, ReplyInv, Disturbed, NoFrames,
         NoOuts, Acked
    <3>8. (~Disturbed /\ pc = "reading" => outBuf = call.id)'
      BY <1>f, <1>n, Facts, Alone, <2>u, <2>h, <2>q DEF SeqInv, ReplyInv, Disturbed, NoFrames,
         NoOuts, Acked
    <3>9. (~Disturbed /\ pc # "waiting" => ctl.ack_seq = seq)'
      BY <1>f, <1>n, Facts, Alone, <2>u, <2>h, <2>q DEF SeqInv, ReplyInv, Disturbed, NoFrames,
         NoOuts, Acked
    <3> QED
      BY <3>1, <3>2, <3>3, <3>4, <3>5, <3>6, <3>7, <3>8, <3>9 DEF ReplyInv
  <2> QED
    BY <2>1, <2>2, <2>3, <2>4, <2>5 DEF Agreed
<1>4. CASE EndCopy
  <2>u. UNCHANGED <<ctl, outBuf, seq, size, out, call, timeouts, returned, apc, next, cur, taken,
                    toInner, fromInner, inner, rejects>>
    BY <1>4 DEF EndCopy
  <2>h. pc = "copying" /\ pc' = "publish" /\ inBuf' = [image |-> call.id, size |-> call.size]
    BY <1>4 DEF EndCopy
  <2>1. StartInv'
    BY <1>f, <1>n, Facts, Alone, <2>u, <2>h, SMTT(30) DEF SeqInv, StartInv, Unstarted, CallInv, InConstructor, Serving,
       primed
  <2>2. CallInv'
    BY <1>f, <1>n, Facts, Alone, <2>u, <2>h DEF SeqInv, CallInv, InConstructor
  <2>3. SizesInv'
    BY <1>f, <1>n, Facts, Alone, <2>u, <2>h DEF SeqInv, SizesInv, Disturbed, Serving, Acked
  <2>4. PipeInv'
    BY <2>u, Untouched
  <2>5. ReplyInv'
    BY <1>f, <1>n, Facts, Alone, <2>u, <2>h DEF SeqInv, ReplyInv, Disturbed, NoFrames, NoOuts, Acked
  <2> QED
    BY <2>1, <2>2, <2>3, <2>4, <2>5 DEF Agreed
<1>5. CASE BeginReconfigure
  <2>u. UNCHANGED <<ctl, inBuf, outBuf, seq, size, out, timeouts, returned, apc, next, cur, taken,
                    toInner, fromInner, inner, rejects>>
    BY <1>5 DEF BeginReconfigure, Call
  <2>h. /\ pc = "idle"
        /\ \E s \in Sizes : /\ call' = [kind |-> "configure", id |-> call.id + 1, size |-> s]
                         /\ pc' = IF s <= Ceiling THEN "fields" ELSE "idle"
    BY <1>5 DEF BeginReconfigure, Call
  <2>q. ~Disturbed' => apc \notin {"rendering", "filling", "answering"}
    BY <1>f, Alone, <2>u, <2>h DEF Disturbed, Serving
  <2>1. StartInv'
    <3>1. (ctl.size <= Ceiling)'
      BY <1>f, <1>n, Facts, Alone, <2>u, <2>h, <2>q DEF SeqInv, StartInv, Unstarted, CallInv, InConstructor,
         Serving, primed
    <3>2. (pc \in {"starting", "fields"} => call.size <= Ceiling)'
      BY <1>f, <1>n, Facts, Alone, <2>u, <2>h, <2>q DEF SeqInv, StartInv, Unstarted, CallInv, InConstructor,
         Serving, primed
    <3>3. (ctl.req_seq # 0 \/ pc = "publish" => ctl.size # 0)'
      BY <1>f, <1>n, Facts, Alone, <2>u, <2>h, <2>q DEF SeqInv, StartInv, Unstarted, CallInv, InConstructor,
         Serving, primed
    <3>4. (ctl.req_mode = 0 /\ ctl.req_seq # 0 => seq # 0)'
      BY <1>f, <1>n, Facts, Alone, <2>u, <2>h, <2>q DEF SeqInv, StartInv, Unstarted, CallInv, InConstructor,
         Serving, primed
    <3>5. (~InConstructor \/ pc = "idle" => seq # 0 /\ size # 0)'
      BY <1>f, <1>n, Facts, Alone, <2>u, <2>h, <2>q DEF SeqInv, StartInv, Unstarted, CallInv, InConstructor,
         Serving, primed
    <3>6. (ctl.ack_seq # 0 \/ Serving => primed \/ Unstarted)'
      BY <1>f, <1>n, Facts, Alone, <2>u, <2>h, <2>q DEF SeqInv, StartInv, Unstarted, CallInv, InConstructor,
         Serving, primed
    <3>7. (~primed => inner.up = "none" \/ Unstarted)'
      BY <1>f, <1>n, Facts, Alone, <2>u, <2>h, <2>q DEF SeqInv, StartInv, Unstarted, CallInv, InConstructor,
         Serving, primed
    <3>8. (apc = "resizing" => taken.size # 0)'
      BY <1>f, <1>n, Facts, Alone, <2>u, <2>h, <2>q DEF SeqInv, StartInv, Unstarted, CallInv, InConstructor,
         Serving, primed
    <3>9. (ctl.req_seq # 0 /\ ctl.ack_seq = 0 => pc \in {"waiting", "lost"})'
      BY <1>f, <1>n, Facts, Alone, <2>u, <2>h, <2>q DEF SeqInv, StartInv, Unstarted, CallInv, InConstructor,
         Serving, primed
    <3> QED
      BY <3>1, <3>2, <3>3, <3>4, <3>5, <3>6, <3>7, <3>8, <3>9 DEF StartInv
  <2>2. CallInv'
    BY <1>f, <1>n, Facts, Alone, <2>u, <2>h, <2>q DEF SeqInv, CallInv, InConstructor
  <2>3. SizesInv'
    BY <1>f, <1>n, Facts, Alone, <2>u, <2>h, <2>q DEF SeqInv, SizesInv, Disturbed, Serving, Acked
  <2>4. PipeInv'
    BY <2>u, Untouched
  <2>5. ReplyInv'
    <3>1. (~Disturbed => \A i \in 1 .. Len(fromInner) : fromInner[i].kind = "ack" => fromInner[i].ok)'
      BY <1>f, <1>n, Facts, Alone, <2>u, <2>h, <2>q DEF SeqInv, ReplyInv, Disturbed, NoFrames,
         NoOuts, Acked
    <3>2. (~Disturbed /\ apc \notin {"rendering", "filling", "dead"} => NoOuts)'
      BY <1>f, <1>n, Facts, Alone, <2>u, <2>h, <2>q DEF SeqInv, ReplyInv, Disturbed, NoFrames,
         NoOuts, Acked
    <3>3. (~Disturbed /\ apc \in {"rendering", "filling"} =>
           \A i \in 1 .. Len(fromInner) : fromInner[i].kind = "out" =>
             i = Len(fromInner) /\ fromInner[i].image = call.id /\ toInner = <<>>)'
      BY <1>f, <1>n, Facts, Alone, <2>u, <2>h, <2>q DEF SeqInv, ReplyInv, Disturbed, NoFrames,
         NoOuts, Acked
    <3>4. (~Disturbed /\ apc \in {"rendering", "filling"} =>
           \A i \in 1 .. Len(toInner) : toInner[i].kind = "frame" => toInner[i].image = call.id)'
      BY <1>f, <1>n, Facts, Alone, <2>u, <2>h, <2>q DEF SeqInv, ReplyInv, Disturbed, NoFrames,
         NoOuts, Acked
    <3>5. (~Disturbed /\ apc = "filling" => fromInner # <<>> /\ fromInner[1].kind = "out")'
      BY <1>f, <1>n, Facts, Alone, <2>u, <2>h, <2>q DEF SeqInv, ReplyInv, Disturbed, NoFrames,
         NoOuts, Acked
    <3>6. (~Disturbed /\ apc = "answering" /\ taken.mode = 0 /\ taken.ok => outBuf = call.id)'
      BY <1>f, <1>n, Facts, Alone, <2>u, <2>h, <2>q DEF SeqInv, ReplyInv, Disturbed, NoFrames,
         NoOuts, Acked
    <3>7. (~Disturbed /\ pc = "waiting" /\ call.kind = "frame" /\ Acked /\ ctl.ok => outBuf = call.id)'
      BY <1>f, <1>n, Facts, Alone, <2>u, <2>h, <2>q DEF SeqInv, ReplyInv, Disturbed, NoFrames,
         NoOuts, Acked
    <3>8. (~Disturbed /\ pc = "reading" => outBuf = call.id)'
      BY <1>f, <1>n, Facts, Alone, <2>u, <2>h, <2>q DEF SeqInv, ReplyInv, Disturbed, NoFrames,
         NoOuts, Acked
    <3>9. (~Disturbed /\ pc # "waiting" => ctl.ack_seq = seq)'
      BY <1>f, <1>n, Facts, Alone, <2>u, <2>h, <2>q DEF SeqInv, ReplyInv, Disturbed, NoFrames,
         NoOuts, Acked
    <3> QED
      BY <3>1, <3>2, <3>3, <3>4, <3>5, <3>6, <3>7, <3>8, <3>9 DEF ReplyInv
  <2> QED
    BY <2>1, <2>2, <2>3, <2>4, <2>5 DEF Agreed
<1>6. CASE WriteFields
  <2>u. UNCHANGED <<inBuf, outBuf, seq, size, out, call, timeouts, returned, apc, next, cur, taken,
                    toInner, fromInner, inner, rejects>>
    BY <1>6 DEF WriteFields
  <2>h. pc = "fields" /\ pc' = "publish"
    BY <1>6 DEF WriteFields
  <2>w. /\ ctl'.size = call.size
        /\ ctl'.req_seq = ctl.req_seq /\ ctl'.req_mode = ctl.req_mode
        /\ ctl'.ack_seq = ctl.ack_seq /\ ctl'.ok = ctl.ok /\ ctl'.out = ctl.out
    BY <1>f, <1>6, Words DEF SameWords
  <2>1. StartInv'
    <3>1. (ctl.size <= Ceiling)'
      BY <1>f, <1>n, Facts, Alone, <2>u, <2>h, <2>w DEF SeqInv, StartInv, Unstarted, CallInv, InConstructor,
         Serving, primed
    <3>2. (pc \in {"starting", "fields"} => call.size <= Ceiling)'
      BY <1>f, <1>n, Facts, Alone, <2>u, <2>h, <2>w DEF SeqInv, StartInv, Unstarted, CallInv, InConstructor,
         Serving, primed
    <3>3. (ctl.req_seq # 0 \/ pc = "publish" => ctl.size # 0)'
      BY <1>f, <1>n, Facts, Alone, <2>u, <2>h, <2>w DEF SeqInv, StartInv, Unstarted, CallInv, InConstructor,
         Serving, primed
    <3>4. (ctl.req_mode = 0 /\ ctl.req_seq # 0 => seq # 0)'
      BY <1>f, <1>n, Facts, Alone, <2>u, <2>h, <2>w DEF SeqInv, StartInv, Unstarted, CallInv, InConstructor,
         Serving, primed
    <3>5. (~InConstructor \/ pc = "idle" => seq # 0 /\ size # 0)'
      BY <1>f, <1>n, Facts, Alone, <2>u, <2>h, <2>w DEF SeqInv, StartInv, Unstarted, CallInv, InConstructor,
         Serving, primed
    <3>6. (ctl.ack_seq # 0 \/ Serving => primed \/ Unstarted)'
      BY <1>f, <1>n, Facts, Alone, <2>u, <2>h, <2>w DEF SeqInv, StartInv, Unstarted, CallInv, InConstructor,
         Serving, primed
    <3>7. (~primed => inner.up = "none" \/ Unstarted)'
      BY <1>f, <1>n, Facts, Alone, <2>u, <2>h, <2>w DEF SeqInv, StartInv, Unstarted, CallInv, InConstructor,
         Serving, primed
    <3>8. (apc = "resizing" => taken.size # 0)'
      BY <1>f, <1>n, Facts, Alone, <2>u, <2>h, <2>w DEF SeqInv, StartInv, Unstarted, CallInv, InConstructor,
         Serving, primed
    <3>9. (ctl.req_seq # 0 /\ ctl.ack_seq = 0 => pc \in {"waiting", "lost"})'
      BY <1>f, <1>n, Facts, Alone, <2>u, <2>h, <2>w DEF SeqInv, StartInv, Unstarted, CallInv, InConstructor,
         Serving, primed
    <3> QED
      BY <3>1, <3>2, <3>3, <3>4, <3>5, <3>6, <3>7, <3>8, <3>9 DEF StartInv
  <2>2. CallInv'
    BY <1>f, <1>n, Facts, Alone, <2>u, <2>h, <2>w DEF SeqInv, CallInv, InConstructor
  <2>3. SizesInv'
    BY <1>f, <1>n, Facts, Alone, <2>u, <2>h, <2>w DEF SeqInv, SizesInv, Disturbed, Serving, Acked
  <2>4. PipeInv'
    BY <2>u, Untouched
  <2>5. ReplyInv'
    BY <1>f, <1>n, Facts, Alone, <2>u, <2>h, <2>w DEF SeqInv, ReplyInv, Disturbed, NoFrames,
       NoOuts, Acked
  <2> QED
    BY <2>1, <2>2, <2>3, <2>4, <2>5 DEF Agreed
<1>7. CASE Publish
  <2>u. UNCHANGED <<inBuf, outBuf, seq, size, out, call, timeouts, returned, apc, next, cur, taken,
                    toInner, fromInner, inner, rejects>>
    BY <1>7 DEF Publish
  <2>h. pc = "publish" /\ pc' = "waiting"
    BY <1>7 DEF Publish
  <2>w. /\ ctl'.req_mode = (IF call.kind = "configure" THEN 1 ELSE 0) /\ ctl'.req_seq = seq + 1
        /\ ctl'.size = ctl.size
        /\ ctl'.ack_seq = ctl.ack_seq /\ ctl'.ok = ctl.ok /\ ctl'.out = ctl.out
    BY <1>f, <1>7, Words DEF SameWords
  <2>1. StartInv'
    <3>1. (ctl.size <= Ceiling)'
      BY <1>f, <1>n, Facts, Alone, <2>u, <2>h, <2>w DEF SeqInv, StartInv, Unstarted, CallInv, InConstructor,
         Serving, primed
    <3>2. (pc \in {"starting", "fields"} => call.size <= Ceiling)'
      BY <1>f, <1>n, Facts, Alone, <2>u, <2>h, <2>w DEF SeqInv, StartInv, Unstarted, CallInv, InConstructor,
         Serving, primed
    <3>3. (ctl.req_seq # 0 \/ pc = "publish" => ctl.size # 0)'
      BY <1>f, <1>n, Facts, Alone, <2>u, <2>h, <2>w DEF SeqInv, StartInv, Unstarted, CallInv, InConstructor,
         Serving, primed
    <3>4. (ctl.req_mode = 0 /\ ctl.req_seq # 0 => seq # 0)'
      BY <1>f, <1>n, Facts, Alone, <2>u, <2>h, <2>w DEF SeqInv, StartInv, Unstarted, CallInv, InConstructor,
         Serving, primed
    <3>5. (~InConstructor \/ pc = "idle" => seq # 0 /\ size # 0)'
      BY <1>f, <1>n, Facts, Alone, <2>u, <2>h, <2>w DEF SeqInv, StartInv, Unstarted, CallInv, InConstructor,
         Serving, primed
    <3>6. (ctl.ack_seq # 0 \/ Serving => primed \/ Unstarted)'
      BY <1>f, <1>n, Facts, Alone, <2>u, <2>h, <2>w DEF SeqInv, StartInv, Unstarted, CallInv, InConstructor,
         Serving, primed
    <3>7. (~primed => inner.up = "none" \/ Unstarted)'
      BY <1>f, <1>n, Facts, Alone, <2>u, <2>h, <2>w DEF SeqInv, StartInv, Unstarted, CallInv, InConstructor,
         Serving, primed
    <3>8. (apc = "resizing" => taken.size # 0)'
      BY <1>f, <1>n, Facts, Alone, <2>u, <2>h, <2>w DEF SeqInv, StartInv, Unstarted, CallInv, InConstructor,
         Serving, primed
    <3>9. (ctl.req_seq # 0 /\ ctl.ack_seq = 0 => pc \in {"waiting", "lost"})'
      BY <1>f, <1>n, Facts, Alone, <2>u, <2>h, <2>w DEF SeqInv, StartInv, Unstarted, CallInv, InConstructor,
         Serving, primed
    <3> QED
      BY <3>1, <3>2, <3>3, <3>4, <3>5, <3>6, <3>7, <3>8, <3>9 DEF StartInv
  <2>2. CallInv'
    BY <1>f, <1>n, Facts, Alone, <2>u, <2>h, <2>w DEF SeqInv, CallInv, InConstructor
  <2>3. SizesInv'
    BY <1>f, <1>n, Facts, Alone, <2>u, <2>h, <2>w DEF SeqInv, SizesInv, Disturbed, Serving, Acked
  <2>4. PipeInv'
    BY <2>u, Untouched
  <2>5. ReplyInv'
    <3>1. (~Disturbed => \A i \in 1 .. Len(fromInner) : fromInner[i].kind = "ack" => fromInner[i].ok)'
      BY <1>f, <1>n, Facts, Alone, <2>u, <2>h, <2>w DEF SeqInv, ReplyInv, Disturbed, NoFrames,
         NoOuts, Acked
    <3>2. (~Disturbed /\ apc \notin {"rendering", "filling", "dead"} => NoOuts)'
      BY <1>f, <1>n, Facts, Alone, <2>u, <2>h, <2>w DEF SeqInv, ReplyInv, Disturbed, NoFrames,
         NoOuts, Acked
    <3>3. (~Disturbed /\ apc \in {"rendering", "filling"} =>
           \A i \in 1 .. Len(fromInner) : fromInner[i].kind = "out" =>
             i = Len(fromInner) /\ fromInner[i].image = call.id /\ toInner = <<>>)'
      BY <1>f, <1>n, Facts, Alone, <2>u, <2>h, <2>w DEF SeqInv, ReplyInv, Disturbed, NoFrames,
         NoOuts, Acked
    <3>4. (~Disturbed /\ apc \in {"rendering", "filling"} =>
           \A i \in 1 .. Len(toInner) : toInner[i].kind = "frame" => toInner[i].image = call.id)'
      BY <1>f, <1>n, Facts, Alone, <2>u, <2>h, <2>w DEF SeqInv, ReplyInv, Disturbed, NoFrames,
         NoOuts, Acked
    <3>5. (~Disturbed /\ apc = "filling" => fromInner # <<>> /\ fromInner[1].kind = "out")'
      BY <1>f, <1>n, Facts, Alone, <2>u, <2>h, <2>w DEF SeqInv, ReplyInv, Disturbed, NoFrames,
         NoOuts, Acked
    <3>6. (~Disturbed /\ apc = "answering" /\ taken.mode = 0 /\ taken.ok => outBuf = call.id)'
      BY <1>f, <1>n, Facts, Alone, <2>u, <2>h, <2>w DEF SeqInv, ReplyInv, Disturbed, NoFrames,
         NoOuts, Acked
    <3>7. (~Disturbed /\ pc = "waiting" /\ call.kind = "frame" /\ Acked /\ ctl.ok => outBuf = call.id)'
      BY <1>f, <1>n, Facts, Alone, <2>u, <2>h, <2>w DEF SeqInv, ReplyInv, Disturbed, NoFrames,
         NoOuts, Acked
    <3>8. (~Disturbed /\ pc = "reading" => outBuf = call.id)'
      BY <1>f, <1>n, Facts, Alone, <2>u, <2>h, <2>w DEF SeqInv, ReplyInv, Disturbed, NoFrames,
         NoOuts, Acked
    <3>9. (~Disturbed /\ pc # "waiting" => ctl.ack_seq = seq)'
      BY <1>f, <1>n, Facts, Alone, <2>u, <2>h, <2>w DEF SeqInv, ReplyInv, Disturbed, NoFrames,
         NoOuts, Acked
    <3> QED
      BY <3>1, <3>2, <3>3, <3>4, <3>5, <3>6, <3>7, <3>8, <3>9 DEF ReplyInv
  <2> QED
    BY <2>1, <2>2, <2>3, <2>4, <2>5 DEF Agreed
<1>8. CASE Reconfigured
  <2>u. UNCHANGED <<ctl, inBuf, outBuf, call, timeouts, apc, next, cur, taken, toInner, fromInner,
                    inner, rejects>>
    BY <1>8 DEF Reconfigured
  <2>h. /\ pc = "waiting" /\ pc' = "idle" /\ call.kind = "configure" /\ Acked /\ ctl.ok
        /\ seq' = seq + 1 /\ size' = call.size /\ out' = ctl.out
    BY <1>8 DEF Reconfigured
  <2>1. StartInv'
    <3>1. (ctl.size <= Ceiling)'
      BY <1>f, <1>n, Facts, Alone, <2>u, <2>h DEF SeqInv, StartInv, Unstarted, CallInv, InConstructor,
         Serving, primed, Acked
    <3>2. (pc \in {"starting", "fields"} => call.size <= Ceiling)'
      BY <1>f, <1>n, Facts, Alone, <2>u, <2>h DEF SeqInv, StartInv, Unstarted, CallInv, InConstructor,
         Serving, primed, Acked
    <3>3. (ctl.req_seq # 0 \/ pc = "publish" => ctl.size # 0)'
      BY <1>f, <1>n, Facts, Alone, <2>u, <2>h DEF SeqInv, StartInv, Unstarted, CallInv, InConstructor,
         Serving, primed, Acked
    <3>4. (ctl.req_mode = 0 /\ ctl.req_seq # 0 => seq # 0)'
      BY <1>f, <1>n, Facts, Alone, <2>u, <2>h DEF SeqInv, StartInv, Unstarted, CallInv, InConstructor,
         Serving, primed, Acked
    <3>5. (~InConstructor \/ pc = "idle" => seq # 0 /\ size # 0)'
      BY <1>f, <1>n, Facts, Alone, <2>u, <2>h DEF SeqInv, StartInv, Unstarted, CallInv, InConstructor,
         Serving, primed, Acked
    <3>6. (ctl.ack_seq # 0 \/ Serving => primed \/ Unstarted)'
      BY <1>f, <1>n, Facts, Alone, <2>u, <2>h DEF SeqInv, StartInv, Unstarted, CallInv, InConstructor,
         Serving, primed, Acked
    <3>7. (~primed => inner.up = "none" \/ Unstarted)'
      BY <1>f, <1>n, Facts, Alone, <2>u, <2>h DEF SeqInv, StartInv, Unstarted, CallInv, InConstructor,
         Serving, primed, Acked
    <3>8. (apc = "resizing" => taken.size # 0)'
      BY <1>f, <1>n, Facts, Alone, <2>u, <2>h DEF SeqInv, StartInv, Unstarted, CallInv, InConstructor,
         Serving, primed, Acked
    <3>9. (ctl.req_seq # 0 /\ ctl.ack_seq = 0 => pc \in {"waiting", "lost"})'
      BY <1>f, <1>n, Facts, Alone, <2>u, <2>h DEF SeqInv, StartInv, Unstarted, CallInv, InConstructor,
         Serving, primed, Acked
    <3> QED
      BY <3>1, <3>2, <3>3, <3>4, <3>5, <3>6, <3>7, <3>8, <3>9 DEF StartInv
  <2>2. CallInv'
    BY <1>f, <1>n, Facts, Alone, <2>u, <2>h DEF SeqInv, CallInv, InConstructor
  <2>3. SizesInv'
    BY <1>f, <1>n, Facts, Alone, <2>u, <2>h DEF SeqInv, SizesInv, Disturbed, Serving, Acked
  <2>4. PipeInv'
    BY <2>u, Untouched
  <2>5. ReplyInv'
    BY <1>f, <1>n, Facts, Alone, <2>u, <2>h DEF SeqInv, ReplyInv, Disturbed, NoFrames, NoOuts, Acked
  <2> QED
    BY <2>1, <2>2, <2>3, <2>4, <2>5 DEF Agreed
<1>9. CASE Refused
  <2>u. UNCHANGED <<ctl, inBuf, outBuf, size, out, call, timeouts, apc, next, cur, taken, toInner,
                    fromInner, inner, rejects>>
    BY <1>9 DEF Refused
  <2>h. /\ pc = "waiting" /\ Acked /\ ~ctl.ok /\ seq' = seq + 1
        /\ pc' \in {"idle", "lost", "gone"} /\ (InConstructor /\ call.kind # "frame" => pc' = "lost")
    BY <1>9 DEF Refused, AfterFailure
  <2>1. StartInv'
    <3>1. (ctl.size <= Ceiling)'
      BY <1>f, <1>n, Facts, Alone, <2>u, <2>h DEF SeqInv, StartInv, Unstarted, CallInv, InConstructor,
         Serving, primed
    <3>2. (pc \in {"starting", "fields"} => call.size <= Ceiling)'
      BY <1>f, <1>n, Facts, Alone, <2>u, <2>h DEF SeqInv, StartInv, Unstarted, CallInv, InConstructor,
         Serving, primed
    <3>3. (ctl.req_seq # 0 \/ pc = "publish" => ctl.size # 0)'
      BY <1>f, <1>n, Facts, Alone, <2>u, <2>h DEF SeqInv, StartInv, Unstarted, CallInv, InConstructor,
         Serving, primed
    <3>4. (ctl.req_mode = 0 /\ ctl.req_seq # 0 => seq # 0)'
      BY <1>f, <1>n, Facts, Alone, <2>u, <2>h DEF SeqInv, StartInv, Unstarted, CallInv, InConstructor,
         Serving, primed
    <3>5. (~InConstructor \/ pc = "idle" => seq # 0 /\ size # 0)'
      BY <1>f, <1>n, Facts, Alone, <2>u, <2>h DEF SeqInv, StartInv, Unstarted, CallInv, InConstructor,
         Serving, primed
    <3>6. (ctl.ack_seq # 0 \/ Serving => primed \/ Unstarted)'
      BY <1>f, <1>n, Facts, Alone, <2>u, <2>h DEF SeqInv, StartInv, Unstarted, CallInv, InConstructor,
         Serving, primed
    <3>7. (~primed => inner.up = "none" \/ Unstarted)'
      BY <1>f, <1>n, Facts, Alone, <2>u, <2>h DEF SeqInv, StartInv, Unstarted, CallInv, InConstructor,
         Serving, primed
    <3>8. (apc = "resizing" => taken.size # 0)'
      BY <1>f, <1>n, Facts, Alone, <2>u, <2>h DEF SeqInv, StartInv, Unstarted, CallInv, InConstructor,
         Serving, primed
    <3>9. (ctl.req_seq # 0 /\ ctl.ack_seq = 0 => pc \in {"waiting", "lost"})'
      BY <1>f, <1>n, Facts, Alone, <2>u, <2>h DEF SeqInv, StartInv, Unstarted, CallInv, InConstructor,
         Serving, primed
    <3> QED
      BY <3>1, <3>2, <3>3, <3>4, <3>5, <3>6, <3>7, <3>8, <3>9 DEF StartInv
  <2>2. CallInv'
    BY <1>f, <1>n, Facts, Alone, <2>u, <2>h DEF SeqInv, CallInv, InConstructor
  <2>3. SizesInv'
    BY <1>f, <1>n, Facts, Alone, <2>u, <2>h DEF SeqInv, SizesInv, Disturbed, Serving, Acked
  <2>4. PipeInv'
    BY <2>u, Untouched
  <2>5. ReplyInv'
    BY <1>f, <1>n, Facts, Alone, <2>u, <2>h DEF SeqInv, ReplyInv, Disturbed, NoFrames, NoOuts, Acked
  <2> QED
    BY <2>1, <2>2, <2>3, <2>4, <2>5 DEF Agreed
<1>10. CASE FrameAcked
  <2>u. UNCHANGED <<ctl, inBuf, outBuf, size, out, call, timeouts, returned, apc, next, cur, taken,
                    toInner, fromInner, inner, rejects>>
    BY <1>10 DEF FrameAcked
  <2>h. pc = "waiting" /\ pc' = "reading" /\ call.kind = "frame" /\ Acked /\ ctl.ok /\ seq' = seq + 1
    BY <1>10 DEF FrameAcked
  <2>1. StartInv'
    <3>1. (ctl.size <= Ceiling)'
      BY <1>f, <1>n, Facts, Alone, <2>u, <2>h DEF SeqInv, StartInv, Unstarted, CallInv, InConstructor,
         Serving, primed
    <3>2. (pc \in {"starting", "fields"} => call.size <= Ceiling)'
      BY <1>f, <1>n, Facts, Alone, <2>u, <2>h DEF SeqInv, StartInv, Unstarted, CallInv, InConstructor,
         Serving, primed
    <3>3. (ctl.req_seq # 0 \/ pc = "publish" => ctl.size # 0)'
      BY <1>f, <1>n, Facts, Alone, <2>u, <2>h DEF SeqInv, StartInv, Unstarted, CallInv, InConstructor,
         Serving, primed
    <3>4. (ctl.req_mode = 0 /\ ctl.req_seq # 0 => seq # 0)'
      BY <1>f, <1>n, Facts, Alone, <2>u, <2>h DEF SeqInv, StartInv, Unstarted, CallInv, InConstructor,
         Serving, primed
    <3>5. (~InConstructor \/ pc = "idle" => seq # 0 /\ size # 0)'
      BY <1>f, <1>n, Facts, Alone, <2>u, <2>h DEF SeqInv, StartInv, Unstarted, CallInv, InConstructor,
         Serving, primed
    <3>6. (ctl.ack_seq # 0 \/ Serving => primed \/ Unstarted)'
      BY <1>f, <1>n, Facts, Alone, <2>u, <2>h DEF SeqInv, StartInv, Unstarted, CallInv, InConstructor,
         Serving, primed
    <3>7. (~primed => inner.up = "none" \/ Unstarted)'
      BY <1>f, <1>n, Facts, Alone, <2>u, <2>h DEF SeqInv, StartInv, Unstarted, CallInv, InConstructor,
         Serving, primed
    <3>8. (apc = "resizing" => taken.size # 0)'
      BY <1>f, <1>n, Facts, Alone, <2>u, <2>h DEF SeqInv, StartInv, Unstarted, CallInv, InConstructor,
         Serving, primed
    <3>9. (ctl.req_seq # 0 /\ ctl.ack_seq = 0 => pc \in {"waiting", "lost"})'
      BY <1>f, <1>n, Facts, Alone, <2>u, <2>h DEF SeqInv, StartInv, Unstarted, CallInv, InConstructor,
         Serving, primed
    <3> QED
      BY <3>1, <3>2, <3>3, <3>4, <3>5, <3>6, <3>7, <3>8, <3>9 DEF StartInv
  <2>2. CallInv'
    BY <1>f, <1>n, Facts, Alone, <2>u, <2>h DEF SeqInv, CallInv, InConstructor
  <2>3. SizesInv'
    BY <1>f, <1>n, Facts, Alone, <2>u, <2>h DEF SeqInv, SizesInv, Disturbed, Serving, Acked
  <2>4. PipeInv'
    BY <2>u, Untouched
  <2>5. ReplyInv'
    BY <1>f, <1>n, Facts, Alone, <2>u, <2>h DEF SeqInv, ReplyInv, Disturbed, NoFrames, NoOuts, Acked
  <2> QED
    BY <2>1, <2>2, <2>3, <2>4, <2>5 DEF Agreed
<1>11. CASE ReadOut
  <2>u. UNCHANGED <<ctl, inBuf, outBuf, seq, size, out, call, timeouts, apc, next, cur, taken,
                    toInner, fromInner, inner, rejects>>
    BY <1>11 DEF ReadOut
  <2>h. pc = "reading" /\ pc' = "idle"
    BY <1>11 DEF ReadOut
  <2>1. StartInv'
    BY <1>f, <1>n, Facts, Alone, <2>u, <2>h DEF SeqInv, StartInv, Unstarted, CallInv, InConstructor, Serving,
       primed
  <2>2. CallInv'
    BY <1>f, <1>n, Facts, Alone, <2>u, <2>h DEF SeqInv, CallInv, InConstructor
  <2>3. SizesInv'
    BY <1>f, <1>n, Facts, Alone, <2>u, <2>h DEF SeqInv, SizesInv, Disturbed, Serving, Acked
  <2>4. PipeInv'
    BY <2>u, Untouched
  <2>5. ReplyInv'
    BY <1>f, <1>n, Facts, Alone, <2>u, <2>h DEF SeqInv, ReplyInv, Disturbed, NoFrames, NoOuts, Acked
  <2> QED
    BY <2>1, <2>2, <2>3, <2>4, <2>5 DEF Agreed
<1>12. CASE TimeOut
  <2>u. UNCHANGED <<ctl, inBuf, outBuf, seq, size, out, call, returned, apc, next, cur, taken,
                    toInner, fromInner, inner, rejects>>
    BY <1>12 DEF TimeOut, Raise
  <2>h. /\ pc = "waiting" /\ ~Acked /\ timeouts' = timeouts + 1
        /\ pc' \in {"idle", "lost", "gone"} /\ (InConstructor => pc' = "lost")
    BY <1>12 DEF TimeOut, Raise, AfterFailure
  <2>1. StartInv'
    <3>1. (ctl.size <= Ceiling)'
      BY <1>f, <1>n, Facts, Alone, <2>u, <2>h DEF SeqInv, StartInv, Unstarted, CallInv, InConstructor,
         Serving, primed
    <3>2. (pc \in {"starting", "fields"} => call.size <= Ceiling)'
      BY <1>f, <1>n, Facts, Alone, <2>u, <2>h DEF SeqInv, StartInv, Unstarted, CallInv, InConstructor,
         Serving, primed
    <3>3. (ctl.req_seq # 0 \/ pc = "publish" => ctl.size # 0)'
      BY <1>f, <1>n, Facts, Alone, <2>u, <2>h DEF SeqInv, StartInv, Unstarted, CallInv, InConstructor,
         Serving, primed
    <3>4. (ctl.req_mode = 0 /\ ctl.req_seq # 0 => seq # 0)'
      BY <1>f, <1>n, Facts, Alone, <2>u, <2>h DEF SeqInv, StartInv, Unstarted, CallInv, InConstructor,
         Serving, primed
    <3>5. (~InConstructor \/ pc = "idle" => seq # 0 /\ size # 0)'
      BY <1>f, <1>n, Facts, Alone, <2>u, <2>h DEF SeqInv, StartInv, Unstarted, CallInv, InConstructor,
         Serving, primed
    <3>6. (ctl.ack_seq # 0 \/ Serving => primed \/ Unstarted)'
      BY <1>f, <1>n, Facts, Alone, <2>u, <2>h DEF SeqInv, StartInv, Unstarted, CallInv, InConstructor,
         Serving, primed
    <3>7. (~primed => inner.up = "none" \/ Unstarted)'
      BY <1>f, <1>n, Facts, Alone, <2>u, <2>h DEF SeqInv, StartInv, Unstarted, CallInv, InConstructor,
         Serving, primed
    <3>8. (apc = "resizing" => taken.size # 0)'
      BY <1>f, <1>n, Facts, Alone, <2>u, <2>h DEF SeqInv, StartInv, Unstarted, CallInv, InConstructor,
         Serving, primed
    <3>9. (ctl.req_seq # 0 /\ ctl.ack_seq = 0 => pc \in {"waiting", "lost"})'
      BY <1>f, <1>n, Facts, Alone, <2>u, <2>h DEF SeqInv, StartInv, Unstarted, CallInv, InConstructor,
         Serving, primed
    <3> QED
      BY <3>1, <3>2, <3>3, <3>4, <3>5, <3>6, <3>7, <3>8, <3>9 DEF StartInv
  <2>2. CallInv'
    BY <1>f, <1>n, Facts, Alone, <2>u, <2>h DEF SeqInv, CallInv, InConstructor
  <2>3. SizesInv'
    BY <1>f, <1>n, Facts, Alone, <2>u, <2>h DEF SeqInv, SizesInv, Disturbed, Serving, Acked
  <2>4. PipeInv'
    BY <1>f, <1>n, Facts, Alone, <2>u, <2>h DEF SeqInv, PipeInv, Disturbed, NoFrames, LeftAt
  <2>5. ReplyInv'
    BY <1>f, <1>n, Facts, Alone, <2>u, <2>h DEF SeqInv, ReplyInv, Disturbed, NoFrames, NoOuts, Acked
  <2> QED
    BY <2>1, <2>2, <2>3, <2>4, <2>5 DEF Agreed
<1>13. CASE FoundDead
  <2>u. UNCHANGED <<ctl, inBuf, outBuf, seq, size, out, call, timeouts, returned, apc, next, cur,
                    taken, toInner, fromInner, inner, rejects>>
    BY <1>13 DEF FoundDead, Raise
  <2>h. /\ pc = "waiting" /\ ~Acked /\ apc = "dead"
        /\ pc' \in {"idle", "lost", "gone"} /\ (InConstructor => pc' = "lost")
    BY <1>13 DEF FoundDead, Raise, AfterFailure
  <2>1. StartInv'
    <3>1. (ctl.size <= Ceiling)'
      BY <1>f, <1>n, Facts, Alone, <2>u, <2>h DEF SeqInv, StartInv, Unstarted, CallInv, InConstructor,
         Serving, primed
    <3>2. (pc \in {"starting", "fields"} => call.size <= Ceiling)'
      BY <1>f, <1>n, Facts, Alone, <2>u, <2>h DEF SeqInv, StartInv, Unstarted, CallInv, InConstructor,
         Serving, primed
    <3>3. (ctl.req_seq # 0 \/ pc = "publish" => ctl.size # 0)'
      BY <1>f, <1>n, Facts, Alone, <2>u, <2>h DEF SeqInv, StartInv, Unstarted, CallInv, InConstructor,
         Serving, primed
    <3>4. (ctl.req_mode = 0 /\ ctl.req_seq # 0 => seq # 0)'
      BY <1>f, <1>n, Facts, Alone, <2>u, <2>h DEF SeqInv, StartInv, Unstarted, CallInv, InConstructor,
         Serving, primed
    <3>5. (~InConstructor \/ pc = "idle" => seq # 0 /\ size # 0)'
      BY <1>f, <1>n, Facts, Alone, <2>u, <2>h DEF SeqInv, StartInv, Unstarted, CallInv, InConstructor,
         Serving, primed
    <3>6. (ctl.ack_seq # 0 \/ Serving => primed \/ Unstarted)'
      BY <1>f, <1>n, Facts, Alone, <2>u, <2>h DEF SeqInv, StartInv, Unstarted, CallInv, InConstructor,
         Serving, primed
    <3>7. (~primed => inner.up = "none" \/ Unstarted)'
      BY <1>f, <1>n, Facts, Alone, <2>u, <2>h DEF SeqInv, StartInv, Unstarted, CallInv, InConstructor,
         Serving, primed
    <3>8. (apc = "resizing" => taken.size # 0)'
      BY <1>f, <1>n, Facts, Alone, <2>u, <2>h DEF SeqInv, StartInv, Unstarted, CallInv, InConstructor,
         Serving, primed
    <3>9. (ctl.req_seq # 0 /\ ctl.ack_seq = 0 => pc \in {"waiting", "lost"})'
      BY <1>f, <1>n, Facts, Alone, <2>u, <2>h DEF SeqInv, StartInv, Unstarted, CallInv, InConstructor,
         Serving, primed
    <3> QED
      BY <3>1, <3>2, <3>3, <3>4, <3>5, <3>6, <3>7, <3>8, <3>9 DEF StartInv
  <2>2. CallInv'
    BY <1>f, <1>n, Facts, Alone, <2>u, <2>h DEF SeqInv, CallInv, InConstructor
  <2>3. SizesInv'
    BY <1>f, <1>n, Facts, Alone, <2>u, <2>h DEF SeqInv, SizesInv, Disturbed, Serving, Acked
  <2>4. PipeInv'
    BY <2>u, Untouched
  <2>5. ReplyInv'
    BY <1>f, <1>n, Facts, Alone, <2>u, <2>h DEF SeqInv, ReplyInv, Disturbed, NoFrames, NoOuts, Acked
  <2> QED
    BY <2>1, <2>2, <2>3, <2>4, <2>5 DEF Agreed
<1>14. CASE Close
  <2>u. UNCHANGED <<inBuf, outBuf, seq, size, out, call, timeouts, returned, apc, next, cur, taken,
                    toInner, fromInner, inner, rejects>>
    BY <1>14 DEF Close
  <2>h. pc \in {"idle", "gone"} /\ pc' = "closed"
    BY <1>14 DEF Close
  <2>w. /\ ctl'.req_seq = ctl.req_seq /\ ctl'.req_mode = ctl.req_mode /\ ctl'.size = ctl.size
        /\ ctl'.ack_seq = ctl.ack_seq /\ ctl'.ok = ctl.ok /\ ctl'.out = ctl.out
    BY <1>f, <1>14, Words DEF SameWords
  <2>1. StartInv'
    BY <1>f, <1>n, Facts, Alone, <2>u, <2>h, <2>w DEF SeqInv, StartInv, Unstarted, CallInv, InConstructor,
       Serving, primed
  <2>2. CallInv'
    BY <1>f, <1>n, Facts, Alone, <2>u, <2>h, <2>w DEF SeqInv, CallInv, InConstructor
  <2>3. SizesInv'
    BY <1>f, <1>n, Facts, Alone, <2>u, <2>h, <2>w DEF SeqInv, SizesInv, Disturbed, Serving, Acked
  <2>4. PipeInv'
    BY <2>u, Untouched
  <2>5. ReplyInv'
    BY <1>f, <1>n, Facts, Alone, <2>u, <2>h, <2>w DEF SeqInv, ReplyInv, Disturbed, NoFrames,
       NoOuts, Acked
  <2> QED
    BY <2>1, <2>2, <2>3, <2>4, <2>5 DEF Agreed
<1>15. CASE Kill
  <2>u. UNCHANGED <<ctl, inBuf, outBuf, pc, seq, size, out, call, timeouts, returned, next, cur,
                    taken, toInner, fromInner, inner, rejects>>
    BY <1>15 DEF Kill, client
  <2>h. pc = "closed" /\ apc' = "dead"
    BY <1>15 DEF Kill, client
  <2>1. StartInv'
    BY <1>f, <1>n, Facts, Alone, <2>u, <2>h DEF SeqInv, StartInv, Unstarted, CallInv, InConstructor, Serving,
       primed
  <2>2. CallInv'
    BY <1>f, <1>n, Facts, Alone, <2>u, <2>h DEF SeqInv, CallInv, InConstructor
  <2>3. SizesInv'
    BY <1>f, <1>n, Facts, Alone, <2>u, <2>h DEF SeqInv, SizesInv, Disturbed, Serving, Acked
  <2>4. PipeInv'
    BY <1>f, <1>n, Facts, Alone, <2>u, <2>h DEF SeqInv, PipeInv, Disturbed, NoFrames, LeftAt
  <2>5. ReplyInv'
    BY <1>f, <1>n, Facts, Alone, <2>u, <2>h DEF SeqInv, ReplyInv, Disturbed, NoFrames, NoOuts, Acked
  <2> QED
    BY <2>1, <2>2, <2>3, <2>4, <2>5 DEF Agreed
<1> QED
  BY <1>1, <1>2, <1>3, <1>4, <1>5, <1>6, <1>7, <1>8, <1>9, <1>10, <1>11, <1>12, <1>13, <1>14, <1>15
     DEF Client

\* A message put on a pipe, and one taken from it.
LEMMA PutOn ==
  ASSUME NEW S, NEW q \in Seq(S), NEW x \in S, NEW r, r = Append(q, x)
  PROVE  /\ r # <<>> /\ Len(r) = Len(q) + 1 /\ Len(q) \in Nat /\ r[Len(q) + 1] = x /\ r[Len(r)] = x
         /\ \A i \in 1 .. Len(q) : r[i] = q[i] /\ i \in 1 .. Len(r)
         /\ \A i \in 1 .. Len(r) : i \in 1 .. Len(q) \/ i = Len(q) + 1
<1>1. /\ Len(r) = Len(q) + 1 /\ r[Len(q) + 1] = x
      /\ \A i \in 1 .. Len(q) : r[i] = q[i]
  BY AppendProperties
<1>2. Len(q) \in Nat /\ r # <<>>
  BY AppendProperties
<1> QED
  BY <1>1, <1>2

LEMMA TakenFrom ==
  ASSUME NEW S, NEW q \in Seq(S), q # <<>>, NEW r, r = Tail(q)
  PROVE  /\ Head(q) = q[1] /\ q[1] \in S /\ Len(q) \in Nat /\ Len(r) = Len(q) - 1
         /\ 1 \in 1 .. Len(q) /\ (r = <<>> <=> Len(q) = 1) /\ (r # <<>> => r[Len(r)] = q[Len(q)])
         /\ \A i \in 1 .. Len(r) : r[i] = q[i + 1] /\ i + 1 \in 1 .. Len(q) /\ 1 < i + 1
<1>1. Len(q) \in Nat /\ Len(q) >= 1 /\ Head(q) = q[1]
  OBVIOUS
<1>2. /\ Head(q) \in S /\ r \in Seq(S) /\ Len(r) = Len(q) - 1
      /\ \A i \in 1 .. Len(r) : r[i] = q[i + 1]
  BY HeadTailProperties
<1>3. r = <<>> <=> Len(r) = 0
  BY <1>2
<1>4. r # <<>> => Len(r) \in 1 .. Len(r)
  BY <1>1, <1>2, <1>3
<1> QED
  BY <1>1, <1>2, <1>3, <1>4

\* The adapter's steps.
LEMMA AgreedAdapter == LinkInv /\ (Adapter \/ AdapterDies) => Agreed'
<1> SUFFICES ASSUME LinkInv, Adapter \/ AdapterDies PROVE Agreed'
  OBVIOUS
<1> USE DEF shared, client, pipes
<1>f. IInv /\ StartInv /\ CallInv /\ SizesInv /\ PipeInv /\ ReplyInv /\ SeqInv
  BY DEF LinkInv, Agreed, IInv
<1>n. \A n \in Sizes \cup {0} : n \in Nat
  OBVIOUS
<1>1. CASE AdapterReady
  <2>u. UNCHANGED <<inBuf, outBuf, pc, seq, size, out, call, timeouts, returned, next, cur, taken,
                    toInner, fromInner, inner, rejects>>
    BY <1>1 DEF AdapterReady, Requested
  <2>h. apc = "starting" /\ apc' = "polling"
    BY <1>1 DEF AdapterReady, Requested
  <2>w. /\ ctl'.req_seq = ctl.req_seq /\ ctl'.req_mode = ctl.req_mode /\ ctl'.size = ctl.size
        /\ ctl'.ack_seq = ctl.ack_seq /\ ctl'.ok = ctl.ok /\ ctl'.out = ctl.out
    BY <1>f, <1>1, Words DEF SameWords
  <2>1. StartInv'
    BY <1>f, <1>n, Facts, Alone, <2>u, <2>h, <2>w DEF SeqInv, StartInv, Unstarted, CallInv, InConstructor,
       Serving, primed
  <2>2. CallInv'
    BY <1>f, <1>n, Facts, Alone, <2>u, <2>h, <2>w DEF SeqInv, CallInv, InConstructor
  <2>3. SizesInv'
    BY <1>f, <1>n, Facts, Alone, <2>u, <2>h, <2>w DEF SeqInv, SizesInv, Disturbed, Serving, Acked,
       CallInv
  <2>4. PipeInv'
    <3>1. (~Disturbed /\ inner.up # "dead" => inner.up # "starved")'
      BY <1>f, <1>n, Facts, Alone, <2>u, <2>h, <2>w DEF SeqInv, PipeInv, Disturbed, NoFrames,
         LeftAt, SizesInv, StartInv, primed, Serving
    <3>2. (~Disturbed /\ inner.up # "dead" =>
           \A i \in 1 .. Len(toInner) : toInner[i].kind = "frame" =>
             /\ i = Len(toInner)
             /\ toInner[i].size = IF i = 1 THEN inner.size ELSE toInner[i - 1].size)'
      BY <1>f, <1>n, Facts, Alone, <2>u, <2>h, <2>w DEF SeqInv, PipeInv, Disturbed, NoFrames,
         LeftAt, SizesInv, StartInv, primed, Serving
    <3>3. (~Disturbed /\ inner.up # "dead" /\ apc # "dead" =>
           LeftAt = IF apc = "resizing" THEN taken.size ELSE cur)'
      BY <1>f, <1>n, Facts, Alone, <2>u, <2>h, <2>w DEF SeqInv, PipeInv, Disturbed, NoFrames,
         LeftAt, SizesInv, StartInv, primed, Serving
    <3>4. (~Disturbed /\ inner.up # "dead" /\ apc \notin {"rendering", "dead"} => NoFrames)'
      BY <1>f, <1>n, Facts, Alone, <2>u, <2>h, <2>w DEF SeqInv, PipeInv, Disturbed, NoFrames,
         LeftAt, SizesInv, StartInv, primed, Serving
    <3> QED
      BY <3>1, <3>2, <3>3, <3>4 DEF PipeInv
  <2>5. ReplyInv'
    <3>1. (~Disturbed => \A i \in 1 .. Len(fromInner) : fromInner[i].kind = "ack" => fromInner[i].ok)'
      BY <1>f, <1>n, Facts, Alone, <2>u, <2>h, <2>w DEF SeqInv, ReplyInv, Disturbed, NoFrames,
         NoOuts, Acked, SizesInv, CallInv, Serving
    <3>2. (~Disturbed /\ apc \notin {"rendering", "filling", "dead"} => NoOuts)'
      BY <1>f, <1>n, Facts, Alone, <2>u, <2>h, <2>w DEF SeqInv, ReplyInv, Disturbed, NoFrames,
         NoOuts, Acked, SizesInv, CallInv, Serving
    <3>3. (~Disturbed /\ apc \in {"rendering", "filling"} =>
           \A i \in 1 .. Len(fromInner) : fromInner[i].kind = "out" =>
             i = Len(fromInner) /\ fromInner[i].image = call.id /\ toInner = <<>>)'
      BY <1>f, <1>n, Facts, Alone, <2>u, <2>h, <2>w DEF SeqInv, ReplyInv, Disturbed, NoFrames,
         NoOuts, Acked, SizesInv, CallInv, Serving
    <3>4. (~Disturbed /\ apc \in {"rendering", "filling"} =>
           \A i \in 1 .. Len(toInner) : toInner[i].kind = "frame" => toInner[i].image = call.id)'
      BY <1>f, <1>n, Facts, Alone, <2>u, <2>h, <2>w DEF SeqInv, ReplyInv, Disturbed, NoFrames,
         NoOuts, Acked, SizesInv, CallInv, Serving
    <3>5. (~Disturbed /\ apc = "filling" => fromInner # <<>> /\ fromInner[1].kind = "out")'
      BY <1>f, <1>n, Facts, Alone, <2>u, <2>h, <2>w DEF SeqInv, ReplyInv, Disturbed, NoFrames,
         NoOuts, Acked, SizesInv, CallInv, Serving
    <3>6. (~Disturbed /\ apc = "answering" /\ taken.mode = 0 /\ taken.ok => outBuf = call.id)'
      BY <1>f, <1>n, Facts, Alone, <2>u, <2>h, <2>w DEF SeqInv, ReplyInv, Disturbed, NoFrames,
         NoOuts, Acked, SizesInv, CallInv, Serving
    <3>7. (~Disturbed /\ pc = "waiting" /\ call.kind = "frame" /\ Acked /\ ctl.ok => outBuf = call.id)'
      BY <1>f, <1>n, Facts, Alone, <2>u, <2>h, <2>w DEF SeqInv, ReplyInv, Disturbed, NoFrames,
         NoOuts, Acked, SizesInv, CallInv, Serving
    <3>8. (~Disturbed /\ pc = "reading" => outBuf = call.id)'
      BY <1>f, <1>n, Facts, Alone, <2>u, <2>h, <2>w DEF SeqInv, ReplyInv, Disturbed, NoFrames,
         NoOuts, Acked, SizesInv, CallInv, Serving
    <3>9. (~Disturbed /\ pc # "waiting" => ctl.ack_seq = seq)'
      BY <1>f, <1>n, Facts, Alone, <2>u, <2>h, <2>w DEF SeqInv, ReplyInv, Disturbed, NoFrames,
         NoOuts, Acked, SizesInv, CallInv, Serving
    <3> QED
      BY <3>1, <3>2, <3>3, <3>4, <3>5, <3>6, <3>7, <3>8, <3>9 DEF ReplyInv
  <2> QED
    BY <2>1, <2>2, <2>3, <2>4, <2>5 DEF Agreed
<1>2. CASE AdapterQuits
  <2>u. UNCHANGED <<ctl, inBuf, outBuf, pc, seq, size, out, call, timeouts, returned, next, cur,
                    taken, toInner, fromInner, inner, rejects>>
    BY <1>2 DEF AdapterQuits, Requested
  <2>h. apc' = "dead"
    BY <1>2 DEF AdapterQuits, Requested
  <2>1. StartInv'
    BY <1>f, <1>n, Facts, Alone, <2>u, <2>h DEF SeqInv, StartInv, Unstarted, CallInv, InConstructor, Serving,
       primed
  <2>2. CallInv'
    BY <1>f, <1>n, Facts, Alone, <2>u, <2>h DEF SeqInv, CallInv, InConstructor
  <2>3. SizesInv'
    BY <1>f, <1>n, Facts, Alone, <2>u, <2>h DEF SeqInv, SizesInv, Disturbed, Serving, Acked, CallInv
  <2>4. PipeInv'
    <3>1. (~Disturbed /\ inner.up # "dead" => inner.up # "starved")'
      BY <1>f, <1>n, Facts, Alone, <2>u, <2>h DEF SeqInv, PipeInv, Disturbed, NoFrames, LeftAt,
         SizesInv, StartInv, primed, Serving
    <3>2. (~Disturbed /\ inner.up # "dead" =>
           \A i \in 1 .. Len(toInner) : toInner[i].kind = "frame" =>
             /\ i = Len(toInner)
             /\ toInner[i].size = IF i = 1 THEN inner.size ELSE toInner[i - 1].size)'
      BY <1>f, <1>n, Facts, Alone, <2>u, <2>h DEF SeqInv, PipeInv, Disturbed, NoFrames, LeftAt,
         SizesInv, StartInv, primed, Serving
    <3>3. (~Disturbed /\ inner.up # "dead" /\ apc # "dead" =>
           LeftAt = IF apc = "resizing" THEN taken.size ELSE cur)'
      BY <1>f, <1>n, Facts, Alone, <2>u, <2>h DEF SeqInv, PipeInv, Disturbed, NoFrames, LeftAt,
         SizesInv, StartInv, primed, Serving
    <3>4. (~Disturbed /\ inner.up # "dead" /\ apc \notin {"rendering", "dead"} => NoFrames)'
      BY <1>f, <1>n, Facts, Alone, <2>u, <2>h DEF SeqInv, PipeInv, Disturbed, NoFrames, LeftAt,
         SizesInv, StartInv, primed, Serving
    <3> QED
      BY <3>1, <3>2, <3>3, <3>4 DEF PipeInv
  <2>5. ReplyInv'
    <3>1. (~Disturbed => \A i \in 1 .. Len(fromInner) : fromInner[i].kind = "ack" => fromInner[i].ok)'
      BY <1>f, <1>n, Facts, Alone, <2>u, <2>h DEF SeqInv, ReplyInv, Disturbed, NoFrames, NoOuts,
         Acked, SizesInv, CallInv, Serving
    <3>2. (~Disturbed /\ apc \notin {"rendering", "filling", "dead"} => NoOuts)'
      BY <1>f, <1>n, Facts, Alone, <2>u, <2>h DEF SeqInv, ReplyInv, Disturbed, NoFrames, NoOuts,
         Acked, SizesInv, CallInv, Serving
    <3>3. (~Disturbed /\ apc \in {"rendering", "filling"} =>
           \A i \in 1 .. Len(fromInner) : fromInner[i].kind = "out" =>
             i = Len(fromInner) /\ fromInner[i].image = call.id /\ toInner = <<>>)'
      BY <1>f, <1>n, Facts, Alone, <2>u, <2>h DEF SeqInv, ReplyInv, Disturbed, NoFrames, NoOuts,
         Acked, SizesInv, CallInv, Serving
    <3>4. (~Disturbed /\ apc \in {"rendering", "filling"} =>
           \A i \in 1 .. Len(toInner) : toInner[i].kind = "frame" => toInner[i].image = call.id)'
      BY <1>f, <1>n, Facts, Alone, <2>u, <2>h DEF SeqInv, ReplyInv, Disturbed, NoFrames, NoOuts,
         Acked, SizesInv, CallInv, Serving
    <3>5. (~Disturbed /\ apc = "filling" => fromInner # <<>> /\ fromInner[1].kind = "out")'
      BY <1>f, <1>n, Facts, Alone, <2>u, <2>h DEF SeqInv, ReplyInv, Disturbed, NoFrames, NoOuts,
         Acked, SizesInv, CallInv, Serving
    <3>6. (~Disturbed /\ apc = "answering" /\ taken.mode = 0 /\ taken.ok => outBuf = call.id)'
      BY <1>f, <1>n, Facts, Alone, <2>u, <2>h DEF SeqInv, ReplyInv, Disturbed, NoFrames, NoOuts,
         Acked, SizesInv, CallInv, Serving
    <3>7. (~Disturbed /\ pc = "waiting" /\ call.kind = "frame" /\ Acked /\ ctl.ok => outBuf = call.id)'
      BY <1>f, <1>n, Facts, Alone, <2>u, <2>h DEF SeqInv, ReplyInv, Disturbed, NoFrames, NoOuts,
         Acked, SizesInv, CallInv, Serving
    <3>8. (~Disturbed /\ pc = "reading" => outBuf = call.id)'
      BY <1>f, <1>n, Facts, Alone, <2>u, <2>h DEF SeqInv, ReplyInv, Disturbed, NoFrames, NoOuts,
         Acked, SizesInv, CallInv, Serving
    <3>9. (~Disturbed /\ pc # "waiting" => ctl.ack_seq = seq)'
      BY <1>f, <1>n, Facts, Alone, <2>u, <2>h DEF SeqInv, ReplyInv, Disturbed, NoFrames, NoOuts,
         Acked, SizesInv, CallInv, Serving
    <3> QED
      BY <3>1, <3>2, <3>3, <3>4, <3>5, <3>6, <3>7, <3>8, <3>9 DEF ReplyInv
  <2> QED
    BY <2>1, <2>2, <2>3, <2>4, <2>5 DEF Agreed
<1>3. CASE TakeFirst
  <2>u. UNCHANGED <<ctl, inBuf, outBuf, pc, seq, size, out, call, timeouts, returned, next,
                    fromInner, rejects>>
    BY <1>3 DEF TakeFirst, Requested
  <2>h. apc = "polling" /\ next <= ctl.req_seq /\ apc' = "answering" /\ ctl.req_mode = 1
        /\ ~primed /\ cur' = ctl.size
        /\ inner' = [inner EXCEPT !.up = "up"] /\ taken' = [mode |-> 1, ok |-> TRUE, size |-> ctl.size]
        /\ toInner' = Append(toInner, [kind |-> "video", size |-> ctl.size, image |-> 0])
    BY <1>3 DEF TakeFirst, Requested
  <2>m. /\ toInner' # <<>> /\ Len(toInner') = Len(toInner) + 1 /\ Len(toInner) \in Nat
        /\ toInner'[Len(toInner) + 1].kind = "video" /\ toInner'[Len(toInner) + 1].size = ctl.size
        /\ toInner'[Len(toInner')].size = ctl.size
        /\ toInner'[Len(toInner) + 1].image = (0)
        /\ \A i \in 1 .. Len(toInner) : toInner'[i] = toInner[i] /\ i \in 1 .. Len(toInner')
        /\ \A i \in 1 .. Len(toInner') : i \in 1 .. Len(toInner) \/ i = Len(toInner) + 1
    <3> DEFINE x == [kind |-> "video", size |-> ctl.size, image |-> 0]
    <3>1. x \in Messages
      BY <1>f, Facts DEF Messages, Frames, IInv, TypeOK, SharedOK
    <3>2. x.kind = "video" /\ x.size = ctl.size /\ x.image = (0)
      OBVIOUS
    <3>3. toInner \in Seq(Messages) /\ toInner' = Append(toInner, x)
      BY <1>f, <2>h, Facts
    <3> HIDE DEF x
    <3> QED
      BY <3>1, <3>2, <3>3, PutOn
  <2>x. inner.up = "none" /\ inner'.up = "up" /\ inner'.size = inner.size /\ primed' /\ ctl.size # 0
        /\ taken'.mode = 1 /\ (~Disturbed /\ apc # "dead" => NoFrames)
    <3>1. inner.up = "none"
      <4>1. next <= ctl.req_seq /\ apc = "polling" /\ ~primed
        BY <2>h
      <4>2. next = ctl.ack_seq + 1 /\ ctl.ack_seq \in Nat /\ ctl.req_seq \in Nat
        BY <1>f, Facts DEF SeqInv
      <4>3. ~Unstarted
        BY <4>1, <4>2 DEF Unstarted
      <4> QED
        BY <1>f, <4>1, <4>3 DEF StartInv
    <3>2. inner'.up = "up" /\ inner'.size = inner.size
      BY <1>f, <2>h, Facts
    <3>3. ctl.size # 0
      <4>1. next <= ctl.req_seq
        BY <2>h
      <4>2. next = ctl.ack_seq + 1 /\ ctl.ack_seq \in Nat /\ ctl.req_seq \in Nat
        BY <1>f, Facts DEF SeqInv
      <4>3. ctl.req_seq # 0
        BY <4>1, <4>2
      <4> QED
        BY <1>f, <4>3 DEF StartInv
    <3>4. taken'.mode = 1 /\ primed'
      BY <2>h, <3>3 DEF primed
    <3>5. ~Disturbed => NoFrames
      BY <1>f, <2>h, <3>1 DEF PipeInv
    <3> QED
      BY <3>1, <3>2, <3>3, <3>4, <3>5
  <2>1. StartInv'
    <3>1. (ctl.size <= Ceiling)'
      BY <1>f, <1>n, Facts, Alone, <2>u, <2>h, <2>m, <2>x DEF SeqInv, StartInv, Unstarted, CallInv,
         InConstructor, Serving, primed
    <3>2. (pc \in {"starting", "fields"} => call.size <= Ceiling)'
      BY <1>f, <1>n, Facts, Alone, <2>u, <2>h, <2>m, <2>x DEF SeqInv, StartInv, Unstarted, CallInv,
         InConstructor, Serving, primed
    <3>3. (ctl.req_seq # 0 \/ pc = "publish" => ctl.size # 0)'
      BY <1>f, <1>n, Facts, Alone, <2>u, <2>h, <2>m, <2>x DEF SeqInv, StartInv, Unstarted, CallInv,
         InConstructor, Serving, primed
    <3>4. (ctl.req_mode = 0 /\ ctl.req_seq # 0 => seq # 0)'
      BY <1>f, <1>n, Facts, Alone, <2>u, <2>h, <2>m, <2>x DEF SeqInv, StartInv, Unstarted, CallInv,
         InConstructor, Serving, primed
    <3>5. (~InConstructor \/ pc = "idle" => seq # 0 /\ size # 0)'
      BY <1>f, <1>n, Facts, Alone, <2>u, <2>h, <2>m, <2>x DEF SeqInv, StartInv, Unstarted, CallInv,
         InConstructor, Serving, primed
    <3>6. (ctl.ack_seq # 0 \/ Serving => primed \/ Unstarted)'
      BY <1>f, <1>n, Facts, Alone, <2>u, <2>h, <2>m, <2>x DEF SeqInv, StartInv, Unstarted, CallInv,
         InConstructor, Serving, primed
    <3>7. (~primed => inner.up = "none" \/ Unstarted)'
      BY <1>f, <1>n, Facts, Alone, <2>u, <2>h, <2>m, <2>x DEF SeqInv, StartInv, Unstarted, CallInv,
         InConstructor, Serving, primed
    <3>8. (apc = "resizing" => taken.size # 0)'
      BY <1>f, <1>n, Facts, Alone, <2>u, <2>h, <2>m, <2>x DEF SeqInv, StartInv, Unstarted, CallInv,
         InConstructor, Serving, primed
    <3>9. (ctl.req_seq # 0 /\ ctl.ack_seq = 0 => pc \in {"waiting", "lost"})'
      BY <1>f, <1>n, Facts, Alone, <2>u, <2>h, <2>m, <2>x DEF SeqInv, StartInv, Unstarted, CallInv,
         InConstructor, Serving, primed
    <3> QED
      BY <3>1, <3>2, <3>3, <3>4, <3>5, <3>6, <3>7, <3>8, <3>9 DEF StartInv
  <2>2. CallInv'
    BY <1>f, <1>n, Facts, Alone, <2>u, <2>h, <2>m, <2>x DEF SeqInv, CallInv, InConstructor
  <2>3. SizesInv'
    BY <1>f, <1>n, Facts, Alone, <2>u, <2>h, <2>m, <2>x, SMTT(30) DEF SeqInv, SizesInv, Disturbed, Serving,
       Acked, CallInv
  <2>4. PipeInv'
    <3>1. (~Disturbed /\ inner.up # "dead" => inner.up # "starved")'
      BY <1>f, <1>n, Facts, Alone, <2>u, <2>h, <2>m, <2>x DEF SeqInv, PipeInv, Disturbed, NoFrames,
         LeftAt, SizesInv, StartInv, primed, Serving
    <3>2. (~Disturbed /\ inner.up # "dead" =>
           \A i \in 1 .. Len(toInner) : toInner[i].kind = "frame" =>
             /\ i = Len(toInner)
             /\ toInner[i].size = IF i = 1 THEN inner.size ELSE toInner[i - 1].size)'
      BY <1>f, <1>n, Facts, Alone, <2>u, <2>h, <2>m, <2>x DEF SeqInv, PipeInv, Disturbed, NoFrames,
         LeftAt, SizesInv, StartInv, primed, Serving
    <3>3. (~Disturbed /\ inner.up # "dead" /\ apc # "dead" =>
           LeftAt = IF apc = "resizing" THEN taken.size ELSE cur)'
      BY <1>f, <1>n, Facts, Alone, <2>u, <2>h, <2>m, <2>x DEF SeqInv, PipeInv, Disturbed, NoFrames,
         LeftAt, SizesInv, StartInv, primed, Serving
    <3>4. (~Disturbed /\ inner.up # "dead" /\ apc \notin {"rendering", "dead"} => NoFrames)'
      <4>1. ~Disturbed => NoFrames
        BY <2>h, <2>x
      <4>2. NoFrames => NoFrames'
        BY <2>m DEF NoFrames
      <4> QED
        BY <2>u, <4>1, <4>2 DEF Disturbed
    <3> QED
      BY <3>1, <3>2, <3>3, <3>4 DEF PipeInv
  <2>5. ReplyInv'
    <3>1. (~Disturbed => \A i \in 1 .. Len(fromInner) : fromInner[i].kind = "ack" => fromInner[i].ok)'
      BY <1>f, <1>n, Facts, Alone, <2>u, <2>h, <2>m, <2>x DEF SeqInv, ReplyInv, Disturbed,
         NoFrames, NoOuts, Acked, SizesInv, CallInv, Serving
    <3>2. (~Disturbed /\ apc \notin {"rendering", "filling", "dead"} => NoOuts)'
      BY <1>f, <1>n, Facts, Alone, <2>u, <2>h, <2>m, <2>x DEF SeqInv, ReplyInv, Disturbed,
         NoFrames, NoOuts, Acked, SizesInv, CallInv, Serving
    <3>3. (~Disturbed /\ apc \in {"rendering", "filling"} =>
           \A i \in 1 .. Len(fromInner) : fromInner[i].kind = "out" =>
             i = Len(fromInner) /\ fromInner[i].image = call.id /\ toInner = <<>>)'
      BY <1>f, <1>n, Facts, Alone, <2>u, <2>h, <2>m, <2>x DEF SeqInv, ReplyInv, Disturbed,
         NoFrames, NoOuts, Acked, SizesInv, CallInv, Serving
    <3>4. (~Disturbed /\ apc \in {"rendering", "filling"} =>
           \A i \in 1 .. Len(toInner) : toInner[i].kind = "frame" => toInner[i].image = call.id)'
      BY <1>f, <1>n, Facts, Alone, <2>u, <2>h, <2>m, <2>x DEF SeqInv, ReplyInv, Disturbed,
         NoFrames, NoOuts, Acked, SizesInv, CallInv, Serving
    <3>5. (~Disturbed /\ apc = "filling" => fromInner # <<>> /\ fromInner[1].kind = "out")'
      BY <1>f, <1>n, Facts, Alone, <2>u, <2>h, <2>m, <2>x DEF SeqInv, ReplyInv, Disturbed,
         NoFrames, NoOuts, Acked, SizesInv, CallInv, Serving
    <3>6. (~Disturbed /\ apc = "answering" /\ taken.mode = 0 /\ taken.ok => outBuf = call.id)'
      BY <1>f, <1>n, Facts, Alone, <2>u, <2>h, <2>m, <2>x DEF SeqInv, ReplyInv, Disturbed,
         NoFrames, NoOuts, Acked, SizesInv, CallInv, Serving
    <3>7. (~Disturbed /\ pc = "waiting" /\ call.kind = "frame" /\ Acked /\ ctl.ok => outBuf = call.id)'
      BY <1>f, <1>n, Facts, Alone, <2>u, <2>h, <2>m, <2>x DEF SeqInv, ReplyInv, Disturbed,
         NoFrames, NoOuts, Acked, SizesInv, CallInv, Serving
    <3>8. (~Disturbed /\ pc = "reading" => outBuf = call.id)'
      BY <1>f, <1>n, Facts, Alone, <2>u, <2>h, <2>m, <2>x DEF SeqInv, ReplyInv, Disturbed,
         NoFrames, NoOuts, Acked, SizesInv, CallInv, Serving
    <3>9. (~Disturbed /\ pc # "waiting" => ctl.ack_seq = seq)'
      BY <1>f, <1>n, Facts, Alone, <2>u, <2>h, <2>m, <2>x DEF SeqInv, ReplyInv, Disturbed,
         NoFrames, NoOuts, Acked, SizesInv, CallInv, Serving
    <3> QED
      BY <3>1, <3>2, <3>3, <3>4, <3>5, <3>6, <3>7, <3>8, <3>9 DEF ReplyInv
  <2> QED
    BY <2>1, <2>2, <2>3, <2>4, <2>5 DEF Agreed
<1>4. CASE SpawnFails
  <2>u. UNCHANGED <<inBuf, outBuf, pc, seq, size, out, call, timeouts, returned, next, cur, taken,
                    toInner, fromInner, inner, rejects>>
    BY <1>4 DEF SpawnFails, Requested
  <2>h. apc' = "dead"
    BY <1>4 DEF SpawnFails, Requested
  <2>w. /\ ctl'.req_seq = ctl.req_seq /\ ctl'.req_mode = ctl.req_mode /\ ctl'.size = ctl.size
        /\ ctl'.ack_seq = ctl.ack_seq /\ ctl'.ok = ctl.ok /\ ctl'.out = ctl.out
    BY <1>f, <1>4, Words DEF SameWords
  <2>1. StartInv'
    BY <1>f, <1>n, Facts, Alone, <2>u, <2>h, <2>w DEF SeqInv, StartInv, Unstarted, CallInv, InConstructor,
       Serving, primed
  <2>2. CallInv'
    BY <1>f, <1>n, Facts, Alone, <2>u, <2>h, <2>w DEF SeqInv, CallInv, InConstructor
  <2>3. SizesInv'
    BY <1>f, <1>n, Facts, Alone, <2>u, <2>h, <2>w DEF SeqInv, SizesInv, Disturbed, Serving, Acked,
       CallInv
  <2>4. PipeInv'
    <3>1. (~Disturbed /\ inner.up # "dead" => inner.up # "starved")'
      BY <1>f, <1>n, Facts, Alone, <2>u, <2>h, <2>w DEF SeqInv, PipeInv, Disturbed, NoFrames,
         LeftAt, SizesInv, StartInv, primed, Serving
    <3>2. (~Disturbed /\ inner.up # "dead" =>
           \A i \in 1 .. Len(toInner) : toInner[i].kind = "frame" =>
             /\ i = Len(toInner)
             /\ toInner[i].size = IF i = 1 THEN inner.size ELSE toInner[i - 1].size)'
      BY <1>f, <1>n, Facts, Alone, <2>u, <2>h, <2>w DEF SeqInv, PipeInv, Disturbed, NoFrames,
         LeftAt, SizesInv, StartInv, primed, Serving
    <3>3. (~Disturbed /\ inner.up # "dead" /\ apc # "dead" =>
           LeftAt = IF apc = "resizing" THEN taken.size ELSE cur)'
      BY <1>f, <1>n, Facts, Alone, <2>u, <2>h, <2>w DEF SeqInv, PipeInv, Disturbed, NoFrames,
         LeftAt, SizesInv, StartInv, primed, Serving
    <3>4. (~Disturbed /\ inner.up # "dead" /\ apc \notin {"rendering", "dead"} => NoFrames)'
      BY <1>f, <1>n, Facts, Alone, <2>u, <2>h, <2>w DEF SeqInv, PipeInv, Disturbed, NoFrames,
         LeftAt, SizesInv, StartInv, primed, Serving
    <3> QED
      BY <3>1, <3>2, <3>3, <3>4 DEF PipeInv
  <2>5. ReplyInv'
    <3>1. (~Disturbed => \A i \in 1 .. Len(fromInner) : fromInner[i].kind = "ack" => fromInner[i].ok)'
      BY <1>f, <1>n, Facts, Alone, <2>u, <2>h, <2>w DEF SeqInv, ReplyInv, Disturbed, NoFrames,
         NoOuts, Acked, SizesInv, CallInv, Serving
    <3>2. (~Disturbed /\ apc \notin {"rendering", "filling", "dead"} => NoOuts)'
      BY <1>f, <1>n, Facts, Alone, <2>u, <2>h, <2>w DEF SeqInv, ReplyInv, Disturbed, NoFrames,
         NoOuts, Acked, SizesInv, CallInv, Serving
    <3>3. (~Disturbed /\ apc \in {"rendering", "filling"} =>
           \A i \in 1 .. Len(fromInner) : fromInner[i].kind = "out" =>
             i = Len(fromInner) /\ fromInner[i].image = call.id /\ toInner = <<>>)'
      BY <1>f, <1>n, Facts, Alone, <2>u, <2>h, <2>w DEF SeqInv, ReplyInv, Disturbed, NoFrames,
         NoOuts, Acked, SizesInv, CallInv, Serving
    <3>4. (~Disturbed /\ apc \in {"rendering", "filling"} =>
           \A i \in 1 .. Len(toInner) : toInner[i].kind = "frame" => toInner[i].image = call.id)'
      BY <1>f, <1>n, Facts, Alone, <2>u, <2>h, <2>w DEF SeqInv, ReplyInv, Disturbed, NoFrames,
         NoOuts, Acked, SizesInv, CallInv, Serving
    <3>5. (~Disturbed /\ apc = "filling" => fromInner # <<>> /\ fromInner[1].kind = "out")'
      BY <1>f, <1>n, Facts, Alone, <2>u, <2>h, <2>w DEF SeqInv, ReplyInv, Disturbed, NoFrames,
         NoOuts, Acked, SizesInv, CallInv, Serving
    <3>6. (~Disturbed /\ apc = "answering" /\ taken.mode = 0 /\ taken.ok => outBuf = call.id)'
      BY <1>f, <1>n, Facts, Alone, <2>u, <2>h, <2>w DEF SeqInv, ReplyInv, Disturbed, NoFrames,
         NoOuts, Acked, SizesInv, CallInv, Serving
    <3>7. (~Disturbed /\ pc = "waiting" /\ call.kind = "frame" /\ Acked /\ ctl.ok => outBuf = call.id)'
      BY <1>f, <1>n, Facts, Alone, <2>u, <2>h, <2>w DEF SeqInv, ReplyInv, Disturbed, NoFrames,
         NoOuts, Acked, SizesInv, CallInv, Serving
    <3>8. (~Disturbed /\ pc = "reading" => outBuf = call.id)'
      BY <1>f, <1>n, Facts, Alone, <2>u, <2>h, <2>w DEF SeqInv, ReplyInv, Disturbed, NoFrames,
         NoOuts, Acked, SizesInv, CallInv, Serving
    <3>9. (~Disturbed /\ pc # "waiting" => ctl.ack_seq = seq)'
      BY <1>f, <1>n, Facts, Alone, <2>u, <2>h, <2>w DEF SeqInv, ReplyInv, Disturbed, NoFrames,
         NoOuts, Acked, SizesInv, CallInv, Serving
    <3> QED
      BY <3>1, <3>2, <3>3, <3>4, <3>5, <3>6, <3>7, <3>8, <3>9 DEF ReplyInv
  <2> QED
    BY <2>1, <2>2, <2>3, <2>4, <2>5 DEF Agreed
<1>5. CASE TakeResize
  <2>u. UNCHANGED <<ctl, inBuf, outBuf, pc, seq, size, out, call, timeouts, returned, next, cur,
                    fromInner, inner, rejects>>
    BY <1>5 DEF TakeResize, Requested
  <2>h. apc = "polling" /\ next <= ctl.req_seq /\ apc' = "resizing" /\ ctl.req_mode = 1 /\ primed
        /\ inner.up # "dead" /\ taken' = [mode |-> 1, ok |-> FALSE, size |-> ctl.size]
        /\ toInner' = Append(toInner, [kind |-> "resize", size |-> ctl.size, image |-> 0])
    BY <1>5 DEF TakeResize, Requested
  <2>m. /\ toInner' # <<>> /\ Len(toInner') = Len(toInner) + 1 /\ Len(toInner) \in Nat
        /\ toInner'[Len(toInner) + 1].kind = "resize" /\ toInner'[Len(toInner) + 1].size = ctl.size
        /\ toInner'[Len(toInner')].size = ctl.size
        /\ toInner'[Len(toInner) + 1].image = (0)
        /\ \A i \in 1 .. Len(toInner) : toInner'[i] = toInner[i] /\ i \in 1 .. Len(toInner')
        /\ \A i \in 1 .. Len(toInner') : i \in 1 .. Len(toInner) \/ i = Len(toInner) + 1
    <3> DEFINE x == [kind |-> "resize", size |-> ctl.size, image |-> 0]
    <3>1. x \in Messages
      BY <1>f, Facts DEF Messages, Frames, IInv, TypeOK, SharedOK
    <3>2. x.kind = "resize" /\ x.size = ctl.size /\ x.image = (0)
      OBVIOUS
    <3>3. toInner \in Seq(Messages) /\ toInner' = Append(toInner, x)
      BY <1>f, <2>h, Facts
    <3> HIDE DEF x
    <3> QED
      BY <3>1, <3>2, <3>3, PutOn
  <2>1. StartInv'
    BY <1>f, <1>n, Facts, Alone, <2>u, <2>h, <2>m DEF SeqInv, StartInv, Unstarted, CallInv, InConstructor,
       Serving, primed
  <2>2. CallInv'
    BY <1>f, <1>n, Facts, Alone, <2>u, <2>h, <2>m DEF SeqInv, CallInv, InConstructor
  <2>3. SizesInv'
    BY <1>f, <1>n, Facts, Alone, <2>u, <2>h, <2>m DEF SeqInv, SizesInv, Disturbed, Serving, Acked,
       CallInv
  <2>4. PipeInv'
    <3>1. (~Disturbed /\ inner.up # "dead" => inner.up # "starved")'
      BY <1>f, <1>n, Facts, Alone, <2>u, <2>h, <2>m DEF SeqInv, PipeInv, Disturbed, NoFrames,
         LeftAt, SizesInv, StartInv, primed, Serving
    <3>2. (~Disturbed /\ inner.up # "dead" =>
           \A i \in 1 .. Len(toInner) : toInner[i].kind = "frame" =>
             /\ i = Len(toInner)
             /\ toInner[i].size = IF i = 1 THEN inner.size ELSE toInner[i - 1].size)'
      BY <1>f, <1>n, Facts, Alone, <2>u, <2>h, <2>m DEF SeqInv, PipeInv, Disturbed, NoFrames,
         LeftAt, SizesInv, StartInv, primed, Serving
    <3>3. (~Disturbed /\ inner.up # "dead" /\ apc # "dead" =>
           LeftAt = IF apc = "resizing" THEN taken.size ELSE cur)'
      BY <1>f, <1>n, Facts, Alone, <2>u, <2>h, <2>m DEF SeqInv, PipeInv, Disturbed, NoFrames,
         LeftAt, SizesInv, StartInv, primed, Serving
    <3>4. (~Disturbed /\ inner.up # "dead" /\ apc \notin {"rendering", "dead"} => NoFrames)'
      BY <1>f, <1>n, Facts, Alone, <2>u, <2>h, <2>m DEF SeqInv, PipeInv, Disturbed, NoFrames,
         LeftAt, SizesInv, StartInv, primed, Serving
    <3> QED
      BY <3>1, <3>2, <3>3, <3>4 DEF PipeInv
  <2>5. ReplyInv'
    <3>1. (~Disturbed => \A i \in 1 .. Len(fromInner) : fromInner[i].kind = "ack" => fromInner[i].ok)'
      BY <1>f, <1>n, Facts, Alone, <2>u, <2>h, <2>m DEF SeqInv, ReplyInv, Disturbed, NoFrames,
         NoOuts, Acked, SizesInv, CallInv, Serving
    <3>2. (~Disturbed /\ apc \notin {"rendering", "filling", "dead"} => NoOuts)'
      BY <1>f, <1>n, Facts, Alone, <2>u, <2>h, <2>m DEF SeqInv, ReplyInv, Disturbed, NoFrames,
         NoOuts, Acked, SizesInv, CallInv, Serving
    <3>3. (~Disturbed /\ apc \in {"rendering", "filling"} =>
           \A i \in 1 .. Len(fromInner) : fromInner[i].kind = "out" =>
             i = Len(fromInner) /\ fromInner[i].image = call.id /\ toInner = <<>>)'
      BY <1>f, <1>n, Facts, Alone, <2>u, <2>h, <2>m DEF SeqInv, ReplyInv, Disturbed, NoFrames,
         NoOuts, Acked, SizesInv, CallInv, Serving
    <3>4. (~Disturbed /\ apc \in {"rendering", "filling"} =>
           \A i \in 1 .. Len(toInner) : toInner[i].kind = "frame" => toInner[i].image = call.id)'
      BY <1>f, <1>n, Facts, Alone, <2>u, <2>h, <2>m DEF SeqInv, ReplyInv, Disturbed, NoFrames,
         NoOuts, Acked, SizesInv, CallInv, Serving
    <3>5. (~Disturbed /\ apc = "filling" => fromInner # <<>> /\ fromInner[1].kind = "out")'
      BY <1>f, <1>n, Facts, Alone, <2>u, <2>h, <2>m DEF SeqInv, ReplyInv, Disturbed, NoFrames,
         NoOuts, Acked, SizesInv, CallInv, Serving
    <3>6. (~Disturbed /\ apc = "answering" /\ taken.mode = 0 /\ taken.ok => outBuf = call.id)'
      BY <1>f, <1>n, Facts, Alone, <2>u, <2>h, <2>m DEF SeqInv, ReplyInv, Disturbed, NoFrames,
         NoOuts, Acked, SizesInv, CallInv, Serving
    <3>7. (~Disturbed /\ pc = "waiting" /\ call.kind = "frame" /\ Acked /\ ctl.ok => outBuf = call.id)'
      BY <1>f, <1>n, Facts, Alone, <2>u, <2>h, <2>m DEF SeqInv, ReplyInv, Disturbed, NoFrames,
         NoOuts, Acked, SizesInv, CallInv, Serving
    <3>8. (~Disturbed /\ pc = "reading" => outBuf = call.id)'
      BY <1>f, <1>n, Facts, Alone, <2>u, <2>h, <2>m DEF SeqInv, ReplyInv, Disturbed, NoFrames,
         NoOuts, Acked, SizesInv, CallInv, Serving
    <3>9. (~Disturbed /\ pc # "waiting" => ctl.ack_seq = seq)'
      BY <1>f, <1>n, Facts, Alone, <2>u, <2>h, <2>m DEF SeqInv, ReplyInv, Disturbed, NoFrames,
         NoOuts, Acked, SizesInv, CallInv, Serving
    <3> QED
      BY <3>1, <3>2, <3>3, <3>4, <3>5, <3>6, <3>7, <3>8, <3>9 DEF ReplyInv
  <2> QED
    BY <2>1, <2>2, <2>3, <2>4, <2>5 DEF Agreed
<1>6. CASE TakeFrame
  <2>u. UNCHANGED <<ctl, inBuf, outBuf, pc, seq, size, out, call, timeouts, returned, next, cur,
                    fromInner, inner, rejects>>
    BY <1>6 DEF TakeFrame, Requested
  <2>h. apc = "polling" /\ next <= ctl.req_seq /\ apc' = "rendering" /\ ctl.req_mode = 0 /\ primed
        /\ inner.up # "dead" /\ taken' = [mode |-> 0, ok |-> FALSE, size |-> cur]
        /\ toInner' = Append(toInner, [kind |-> "frame", size |-> cur,
                                      image |-> IF inBuf.size = cur THEN inBuf.image ELSE 0])
    BY <1>6 DEF TakeFrame, Requested
  <2>m. /\ toInner' # <<>> /\ Len(toInner') = Len(toInner) + 1 /\ Len(toInner) \in Nat
        /\ toInner'[Len(toInner) + 1].kind = "frame" /\ toInner'[Len(toInner) + 1].size = cur
        /\ toInner'[Len(toInner')].size = cur
        /\ toInner'[Len(toInner) + 1].image = (IF inBuf.size = cur THEN inBuf.image ELSE 0)
        /\ \A i \in 1 .. Len(toInner) : toInner'[i] = toInner[i] /\ i \in 1 .. Len(toInner')
        /\ \A i \in 1 .. Len(toInner') : i \in 1 .. Len(toInner) \/ i = Len(toInner) + 1
    <3> DEFINE x == [kind |-> "frame", size |-> cur, image |-> IF inBuf.size = cur THEN inBuf.image ELSE 0]
    <3>1. x \in Messages
      BY <1>f, Facts DEF Messages, Frames, IInv, TypeOK, SharedOK
    <3>2. x.kind = "frame" /\ x.size = cur /\ x.image = (IF inBuf.size = cur THEN inBuf.image ELSE 0)
      OBVIOUS
    <3>3. toInner \in Seq(Messages) /\ toInner' = Append(toInner, x)
      BY <1>f, <2>h, Facts
    <3> HIDE DEF x
    <3> QED
      BY <3>1, <3>2, <3>3, PutOn
  <2>x. ~Disturbed => NoFrames /\ NoOuts /\ inBuf.image = call.id /\ inBuf.size = cur
    BY <1>f, <2>h, Facts, Alone DEF PipeInv, ReplyInv, CallInv, SizesInv
  <2>1. StartInv'
    BY <1>f, <1>n, Facts, Alone, <2>u, <2>h, <2>m, <2>x DEF SeqInv, StartInv, Unstarted, CallInv,
       InConstructor, Serving, primed
  <2>2. CallInv'
    BY <1>f, <1>n, Facts, Alone, <2>u, <2>h, <2>m, <2>x DEF SeqInv, CallInv, InConstructor
  <2>3. SizesInv'
    BY <1>f, <1>n, Facts, Alone, <2>u, <2>h, <2>m, <2>x DEF SeqInv, SizesInv, Disturbed, Serving,
       Acked, CallInv
  <2>4. PipeInv'
    <3>1. (~Disturbed /\ inner.up # "dead" => inner.up # "starved")'
      BY <1>f, <1>n, Facts, Alone, <2>u, <2>h, <2>m, <2>x DEF SeqInv, PipeInv, Disturbed, NoFrames,
         LeftAt, SizesInv, StartInv, primed, Serving
    <3>2. (~Disturbed /\ inner.up # "dead" =>
           \A i \in 1 .. Len(toInner) : toInner[i].kind = "frame" =>
             /\ i = Len(toInner)
             /\ toInner[i].size = IF i = 1 THEN inner.size ELSE toInner[i - 1].size)'
      BY <1>f, <1>n, Facts, Alone, <2>u, <2>h, <2>m, <2>x DEF SeqInv, PipeInv, Disturbed, NoFrames,
         LeftAt, SizesInv, StartInv, primed, Serving
    <3>3. (~Disturbed /\ inner.up # "dead" /\ apc # "dead" =>
           LeftAt = IF apc = "resizing" THEN taken.size ELSE cur)'
      BY <1>f, <1>n, Facts, Alone, <2>u, <2>h, <2>m, <2>x DEF SeqInv, PipeInv, Disturbed, NoFrames,
         LeftAt, SizesInv, StartInv, primed, Serving
    <3>4. (~Disturbed /\ inner.up # "dead" /\ apc \notin {"rendering", "dead"} => NoFrames)'
      BY <1>f, <1>n, Facts, Alone, <2>u, <2>h, <2>m, <2>x DEF SeqInv, PipeInv, Disturbed, NoFrames,
         LeftAt, SizesInv, StartInv, primed, Serving
    <3> QED
      BY <3>1, <3>2, <3>3, <3>4 DEF PipeInv
  <2>5. ReplyInv'
    <3>1. (~Disturbed => \A i \in 1 .. Len(fromInner) : fromInner[i].kind = "ack" => fromInner[i].ok)'
      BY <1>f, <1>n, Facts, Alone, <2>u, <2>h, <2>m, <2>x DEF SeqInv, ReplyInv, Disturbed,
         NoFrames, NoOuts, Acked, SizesInv, CallInv, Serving
    <3>2. (~Disturbed /\ apc \notin {"rendering", "filling", "dead"} => NoOuts)'
      BY <1>f, <1>n, Facts, Alone, <2>u, <2>h, <2>m, <2>x DEF SeqInv, ReplyInv, Disturbed,
         NoFrames, NoOuts, Acked, SizesInv, CallInv, Serving
    <3>3. (~Disturbed /\ apc \in {"rendering", "filling"} =>
           \A i \in 1 .. Len(fromInner) : fromInner[i].kind = "out" =>
             i = Len(fromInner) /\ fromInner[i].image = call.id /\ toInner = <<>>)'
      BY <1>f, <1>n, Facts, Alone, <2>u, <2>h, <2>m, <2>x DEF SeqInv, ReplyInv, Disturbed,
         NoFrames, NoOuts, Acked, SizesInv, CallInv, Serving
    <3>4. (~Disturbed /\ apc \in {"rendering", "filling"} =>
           \A i \in 1 .. Len(toInner) : toInner[i].kind = "frame" => toInner[i].image = call.id)'
      BY <1>f, <1>n, Facts, Alone, <2>u, <2>h, <2>m, <2>x DEF SeqInv, ReplyInv, Disturbed,
         NoFrames, NoOuts, Acked, SizesInv, CallInv, Serving
    <3>5. (~Disturbed /\ apc = "filling" => fromInner # <<>> /\ fromInner[1].kind = "out")'
      BY <1>f, <1>n, Facts, Alone, <2>u, <2>h, <2>m, <2>x DEF SeqInv, ReplyInv, Disturbed,
         NoFrames, NoOuts, Acked, SizesInv, CallInv, Serving
    <3>6. (~Disturbed /\ apc = "answering" /\ taken.mode = 0 /\ taken.ok => outBuf = call.id)'
      BY <1>f, <1>n, Facts, Alone, <2>u, <2>h, <2>m, <2>x DEF SeqInv, ReplyInv, Disturbed,
         NoFrames, NoOuts, Acked, SizesInv, CallInv, Serving
    <3>7. (~Disturbed /\ pc = "waiting" /\ call.kind = "frame" /\ Acked /\ ctl.ok => outBuf = call.id)'
      BY <1>f, <1>n, Facts, Alone, <2>u, <2>h, <2>m, <2>x DEF SeqInv, ReplyInv, Disturbed,
         NoFrames, NoOuts, Acked, SizesInv, CallInv, Serving
    <3>8. (~Disturbed /\ pc = "reading" => outBuf = call.id)'
      BY <1>f, <1>n, Facts, Alone, <2>u, <2>h, <2>m, <2>x DEF SeqInv, ReplyInv, Disturbed,
         NoFrames, NoOuts, Acked, SizesInv, CallInv, Serving
    <3>9. (~Disturbed /\ pc # "waiting" => ctl.ack_seq = seq)'
      BY <1>f, <1>n, Facts, Alone, <2>u, <2>h, <2>m, <2>x DEF SeqInv, ReplyInv, Disturbed,
         NoFrames, NoOuts, Acked, SizesInv, CallInv, Serving
    <3> QED
      BY <3>1, <3>2, <3>3, <3>4, <3>5, <3>6, <3>7, <3>8, <3>9 DEF ReplyInv
  <2> QED
    BY <2>1, <2>2, <2>3, <2>4, <2>5 DEF Agreed
<1>7. CASE WriteFails
  <2>u. UNCHANGED <<ctl, inBuf, outBuf, pc, seq, size, out, call, timeouts, returned, next, cur,
                    toInner, fromInner, inner, rejects>>
    BY <1>7 DEF WriteFails, Requested
  <2>h. apc = "polling" /\ next <= ctl.req_seq /\ apc' = "answering" /\ primed /\ inner.up = "dead"
        /\ taken' = [mode |-> ctl.req_mode, ok |-> FALSE, size |-> cur]
    BY <1>7 DEF WriteFails, Requested
  <2>1. StartInv'
    BY <1>f, <1>n, Facts, Alone, <2>u, <2>h DEF SeqInv, StartInv, Unstarted, CallInv, InConstructor, Serving,
       primed
  <2>2. CallInv'
    BY <1>f, <1>n, Facts, Alone, <2>u, <2>h DEF SeqInv, CallInv, InConstructor
  <2>3. SizesInv'
    BY <1>f, <1>n, Facts, Alone, <2>u, <2>h DEF SeqInv, SizesInv, Disturbed, Serving, Acked, CallInv
  <2>4. PipeInv'
    <3>1. (~Disturbed /\ inner.up # "dead" => inner.up # "starved")'
      BY <1>f, <1>n, Facts, Alone, <2>u, <2>h DEF SeqInv, PipeInv, Disturbed, NoFrames, LeftAt,
         SizesInv, StartInv, primed, Serving
    <3>2. (~Disturbed /\ inner.up # "dead" =>
           \A i \in 1 .. Len(toInner) : toInner[i].kind = "frame" =>
             /\ i = Len(toInner)
             /\ toInner[i].size = IF i = 1 THEN inner.size ELSE toInner[i - 1].size)'
      BY <1>f, <1>n, Facts, Alone, <2>u, <2>h DEF SeqInv, PipeInv, Disturbed, NoFrames, LeftAt,
         SizesInv, StartInv, primed, Serving
    <3>3. (~Disturbed /\ inner.up # "dead" /\ apc # "dead" =>
           LeftAt = IF apc = "resizing" THEN taken.size ELSE cur)'
      BY <1>f, <1>n, Facts, Alone, <2>u, <2>h DEF SeqInv, PipeInv, Disturbed, NoFrames, LeftAt,
         SizesInv, StartInv, primed, Serving
    <3>4. (~Disturbed /\ inner.up # "dead" /\ apc \notin {"rendering", "dead"} => NoFrames)'
      BY <1>f, <1>n, Facts, Alone, <2>u, <2>h DEF SeqInv, PipeInv, Disturbed, NoFrames, LeftAt,
         SizesInv, StartInv, primed, Serving
    <3> QED
      BY <3>1, <3>2, <3>3, <3>4 DEF PipeInv
  <2>5. ReplyInv'
    <3>1. (~Disturbed => \A i \in 1 .. Len(fromInner) : fromInner[i].kind = "ack" => fromInner[i].ok)'
      BY <1>f, <1>n, Facts, Alone, <2>u, <2>h DEF SeqInv, ReplyInv, Disturbed, NoFrames, NoOuts,
         Acked, SizesInv, CallInv, Serving
    <3>2. (~Disturbed /\ apc \notin {"rendering", "filling", "dead"} => NoOuts)'
      BY <1>f, <1>n, Facts, Alone, <2>u, <2>h DEF SeqInv, ReplyInv, Disturbed, NoFrames, NoOuts,
         Acked, SizesInv, CallInv, Serving
    <3>3. (~Disturbed /\ apc \in {"rendering", "filling"} =>
           \A i \in 1 .. Len(fromInner) : fromInner[i].kind = "out" =>
             i = Len(fromInner) /\ fromInner[i].image = call.id /\ toInner = <<>>)'
      BY <1>f, <1>n, Facts, Alone, <2>u, <2>h DEF SeqInv, ReplyInv, Disturbed, NoFrames, NoOuts,
         Acked, SizesInv, CallInv, Serving
    <3>4. (~Disturbed /\ apc \in {"rendering", "filling"} =>
           \A i \in 1 .. Len(toInner) : toInner[i].kind = "frame" => toInner[i].image = call.id)'
      BY <1>f, <1>n, Facts, Alone, <2>u, <2>h DEF SeqInv, ReplyInv, Disturbed, NoFrames, NoOuts,
         Acked, SizesInv, CallInv, Serving
    <3>5. (~Disturbed /\ apc = "filling" => fromInner # <<>> /\ fromInner[1].kind = "out")'
      BY <1>f, <1>n, Facts, Alone, <2>u, <2>h DEF SeqInv, ReplyInv, Disturbed, NoFrames, NoOuts,
         Acked, SizesInv, CallInv, Serving
    <3>6. (~Disturbed /\ apc = "answering" /\ taken.mode = 0 /\ taken.ok => outBuf = call.id)'
      BY <1>f, <1>n, Facts, Alone, <2>u, <2>h DEF SeqInv, ReplyInv, Disturbed, NoFrames, NoOuts,
         Acked, SizesInv, CallInv, Serving
    <3>7. (~Disturbed /\ pc = "waiting" /\ call.kind = "frame" /\ Acked /\ ctl.ok => outBuf = call.id)'
      BY <1>f, <1>n, Facts, Alone, <2>u, <2>h DEF SeqInv, ReplyInv, Disturbed, NoFrames, NoOuts,
         Acked, SizesInv, CallInv, Serving
    <3>8. (~Disturbed /\ pc = "reading" => outBuf = call.id)'
      BY <1>f, <1>n, Facts, Alone, <2>u, <2>h DEF SeqInv, ReplyInv, Disturbed, NoFrames, NoOuts,
         Acked, SizesInv, CallInv, Serving
    <3>9. (~Disturbed /\ pc # "waiting" => ctl.ack_seq = seq)'
      BY <1>f, <1>n, Facts, Alone, <2>u, <2>h DEF SeqInv, ReplyInv, Disturbed, NoFrames, NoOuts,
         Acked, SizesInv, CallInv, Serving
    <3> QED
      BY <3>1, <3>2, <3>3, <3>4, <3>5, <3>6, <3>7, <3>8, <3>9 DEF ReplyInv
  <2> QED
    BY <2>1, <2>2, <2>3, <2>4, <2>5 DEF Agreed
<1>8. CASE ResizeAcked
  <2>u. UNCHANGED <<ctl, inBuf, outBuf, pc, seq, size, out, call, timeouts, returned, next,
                    toInner, inner, rejects>>
    BY <1>8 DEF ResizeAcked, Requested
  <2>h. apc = "resizing" /\ apc' = "answering" /\ Head(fromInner).kind = "ack"
        /\ taken' = [taken EXCEPT !.ok = Head(fromInner).ok]
        /\ cur' = (IF Head(fromInner).ok THEN taken.size ELSE cur)
        /\ fromInner # <<>> /\ fromInner' = Tail(fromInner)
    BY <1>8 DEF ResizeAcked, Requested
  <2>m. /\ Head(fromInner) = fromInner[1] /\ 1 \in 1 .. Len(fromInner) /\ Len(fromInner) \in Nat
        /\ Len(fromInner') = Len(fromInner) - 1
        /\ \A i \in 1 .. Len(fromInner') :
             fromInner'[i] = fromInner[i + 1] /\ i + 1 \in 1 .. Len(fromInner) /\ 1 < i + 1
    <3>1. fromInner \in Seq(Replies) /\ fromInner # <<>> /\ fromInner' = Tail(fromInner)
      BY <1>f, <2>h, Facts
    <3> QED
      BY <3>1, TakenFrom
  <2>x. ~Disturbed => Head(fromInner).ok
    BY <1>f, <2>h, <2>m DEF ReplyInv
  <2>1. StartInv'
    BY <1>f, <1>n, Facts, Alone, <2>u, <2>h, <2>m, <2>x DEF SeqInv, StartInv, Unstarted, CallInv,
       InConstructor, Serving, primed
  <2>2. CallInv'
    BY <1>f, <1>n, Facts, Alone, <2>u, <2>h, <2>m, <2>x DEF SeqInv, CallInv, InConstructor
  <2>3. SizesInv'
    BY <1>f, <1>n, Facts, Alone, <2>u, <2>h, <2>m, <2>x, SMTT(30) DEF SeqInv, SizesInv, Disturbed, Serving,
       Acked, CallInv
  <2>4. PipeInv'
    <3>1. (~Disturbed /\ inner.up # "dead" => inner.up # "starved")'
      BY <1>f, <1>n, Facts, Alone, <2>u, <2>h, <2>m, <2>x DEF SeqInv, PipeInv, Disturbed, NoFrames,
         LeftAt, SizesInv, StartInv, primed, Serving
    <3>2. (~Disturbed /\ inner.up # "dead" =>
           \A i \in 1 .. Len(toInner) : toInner[i].kind = "frame" =>
             /\ i = Len(toInner)
             /\ toInner[i].size = IF i = 1 THEN inner.size ELSE toInner[i - 1].size)'
      BY <1>f, <1>n, Facts, Alone, <2>u, <2>h, <2>m, <2>x DEF SeqInv, PipeInv, Disturbed, NoFrames,
         LeftAt, SizesInv, StartInv, primed, Serving
    <3>3. (~Disturbed /\ inner.up # "dead" /\ apc # "dead" =>
           LeftAt = IF apc = "resizing" THEN taken.size ELSE cur)'
      BY <1>f, <1>n, Facts, Alone, <2>u, <2>h, <2>m, <2>x DEF SeqInv, PipeInv, Disturbed, NoFrames,
         LeftAt, SizesInv, StartInv, primed, Serving
    <3>4. (~Disturbed /\ inner.up # "dead" /\ apc \notin {"rendering", "dead"} => NoFrames)'
      BY <1>f, <1>n, Facts, Alone, <2>u, <2>h, <2>m, <2>x DEF SeqInv, PipeInv, Disturbed, NoFrames,
         LeftAt, SizesInv, StartInv, primed, Serving
    <3> QED
      BY <3>1, <3>2, <3>3, <3>4 DEF PipeInv
  <2>5. ReplyInv'
    <3>1. (~Disturbed => \A i \in 1 .. Len(fromInner) : fromInner[i].kind = "ack" => fromInner[i].ok)'
      BY <1>f, <1>n, Facts, Alone, <2>u, <2>h, <2>m, <2>x DEF SeqInv, ReplyInv, Disturbed,
         NoFrames, NoOuts, Acked, SizesInv, CallInv, Serving
    <3>2. (~Disturbed /\ apc \notin {"rendering", "filling", "dead"} => NoOuts)'
      BY <1>f, <1>n, Facts, Alone, <2>u, <2>h, <2>m, <2>x DEF SeqInv, ReplyInv, Disturbed,
         NoFrames, NoOuts, Acked, SizesInv, CallInv, Serving
    <3>3. (~Disturbed /\ apc \in {"rendering", "filling"} =>
           \A i \in 1 .. Len(fromInner) : fromInner[i].kind = "out" =>
             i = Len(fromInner) /\ fromInner[i].image = call.id /\ toInner = <<>>)'
      BY <1>f, <1>n, Facts, Alone, <2>u, <2>h, <2>m, <2>x DEF SeqInv, ReplyInv, Disturbed,
         NoFrames, NoOuts, Acked, SizesInv, CallInv, Serving
    <3>4. (~Disturbed /\ apc \in {"rendering", "filling"} =>
           \A i \in 1 .. Len(toInner) : toInner[i].kind = "frame" => toInner[i].image = call.id)'
      BY <1>f, <1>n, Facts, Alone, <2>u, <2>h, <2>m, <2>x DEF SeqInv, ReplyInv, Disturbed,
         NoFrames, NoOuts, Acked, SizesInv, CallInv, Serving
    <3>5. (~Disturbed /\ apc = "filling" => fromInner # <<>> /\ fromInner[1].kind = "out")'
      BY <1>f, <1>n, Facts, Alone, <2>u, <2>h, <2>m, <2>x DEF SeqInv, ReplyInv, Disturbed,
         NoFrames, NoOuts, Acked, SizesInv, CallInv, Serving
    <3>6. (~Disturbed /\ apc = "answering" /\ taken.mode = 0 /\ taken.ok => outBuf = call.id)'
      BY <1>f, <1>n, Facts, Alone, <2>u, <2>h, <2>m, <2>x DEF SeqInv, ReplyInv, Disturbed,
         NoFrames, NoOuts, Acked, SizesInv, CallInv, Serving
    <3>7. (~Disturbed /\ pc = "waiting" /\ call.kind = "frame" /\ Acked /\ ctl.ok => outBuf = call.id)'
      BY <1>f, <1>n, Facts, Alone, <2>u, <2>h, <2>m, <2>x DEF SeqInv, ReplyInv, Disturbed,
         NoFrames, NoOuts, Acked, SizesInv, CallInv, Serving
    <3>8. (~Disturbed /\ pc = "reading" => outBuf = call.id)'
      BY <1>f, <1>n, Facts, Alone, <2>u, <2>h, <2>m, <2>x DEF SeqInv, ReplyInv, Disturbed,
         NoFrames, NoOuts, Acked, SizesInv, CallInv, Serving
    <3>9. (~Disturbed /\ pc # "waiting" => ctl.ack_seq = seq)'
      BY <1>f, <1>n, Facts, Alone, <2>u, <2>h, <2>m, <2>x DEF SeqInv, ReplyInv, Disturbed,
         NoFrames, NoOuts, Acked, SizesInv, CallInv, Serving
    <3> QED
      BY <3>1, <3>2, <3>3, <3>4, <3>5, <3>6, <3>7, <3>8, <3>9 DEF ReplyInv
  <2> QED
    BY <2>1, <2>2, <2>3, <2>4, <2>5 DEF Agreed
<1>9. CASE SkipAck
  <2>u. UNCHANGED <<ctl, inBuf, outBuf, pc, seq, size, out, call, timeouts, returned, apc, next,
                    cur, taken, toInner, inner, rejects>>
    BY <1>9 DEF SkipAck, Requested, adapter
  <2>h. apc = "rendering" /\ Head(fromInner).kind = "ack" /\ fromInner # <<>> /\ fromInner' = Tail(fromInner)
    BY <1>9 DEF SkipAck, Requested, adapter
  <2>m. /\ Head(fromInner) = fromInner[1] /\ 1 \in 1 .. Len(fromInner) /\ Len(fromInner) \in Nat
        /\ Len(fromInner') = Len(fromInner) - 1
        /\ \A i \in 1 .. Len(fromInner') :
             fromInner'[i] = fromInner[i + 1] /\ i + 1 \in 1 .. Len(fromInner) /\ 1 < i + 1
    <3>1. fromInner \in Seq(Replies) /\ fromInner # <<>> /\ fromInner' = Tail(fromInner)
      BY <1>f, <2>h, Facts
    <3> QED
      BY <3>1, TakenFrom
  <2>1. StartInv'
    BY <2>u, Untouched
  <2>2. CallInv'
    BY <2>u, Untouched
  <2>3. SizesInv'
    BY <2>u, Untouched
  <2>4. PipeInv'
    BY <2>u, Untouched
  <2>5. ReplyInv'
    <3>1. (~Disturbed => \A i \in 1 .. Len(fromInner) : fromInner[i].kind = "ack" => fromInner[i].ok)'
      <4>1. Disturbed' <=> Disturbed
        BY <2>u DEF Disturbed
      <4>2. ~Disturbed => \A i \in 1 .. Len(fromInner) : fromInner[i].kind = "ack" => fromInner[i].ok
        BY <1>f DEF ReplyInv
      <4>3. \A i \in 1 .. Len(fromInner') : fromInner'[i] = fromInner[i + 1] /\ i + 1 \in 1 .. Len(fromInner)
        BY <2>m
      <4> QED
        BY <4>1, <4>2, <4>3
    <3>2. (~Disturbed /\ apc \notin {"rendering", "filling", "dead"} => NoOuts)'
      BY <1>f, <1>n, Facts, Alone, <2>u, <2>h, <2>m DEF SeqInv, ReplyInv, Disturbed, NoFrames,
         NoOuts, Acked, SizesInv, CallInv, Serving
    <3>3. (~Disturbed /\ apc \in {"rendering", "filling"} =>
           \A i \in 1 .. Len(fromInner) : fromInner[i].kind = "out" =>
             i = Len(fromInner) /\ fromInner[i].image = call.id /\ toInner = <<>>)'
      <4>1. (Disturbed' <=> Disturbed) /\ toInner' = toInner
        BY <2>u DEF Disturbed
      <4>2. apc' = apc /\ call' = call
        BY <2>u
      <4>3. ~Disturbed => \A i \in 1 .. Len(fromInner) : fromInner[i].kind = "out" =>
              i = Len(fromInner) /\ fromInner[i].image = call.id /\ toInner = <<>>
        BY <1>f, <2>h DEF ReplyInv
      <4>4. \A i \in 1 .. Len(fromInner') : fromInner'[i] = fromInner[i + 1] /\ i + 1 \in 1 .. Len(fromInner)
              /\ (i + 1 = Len(fromInner) => i = Len(fromInner'))
        BY <2>m
      <4> QED
        BY <4>1, <4>2, <4>3, <4>4
    <3>4. (~Disturbed /\ apc \in {"rendering", "filling"} =>
           \A i \in 1 .. Len(toInner) : toInner[i].kind = "frame" => toInner[i].image = call.id)'
      BY <1>f, <1>n, Facts, Alone, <2>u, <2>h, <2>m DEF SeqInv, ReplyInv, Disturbed, NoFrames,
         NoOuts, Acked, SizesInv, CallInv, Serving
    <3>5. (~Disturbed /\ apc = "filling" => fromInner # <<>> /\ fromInner[1].kind = "out")'
      BY <1>f, <1>n, Facts, Alone, <2>u, <2>h, <2>m DEF SeqInv, ReplyInv, Disturbed, NoFrames,
         NoOuts, Acked, SizesInv, CallInv, Serving
    <3>6. (~Disturbed /\ apc = "answering" /\ taken.mode = 0 /\ taken.ok => outBuf = call.id)'
      BY <1>f, <1>n, Facts, Alone, <2>u, <2>h, <2>m DEF SeqInv, ReplyInv, Disturbed, NoFrames,
         NoOuts, Acked, SizesInv, CallInv, Serving
    <3>7. (~Disturbed /\ pc = "waiting" /\ call.kind = "frame" /\ Acked /\ ctl.ok => outBuf = call.id)'
      BY <1>f, <1>n, Facts, Alone, <2>u, <2>h, <2>m DEF SeqInv, ReplyInv, Disturbed, NoFrames,
         NoOuts, Acked, SizesInv, CallInv, Serving
    <3>8. (~Disturbed /\ pc = "reading" => outBuf = call.id)'
      BY <1>f, <1>n, Facts, Alone, <2>u, <2>h, <2>m DEF SeqInv, ReplyInv, Disturbed, NoFrames,
         NoOuts, Acked, SizesInv, CallInv, Serving
    <3>9. (~Disturbed /\ pc # "waiting" => ctl.ack_seq = seq)'
      BY <1>f, <1>n, Facts, Alone, <2>u, <2>h, <2>m DEF SeqInv, ReplyInv, Disturbed, NoFrames,
         NoOuts, Acked, SizesInv, CallInv, Serving
    <3> QED
      BY <3>1, <3>2, <3>3, <3>4, <3>5, <3>6, <3>7, <3>8, <3>9 DEF ReplyInv
  <2> QED
    BY <2>1, <2>2, <2>3, <2>4, <2>5 DEF Agreed
<1>10. CASE FrameReply
  <2>u. UNCHANGED <<ctl, inBuf, pc, seq, size, out, call, timeouts, returned, next, cur, taken,
                    toInner, inner, rejects>>
    BY <1>10 DEF FrameReply, Requested
  <2>h. apc = "rendering" /\ fromInner # <<>> /\ Head(fromInner).kind = "out"
        /\ \/ apc' = "filling" /\ fromInner' = fromInner
           \/ apc' = "answering" /\ fromInner' = Tail(fromInner)
    BY <1>10 DEF FrameReply, Requested
  <2>m. fromInner' # fromInner => 
           /\ Head(fromInner) = fromInner[1] /\ 1 \in 1 .. Len(fromInner) /\ Len(fromInner) \in Nat
           /\ Len(fromInner') = Len(fromInner) - 1
           /\ \A i \in 1 .. Len(fromInner') :
                fromInner'[i] = fromInner[i + 1] /\ i + 1 \in 1 .. Len(fromInner) /\ 1 < i + 1
    <3> SUFFICES ASSUME fromInner' # fromInner
                 PROVE  /\ Head(fromInner) = fromInner[1] /\ 1 \in 1 .. Len(fromInner) /\ Len(fromInner) \in Nat
                 /\ Len(fromInner') = Len(fromInner) - 1
                 /\ \A i \in 1 .. Len(fromInner') :
                      fromInner'[i] = fromInner[i + 1] /\ i + 1 \in 1 .. Len(fromInner) /\ 1 < i + 1
      OBVIOUS
    <3>1. fromInner \in Seq(Replies) /\ fromInner # <<>> /\ fromInner' = Tail(fromInner)
      BY <1>f, <2>h, Facts
    <3> QED
      BY <3>1, TakenFrom
  <2>x. ~Disturbed => toInner = <<>> /\ NoFrames
    <3>1. Head(fromInner) = fromInner[1] /\ 1 \in 1 .. Len(fromInner)
      BY <1>f, <2>h, Facts
    <3>2. ~Disturbed => toInner = <<>>
      BY <1>f, <2>h, <3>1 DEF ReplyInv
    <3> QED
      BY <3>2 DEF NoFrames
  <2>1. StartInv'
    BY <1>f, <1>n, Facts, Alone, <2>u, <2>h, <2>m, <2>x DEF SeqInv, StartInv, Unstarted, CallInv,
       InConstructor, Serving, primed
  <2>2. CallInv'
    BY <1>f, <1>n, Facts, Alone, <2>u, <2>h, <2>m, <2>x DEF SeqInv, CallInv, InConstructor
  <2>3. SizesInv'
    BY <1>f, <1>n, Facts, Alone, <2>u, <2>h, <2>m, <2>x DEF SeqInv, SizesInv, Disturbed, Serving,
       Acked, CallInv
  <2>4. PipeInv'
    <3>1. (~Disturbed /\ inner.up # "dead" => inner.up # "starved")'
      BY <1>f, <1>n, Facts, Alone, <2>u, <2>h, <2>m, <2>x DEF SeqInv, PipeInv, Disturbed, NoFrames,
         LeftAt, SizesInv, StartInv, primed, Serving
    <3>2. (~Disturbed /\ inner.up # "dead" =>
           \A i \in 1 .. Len(toInner) : toInner[i].kind = "frame" =>
             /\ i = Len(toInner)
             /\ toInner[i].size = IF i = 1 THEN inner.size ELSE toInner[i - 1].size)'
      BY <1>f, <1>n, Facts, Alone, <2>u, <2>h, <2>m, <2>x DEF SeqInv, PipeInv, Disturbed, NoFrames,
         LeftAt, SizesInv, StartInv, primed, Serving
    <3>3. (~Disturbed /\ inner.up # "dead" /\ apc # "dead" =>
           LeftAt = IF apc = "resizing" THEN taken.size ELSE cur)'
      BY <1>f, <1>n, Facts, Alone, <2>u, <2>h, <2>m, <2>x DEF SeqInv, PipeInv, Disturbed, NoFrames,
         LeftAt, SizesInv, StartInv, primed, Serving
    <3>4. (~Disturbed /\ inner.up # "dead" /\ apc \notin {"rendering", "dead"} => NoFrames)'
      BY <1>f, <1>n, Facts, Alone, <2>u, <2>h, <2>m, <2>x DEF SeqInv, PipeInv, Disturbed, NoFrames,
         LeftAt, SizesInv, StartInv, primed, Serving
    <3> QED
      BY <3>1, <3>2, <3>3, <3>4 DEF PipeInv
  <2>5. ReplyInv'
    <3>1. (~Disturbed => \A i \in 1 .. Len(fromInner) : fromInner[i].kind = "ack" => fromInner[i].ok)'
      BY <1>f, <1>n, Facts, Alone, <2>u, <2>h, <2>m, <2>x DEF SeqInv, ReplyInv, Disturbed,
         NoFrames, NoOuts, Acked, SizesInv, CallInv, Serving
    <3>2. (~Disturbed /\ apc \notin {"rendering", "filling", "dead"} => NoOuts)'
      BY <1>f, <1>n, Facts, Alone, <2>u, <2>h, <2>m, <2>x DEF SeqInv, ReplyInv, Disturbed,
         NoFrames, NoOuts, Acked, SizesInv, CallInv, Serving
    <3>3. (~Disturbed /\ apc \in {"rendering", "filling"} =>
           \A i \in 1 .. Len(fromInner) : fromInner[i].kind = "out" =>
             i = Len(fromInner) /\ fromInner[i].image = call.id /\ toInner = <<>>)'
      BY <1>f, <1>n, Facts, Alone, <2>u, <2>h, <2>m, <2>x DEF SeqInv, ReplyInv, Disturbed,
         NoFrames, NoOuts, Acked, SizesInv, CallInv, Serving
    <3>4. (~Disturbed /\ apc \in {"rendering", "filling"} =>
           \A i \in 1 .. Len(toInner) : toInner[i].kind = "frame" => toInner[i].image = call.id)'
      BY <1>f, <1>n, Facts, Alone, <2>u, <2>h, <2>m, <2>x DEF SeqInv, ReplyInv, Disturbed,
         NoFrames, NoOuts, Acked, SizesInv, CallInv, Serving
    <3>5. (~Disturbed /\ apc = "filling" => fromInner # <<>> /\ fromInner[1].kind = "out")'
      BY <1>f, <1>n, Facts, Alone, <2>u, <2>h, <2>m, <2>x DEF SeqInv, ReplyInv, Disturbed,
         NoFrames, NoOuts, Acked, SizesInv, CallInv, Serving
    <3>6. (~Disturbed /\ apc = "answering" /\ taken.mode = 0 /\ taken.ok => outBuf = call.id)'
      BY <1>f, <1>n, Facts, Alone, <2>u, <2>h, <2>m, <2>x DEF SeqInv, ReplyInv, Disturbed,
         NoFrames, NoOuts, Acked, SizesInv, CallInv, Serving
    <3>7. (~Disturbed /\ pc = "waiting" /\ call.kind = "frame" /\ Acked /\ ctl.ok => outBuf = call.id)'
      BY <1>f, <1>n, Facts, Alone, <2>u, <2>h, <2>m, <2>x DEF SeqInv, ReplyInv, Disturbed,
         NoFrames, NoOuts, Acked, SizesInv, CallInv, Serving
    <3>8. (~Disturbed /\ pc = "reading" => outBuf = call.id)'
      BY <1>f, <1>n, Facts, Alone, <2>u, <2>h, <2>m, <2>x DEF SeqInv, ReplyInv, Disturbed,
         NoFrames, NoOuts, Acked, SizesInv, CallInv, Serving
    <3>9. (~Disturbed /\ pc # "waiting" => ctl.ack_seq = seq)'
      BY <1>f, <1>n, Facts, Alone, <2>u, <2>h, <2>m, <2>x DEF SeqInv, ReplyInv, Disturbed,
         NoFrames, NoOuts, Acked, SizesInv, CallInv, Serving
    <3> QED
      BY <3>1, <3>2, <3>3, <3>4, <3>5, <3>6, <3>7, <3>8, <3>9 DEF ReplyInv
  <2> QED
    BY <2>1, <2>2, <2>3, <2>4, <2>5 DEF Agreed
<1>11. CASE FillOut
  <2>u. UNCHANGED <<ctl, inBuf, pc, seq, size, out, call, timeouts, returned, next, cur, toInner,
                    inner, rejects>>
    BY <1>11 DEF FillOut, Requested
  <2>h. apc = "filling" /\ apc' = "answering" /\ outBuf' = Head(fromInner).image
        /\ taken' = [taken EXCEPT !.ok = TRUE] /\ fromInner # <<>> /\ fromInner' = Tail(fromInner)
    BY <1>11 DEF FillOut, Requested
  <2>m. /\ Head(fromInner) = fromInner[1] /\ 1 \in 1 .. Len(fromInner) /\ Len(fromInner) \in Nat
        /\ Len(fromInner') = Len(fromInner) - 1
        /\ \A i \in 1 .. Len(fromInner') :
             fromInner'[i] = fromInner[i + 1] /\ i + 1 \in 1 .. Len(fromInner) /\ 1 < i + 1
    <3>1. fromInner \in Seq(Replies) /\ fromInner # <<>> /\ fromInner' = Tail(fromInner)
      BY <1>f, <2>h, Facts
    <3> QED
      BY <3>1, TakenFrom
  <2>x. ~Disturbed => Len(fromInner) = 1 /\ fromInner[1].image = call.id
    BY <1>f, <2>h, <2>m DEF ReplyInv
  <2>1. StartInv'
    BY <1>f, <1>n, Facts, Alone, <2>u, <2>h, <2>m, <2>x DEF SeqInv, StartInv, Unstarted, CallInv,
       InConstructor, Serving, primed
  <2>2. CallInv'
    BY <1>f, <1>n, Facts, Alone, <2>u, <2>h, <2>m, <2>x DEF SeqInv, CallInv, InConstructor
  <2>3. SizesInv'
    BY <1>f, <1>n, Facts, Alone, <2>u, <2>h, <2>m, <2>x DEF SeqInv, SizesInv, Disturbed, Serving,
       Acked, CallInv
  <2>4. PipeInv'
    <3>1. (~Disturbed /\ inner.up # "dead" => inner.up # "starved")'
      BY <1>f, <1>n, Facts, Alone, <2>u, <2>h, <2>m, <2>x DEF SeqInv, PipeInv, Disturbed, NoFrames,
         LeftAt, SizesInv, StartInv, primed, Serving
    <3>2. (~Disturbed /\ inner.up # "dead" =>
           \A i \in 1 .. Len(toInner) : toInner[i].kind = "frame" =>
             /\ i = Len(toInner)
             /\ toInner[i].size = IF i = 1 THEN inner.size ELSE toInner[i - 1].size)'
      BY <1>f, <1>n, Facts, Alone, <2>u, <2>h, <2>m, <2>x DEF SeqInv, PipeInv, Disturbed, NoFrames,
         LeftAt, SizesInv, StartInv, primed, Serving
    <3>3. (~Disturbed /\ inner.up # "dead" /\ apc # "dead" =>
           LeftAt = IF apc = "resizing" THEN taken.size ELSE cur)'
      BY <1>f, <1>n, Facts, Alone, <2>u, <2>h, <2>m, <2>x DEF SeqInv, PipeInv, Disturbed, NoFrames,
         LeftAt, SizesInv, StartInv, primed, Serving
    <3>4. (~Disturbed /\ inner.up # "dead" /\ apc \notin {"rendering", "dead"} => NoFrames)'
      BY <1>f, <1>n, Facts, Alone, <2>u, <2>h, <2>m, <2>x DEF SeqInv, PipeInv, Disturbed, NoFrames,
         LeftAt, SizesInv, StartInv, primed, Serving
    <3> QED
      BY <3>1, <3>2, <3>3, <3>4 DEF PipeInv
  <2>5. ReplyInv'
    <3>1. (~Disturbed => \A i \in 1 .. Len(fromInner) : fromInner[i].kind = "ack" => fromInner[i].ok)'
      BY <1>f, <1>n, Facts, Alone, <2>u, <2>h, <2>m, <2>x DEF SeqInv, ReplyInv, Disturbed,
         NoFrames, NoOuts, Acked, SizesInv, CallInv, Serving
    <3>2. (~Disturbed /\ apc \notin {"rendering", "filling", "dead"} => NoOuts)'
      <4>1. Disturbed' <=> Disturbed
        BY <2>u DEF Disturbed
      <4>2. ~Disturbed => Len(fromInner') = 0
        <5>1. Len(fromInner') = Len(fromInner) - 1
          BY <2>m
        <5> QED
          BY <2>x, <5>1
      <4> QED
        BY <4>1, <4>2 DEF NoOuts
    <3>3. (~Disturbed /\ apc \in {"rendering", "filling"} =>
           \A i \in 1 .. Len(fromInner) : fromInner[i].kind = "out" =>
             i = Len(fromInner) /\ fromInner[i].image = call.id /\ toInner = <<>>)'
      BY <1>f, <1>n, Facts, Alone, <2>u, <2>h, <2>m, <2>x DEF SeqInv, ReplyInv, Disturbed,
         NoFrames, NoOuts, Acked, SizesInv, CallInv, Serving
    <3>4. (~Disturbed /\ apc \in {"rendering", "filling"} =>
           \A i \in 1 .. Len(toInner) : toInner[i].kind = "frame" => toInner[i].image = call.id)'
      BY <1>f, <1>n, Facts, Alone, <2>u, <2>h, <2>m, <2>x DEF SeqInv, ReplyInv, Disturbed,
         NoFrames, NoOuts, Acked, SizesInv, CallInv, Serving
    <3>5. (~Disturbed /\ apc = "filling" => fromInner # <<>> /\ fromInner[1].kind = "out")'
      BY <1>f, <1>n, Facts, Alone, <2>u, <2>h, <2>m, <2>x DEF SeqInv, ReplyInv, Disturbed,
         NoFrames, NoOuts, Acked, SizesInv, CallInv, Serving
    <3>6. (~Disturbed /\ apc = "answering" /\ taken.mode = 0 /\ taken.ok => outBuf = call.id)'
      BY <1>f, <1>n, Facts, Alone, <2>u, <2>h, <2>m, <2>x DEF SeqInv, ReplyInv, Disturbed,
         NoFrames, NoOuts, Acked, SizesInv, CallInv, Serving
    <3>7. (~Disturbed /\ pc = "waiting" /\ call.kind = "frame" /\ Acked /\ ctl.ok => outBuf = call.id)'
      BY <1>f, <1>n, Facts, Alone, <2>u, <2>h, <2>m, <2>x DEF SeqInv, ReplyInv, Disturbed,
         NoFrames, NoOuts, Acked, SizesInv, CallInv, Serving
    <3>8. (~Disturbed /\ pc = "reading" => outBuf = call.id)'
      BY <1>f, <1>n, Facts, Alone, <2>u, <2>h, <2>m, <2>x DEF SeqInv, ReplyInv, Disturbed,
         NoFrames, NoOuts, Acked, SizesInv, CallInv, Serving
    <3>9. (~Disturbed /\ pc # "waiting" => ctl.ack_seq = seq)'
      BY <1>f, <1>n, Facts, Alone, <2>u, <2>h, <2>m, <2>x DEF SeqInv, ReplyInv, Disturbed,
         NoFrames, NoOuts, Acked, SizesInv, CallInv, Serving
    <3> QED
      BY <3>1, <3>2, <3>3, <3>4, <3>5, <3>6, <3>7, <3>8, <3>9 DEF ReplyInv
  <2> QED
    BY <2>1, <2>2, <2>3, <2>4, <2>5 DEF Agreed
<1>12. CASE PipeBroken
  <2>u. UNCHANGED <<ctl, inBuf, outBuf, pc, seq, size, out, call, timeouts, returned, next, cur,
                    taken, toInner, inner, rejects>>
    BY <1>12 DEF PipeBroken, Requested
  <2>h. /\ inner.up = "dead" /\ apc' = "answering"
        /\ \/ apc \in {"resizing", "rendering"} /\ fromInner = <<>> /\ fromInner' = fromInner
           \/ apc = "filling" /\ fromInner # <<>> /\ fromInner' = Tail(fromInner)
    BY <1>12 DEF PipeBroken, Requested
  <2>m. apc = "filling" => 
           /\ Head(fromInner) = fromInner[1] /\ 1 \in 1 .. Len(fromInner) /\ Len(fromInner) \in Nat
           /\ Len(fromInner') = Len(fromInner) - 1
           /\ \A i \in 1 .. Len(fromInner') :
                fromInner'[i] = fromInner[i + 1] /\ i + 1 \in 1 .. Len(fromInner) /\ 1 < i + 1
    <3> SUFFICES ASSUME apc = "filling"
                 PROVE  /\ Head(fromInner) = fromInner[1] /\ 1 \in 1 .. Len(fromInner) /\ Len(fromInner) \in Nat
                 /\ Len(fromInner') = Len(fromInner) - 1
                 /\ \A i \in 1 .. Len(fromInner') :
                      fromInner'[i] = fromInner[i + 1] /\ i + 1 \in 1 .. Len(fromInner) /\ 1 < i + 1
      OBVIOUS
    <3>1. fromInner \in Seq(Replies) /\ fromInner # <<>> /\ fromInner' = Tail(fromInner)
      BY <1>f, <2>h, Facts
    <3> QED
      BY <3>1, TakenFrom
  <2>1. StartInv'
    BY <1>f, <1>n, Facts, Alone, <2>u, <2>h, <2>m DEF SeqInv, StartInv, Unstarted, CallInv, InConstructor,
       Serving, primed
  <2>2. CallInv'
    BY <1>f, <1>n, Facts, Alone, <2>u, <2>h, <2>m DEF SeqInv, CallInv, InConstructor
  <2>3. SizesInv'
    BY <1>f, <1>n, Facts, Alone, <2>u, <2>h, <2>m DEF SeqInv, SizesInv, Disturbed, Serving, Acked,
       CallInv
  <2>4. PipeInv'
    <3>1. (~Disturbed /\ inner.up # "dead" => inner.up # "starved")'
      BY <1>f, <1>n, Facts, Alone, <2>u, <2>h, <2>m DEF SeqInv, PipeInv, Disturbed, NoFrames,
         LeftAt, SizesInv, StartInv, primed, Serving
    <3>2. (~Disturbed /\ inner.up # "dead" =>
           \A i \in 1 .. Len(toInner) : toInner[i].kind = "frame" =>
             /\ i = Len(toInner)
             /\ toInner[i].size = IF i = 1 THEN inner.size ELSE toInner[i - 1].size)'
      BY <1>f, <1>n, Facts, Alone, <2>u, <2>h, <2>m DEF SeqInv, PipeInv, Disturbed, NoFrames,
         LeftAt, SizesInv, StartInv, primed, Serving
    <3>3. (~Disturbed /\ inner.up # "dead" /\ apc # "dead" =>
           LeftAt = IF apc = "resizing" THEN taken.size ELSE cur)'
      BY <1>f, <1>n, Facts, Alone, <2>u, <2>h, <2>m DEF SeqInv, PipeInv, Disturbed, NoFrames,
         LeftAt, SizesInv, StartInv, primed, Serving
    <3>4. (~Disturbed /\ inner.up # "dead" /\ apc \notin {"rendering", "dead"} => NoFrames)'
      BY <1>f, <1>n, Facts, Alone, <2>u, <2>h, <2>m DEF SeqInv, PipeInv, Disturbed, NoFrames,
         LeftAt, SizesInv, StartInv, primed, Serving
    <3> QED
      BY <3>1, <3>2, <3>3, <3>4 DEF PipeInv
  <2>5. ReplyInv'
    <3>1. (~Disturbed => \A i \in 1 .. Len(fromInner) : fromInner[i].kind = "ack" => fromInner[i].ok)'
      BY <1>f, <1>n, Facts, Alone, <2>u, <2>h, <2>m DEF SeqInv, ReplyInv, Disturbed, NoFrames,
         NoOuts, Acked, SizesInv, CallInv, Serving
    <3>2. (~Disturbed /\ apc \notin {"rendering", "filling", "dead"} => NoOuts)'
      BY <1>f, <1>n, Facts, Alone, <2>u, <2>h, <2>m DEF SeqInv, ReplyInv, Disturbed, NoFrames,
         NoOuts, Acked, SizesInv, CallInv, Serving
    <3>3. (~Disturbed /\ apc \in {"rendering", "filling"} =>
           \A i \in 1 .. Len(fromInner) : fromInner[i].kind = "out" =>
             i = Len(fromInner) /\ fromInner[i].image = call.id /\ toInner = <<>>)'
      BY <1>f, <1>n, Facts, Alone, <2>u, <2>h, <2>m DEF SeqInv, ReplyInv, Disturbed, NoFrames,
         NoOuts, Acked, SizesInv, CallInv, Serving
    <3>4. (~Disturbed /\ apc \in {"rendering", "filling"} =>
           \A i \in 1 .. Len(toInner) : toInner[i].kind = "frame" => toInner[i].image = call.id)'
      BY <1>f, <1>n, Facts, Alone, <2>u, <2>h, <2>m DEF SeqInv, ReplyInv, Disturbed, NoFrames,
         NoOuts, Acked, SizesInv, CallInv, Serving
    <3>5. (~Disturbed /\ apc = "filling" => fromInner # <<>> /\ fromInner[1].kind = "out")'
      BY <1>f, <1>n, Facts, Alone, <2>u, <2>h, <2>m DEF SeqInv, ReplyInv, Disturbed, NoFrames,
         NoOuts, Acked, SizesInv, CallInv, Serving
    <3>6. (~Disturbed /\ apc = "answering" /\ taken.mode = 0 /\ taken.ok => outBuf = call.id)'
      BY <1>f, <1>n, Facts, Alone, <2>u, <2>h, <2>m DEF SeqInv, ReplyInv, Disturbed, NoFrames,
         NoOuts, Acked, SizesInv, CallInv, Serving
    <3>7. (~Disturbed /\ pc = "waiting" /\ call.kind = "frame" /\ Acked /\ ctl.ok => outBuf = call.id)'
      BY <1>f, <1>n, Facts, Alone, <2>u, <2>h, <2>m DEF SeqInv, ReplyInv, Disturbed, NoFrames,
         NoOuts, Acked, SizesInv, CallInv, Serving
    <3>8. (~Disturbed /\ pc = "reading" => outBuf = call.id)'
      BY <1>f, <1>n, Facts, Alone, <2>u, <2>h, <2>m DEF SeqInv, ReplyInv, Disturbed, NoFrames,
         NoOuts, Acked, SizesInv, CallInv, Serving
    <3>9. (~Disturbed /\ pc # "waiting" => ctl.ack_seq = seq)'
      BY <1>f, <1>n, Facts, Alone, <2>u, <2>h, <2>m DEF SeqInv, ReplyInv, Disturbed, NoFrames,
         NoOuts, Acked, SizesInv, CallInv, Serving
    <3> QED
      BY <3>1, <3>2, <3>3, <3>4, <3>5, <3>6, <3>7, <3>8, <3>9 DEF ReplyInv
  <2> QED
    BY <2>1, <2>2, <2>3, <2>4, <2>5 DEF Agreed
<1>13. CASE Answer
  <2>u. UNCHANGED <<inBuf, outBuf, pc, seq, size, out, call, timeouts, returned, cur, taken,
                    toInner, fromInner, inner, rejects>>
    BY <1>13 DEF Answer, Requested
  <2>h. apc = "answering" /\ apc' = "polling" /\ next' = next + 1
    BY <1>13 DEF Answer, Requested
  <2>w. /\ ctl'.ok = taken.ok /\ ctl'.ack_seq = next
        /\ ctl'.out = (IF taken.mode = 1 THEN cur ELSE ctl.out)
        /\ ctl'.req_seq = ctl.req_seq /\ ctl'.req_mode = ctl.req_mode /\ ctl'.size = ctl.size
    BY <1>f, <1>13, Words
  <2>1. StartInv'
    BY <1>f, <1>n, Facts, Alone, <2>u, <2>h, <2>w DEF SeqInv, StartInv, Unstarted, CallInv, InConstructor,
       Serving, primed
  <2>2. CallInv'
    BY <1>f, <1>n, Facts, Alone, <2>u, <2>h, <2>w DEF SeqInv, CallInv, InConstructor
  <2>3. SizesInv'
    BY <1>f, <1>n, Facts, Alone, <2>u, <2>h, <2>w DEF SeqInv, SizesInv, Disturbed, Serving, Acked,
       CallInv
  <2>4. PipeInv'
    <3>1. (~Disturbed /\ inner.up # "dead" => inner.up # "starved")'
      BY <1>f, <1>n, Facts, Alone, <2>u, <2>h, <2>w DEF SeqInv, PipeInv, Disturbed, NoFrames,
         LeftAt, SizesInv, StartInv, primed, Serving
    <3>2. (~Disturbed /\ inner.up # "dead" =>
           \A i \in 1 .. Len(toInner) : toInner[i].kind = "frame" =>
             /\ i = Len(toInner)
             /\ toInner[i].size = IF i = 1 THEN inner.size ELSE toInner[i - 1].size)'
      BY <1>f, <1>n, Facts, Alone, <2>u, <2>h, <2>w DEF SeqInv, PipeInv, Disturbed, NoFrames,
         LeftAt, SizesInv, StartInv, primed, Serving
    <3>3. (~Disturbed /\ inner.up # "dead" /\ apc # "dead" =>
           LeftAt = IF apc = "resizing" THEN taken.size ELSE cur)'
      BY <1>f, <1>n, Facts, Alone, <2>u, <2>h, <2>w DEF SeqInv, PipeInv, Disturbed, NoFrames,
         LeftAt, SizesInv, StartInv, primed, Serving
    <3>4. (~Disturbed /\ inner.up # "dead" /\ apc \notin {"rendering", "dead"} => NoFrames)'
      BY <1>f, <1>n, Facts, Alone, <2>u, <2>h, <2>w DEF SeqInv, PipeInv, Disturbed, NoFrames,
         LeftAt, SizesInv, StartInv, primed, Serving
    <3> QED
      BY <3>1, <3>2, <3>3, <3>4 DEF PipeInv
  <2>5. ReplyInv'
    <3>1. (~Disturbed => \A i \in 1 .. Len(fromInner) : fromInner[i].kind = "ack" => fromInner[i].ok)'
      BY <1>f, <1>n, Facts, Alone, <2>u, <2>h, <2>w DEF SeqInv, ReplyInv, Disturbed, NoFrames,
         NoOuts, Acked, SizesInv, CallInv, Serving
    <3>2. (~Disturbed /\ apc \notin {"rendering", "filling", "dead"} => NoOuts)'
      BY <1>f, <1>n, Facts, Alone, <2>u, <2>h, <2>w DEF SeqInv, ReplyInv, Disturbed, NoFrames,
         NoOuts, Acked, SizesInv, CallInv, Serving
    <3>3. (~Disturbed /\ apc \in {"rendering", "filling"} =>
           \A i \in 1 .. Len(fromInner) : fromInner[i].kind = "out" =>
             i = Len(fromInner) /\ fromInner[i].image = call.id /\ toInner = <<>>)'
      BY <1>f, <1>n, Facts, Alone, <2>u, <2>h, <2>w DEF SeqInv, ReplyInv, Disturbed, NoFrames,
         NoOuts, Acked, SizesInv, CallInv, Serving
    <3>4. (~Disturbed /\ apc \in {"rendering", "filling"} =>
           \A i \in 1 .. Len(toInner) : toInner[i].kind = "frame" => toInner[i].image = call.id)'
      BY <1>f, <1>n, Facts, Alone, <2>u, <2>h, <2>w DEF SeqInv, ReplyInv, Disturbed, NoFrames,
         NoOuts, Acked, SizesInv, CallInv, Serving
    <3>5. (~Disturbed /\ apc = "filling" => fromInner # <<>> /\ fromInner[1].kind = "out")'
      BY <1>f, <1>n, Facts, Alone, <2>u, <2>h, <2>w DEF SeqInv, ReplyInv, Disturbed, NoFrames,
         NoOuts, Acked, SizesInv, CallInv, Serving
    <3>6. (~Disturbed /\ apc = "answering" /\ taken.mode = 0 /\ taken.ok => outBuf = call.id)'
      BY <1>f, <1>n, Facts, Alone, <2>u, <2>h, <2>w DEF SeqInv, ReplyInv, Disturbed, NoFrames,
         NoOuts, Acked, SizesInv, CallInv, Serving
    <3>7. (~Disturbed /\ pc = "waiting" /\ call.kind = "frame" /\ Acked /\ ctl.ok => outBuf = call.id)'
      BY <1>f, <1>n, Facts, Alone, <2>u, <2>h, <2>w DEF SeqInv, ReplyInv, Disturbed, NoFrames,
         NoOuts, Acked, SizesInv, CallInv, Serving
    <3>8. (~Disturbed /\ pc = "reading" => outBuf = call.id)'
      BY <1>f, <1>n, Facts, Alone, <2>u, <2>h, <2>w DEF SeqInv, ReplyInv, Disturbed, NoFrames,
         NoOuts, Acked, SizesInv, CallInv, Serving
    <3>9. (~Disturbed /\ pc # "waiting" => ctl.ack_seq = seq)'
      BY <1>f, <1>n, Facts, Alone, <2>u, <2>h, <2>w DEF SeqInv, ReplyInv, Disturbed, NoFrames,
         NoOuts, Acked, SizesInv, CallInv, Serving
    <3> QED
      BY <3>1, <3>2, <3>3, <3>4, <3>5, <3>6, <3>7, <3>8, <3>9 DEF ReplyInv
  <2> QED
    BY <2>1, <2>2, <2>3, <2>4, <2>5 DEF Agreed
<1>14. CASE AdapterDies
  <2>u. UNCHANGED <<ctl, inBuf, outBuf, pc, seq, size, out, call, timeouts, returned, next, cur,
                    taken, toInner, fromInner, inner, rejects>>
    BY <1>14 DEF AdapterDies, Requested
  <2>h. apc' = "dead"
    BY <1>14 DEF AdapterDies, Requested
  <2>1. StartInv'
    BY <1>f, <1>n, Facts, Alone, <2>u, <2>h DEF SeqInv, StartInv, Unstarted, CallInv, InConstructor, Serving,
       primed
  <2>2. CallInv'
    BY <1>f, <1>n, Facts, Alone, <2>u, <2>h DEF SeqInv, CallInv, InConstructor
  <2>3. SizesInv'
    BY <1>f, <1>n, Facts, Alone, <2>u, <2>h DEF SeqInv, SizesInv, Disturbed, Serving, Acked, CallInv
  <2>4. PipeInv'
    <3>1. (~Disturbed /\ inner.up # "dead" => inner.up # "starved")'
      BY <1>f, <1>n, Facts, Alone, <2>u, <2>h DEF SeqInv, PipeInv, Disturbed, NoFrames, LeftAt,
         SizesInv, StartInv, primed, Serving
    <3>2. (~Disturbed /\ inner.up # "dead" =>
           \A i \in 1 .. Len(toInner) : toInner[i].kind = "frame" =>
             /\ i = Len(toInner)
             /\ toInner[i].size = IF i = 1 THEN inner.size ELSE toInner[i - 1].size)'
      BY <1>f, <1>n, Facts, Alone, <2>u, <2>h DEF SeqInv, PipeInv, Disturbed, NoFrames, LeftAt,
         SizesInv, StartInv, primed, Serving
    <3>3. (~Disturbed /\ inner.up # "dead" /\ apc # "dead" =>
           LeftAt = IF apc = "resizing" THEN taken.size ELSE cur)'
      BY <1>f, <1>n, Facts, Alone, <2>u, <2>h DEF SeqInv, PipeInv, Disturbed, NoFrames, LeftAt,
         SizesInv, StartInv, primed, Serving
    <3>4. (~Disturbed /\ inner.up # "dead" /\ apc \notin {"rendering", "dead"} => NoFrames)'
      BY <1>f, <1>n, Facts, Alone, <2>u, <2>h DEF SeqInv, PipeInv, Disturbed, NoFrames, LeftAt,
         SizesInv, StartInv, primed, Serving
    <3> QED
      BY <3>1, <3>2, <3>3, <3>4 DEF PipeInv
  <2>5. ReplyInv'
    <3>1. (~Disturbed => \A i \in 1 .. Len(fromInner) : fromInner[i].kind = "ack" => fromInner[i].ok)'
      BY <1>f, <1>n, Facts, Alone, <2>u, <2>h DEF SeqInv, ReplyInv, Disturbed, NoFrames, NoOuts,
         Acked, SizesInv, CallInv, Serving
    <3>2. (~Disturbed /\ apc \notin {"rendering", "filling", "dead"} => NoOuts)'
      BY <1>f, <1>n, Facts, Alone, <2>u, <2>h DEF SeqInv, ReplyInv, Disturbed, NoFrames, NoOuts,
         Acked, SizesInv, CallInv, Serving
    <3>3. (~Disturbed /\ apc \in {"rendering", "filling"} =>
           \A i \in 1 .. Len(fromInner) : fromInner[i].kind = "out" =>
             i = Len(fromInner) /\ fromInner[i].image = call.id /\ toInner = <<>>)'
      BY <1>f, <1>n, Facts, Alone, <2>u, <2>h DEF SeqInv, ReplyInv, Disturbed, NoFrames, NoOuts,
         Acked, SizesInv, CallInv, Serving
    <3>4. (~Disturbed /\ apc \in {"rendering", "filling"} =>
           \A i \in 1 .. Len(toInner) : toInner[i].kind = "frame" => toInner[i].image = call.id)'
      BY <1>f, <1>n, Facts, Alone, <2>u, <2>h DEF SeqInv, ReplyInv, Disturbed, NoFrames, NoOuts,
         Acked, SizesInv, CallInv, Serving
    <3>5. (~Disturbed /\ apc = "filling" => fromInner # <<>> /\ fromInner[1].kind = "out")'
      BY <1>f, <1>n, Facts, Alone, <2>u, <2>h DEF SeqInv, ReplyInv, Disturbed, NoFrames, NoOuts,
         Acked, SizesInv, CallInv, Serving
    <3>6. (~Disturbed /\ apc = "answering" /\ taken.mode = 0 /\ taken.ok => outBuf = call.id)'
      BY <1>f, <1>n, Facts, Alone, <2>u, <2>h DEF SeqInv, ReplyInv, Disturbed, NoFrames, NoOuts,
         Acked, SizesInv, CallInv, Serving
    <3>7. (~Disturbed /\ pc = "waiting" /\ call.kind = "frame" /\ Acked /\ ctl.ok => outBuf = call.id)'
      BY <1>f, <1>n, Facts, Alone, <2>u, <2>h DEF SeqInv, ReplyInv, Disturbed, NoFrames, NoOuts,
         Acked, SizesInv, CallInv, Serving
    <3>8. (~Disturbed /\ pc = "reading" => outBuf = call.id)'
      BY <1>f, <1>n, Facts, Alone, <2>u, <2>h DEF SeqInv, ReplyInv, Disturbed, NoFrames, NoOuts,
         Acked, SizesInv, CallInv, Serving
    <3>9. (~Disturbed /\ pc # "waiting" => ctl.ack_seq = seq)'
      BY <1>f, <1>n, Facts, Alone, <2>u, <2>h DEF SeqInv, ReplyInv, Disturbed, NoFrames, NoOuts,
         Acked, SizesInv, CallInv, Serving
    <3> QED
      BY <3>1, <3>2, <3>3, <3>4, <3>5, <3>6, <3>7, <3>8, <3>9 DEF ReplyInv
  <2> QED
    BY <2>1, <2>2, <2>3, <2>4, <2>5 DEF Agreed
<1>15. CASE FirstWriteFails
  <2>u. UNCHANGED <<ctl, inBuf, outBuf, pc, seq, size, out, call, timeouts, returned, next, cur,
                    toInner, fromInner, rejects>>
    BY <1>15 DEF FirstWriteFails, Requested
  <2>h. apc = "polling" /\ next <= ctl.req_seq /\ apc' = "answering" /\ ~primed /\ ctl.req_mode = 1
        /\ taken' = [mode |-> 1, ok |-> FALSE, size |-> ctl.size]
        /\ inner' = [inner EXCEPT !.up = "dead"] /\ inner'.up = "dead"
    BY <1>15 DEF FirstWriteFails, Requested
  <2>x. /\ ctl.ack_seq = 0 /\ ctl.req_seq = 1 /\ InConstructor /\ pc \in {"waiting", "lost"}
        /\ inner.up = "none"
    <3>1. /\ next <= ctl.req_seq /\ apc = "polling" /\ ~primed
          /\ next = ctl.ack_seq + 1 /\ ctl.ack_seq \in Nat /\ ctl.req_seq \in Nat /\ seq \in Nat
          /\ seq <= ctl.ack_seq /\ ctl.req_seq <= seq + 1
      BY <1>f, <2>h, Facts DEF SeqInv
    <3>2. ~Unstarted
      BY <3>1 DEF Unstarted
    <3>3. ctl.ack_seq = 0 /\ inner.up = "none"
      BY <1>f, <3>1, <3>2 DEF StartInv
    <3>4. ctl.req_seq = 1 /\ seq = 0
      BY <3>1, <3>3
    <3> QED
      BY <1>f, <3>3, <3>4 DEF StartInv
  <2>z. Unstarted'
    BY <2>u, <2>h, <2>x DEF Unstarted, InConstructor
  <2>1. StartInv'
    BY <1>f, <2>u, <2>h, <2>x, <2>z DEF StartInv, InConstructor, Serving, primed
  <2>2. CallInv'
    BY <1>f, <1>n, Facts, Alone, <2>u, <2>h DEF SeqInv, CallInv, InConstructor
  <2>3. SizesInv'
    BY <1>f, <1>n, Facts, Alone, <2>u, <2>h DEF SeqInv, SizesInv, Disturbed, Serving, Acked, CallInv
  <2>4. PipeInv'
    <3>1. (~Disturbed /\ inner.up # "dead" => inner.up # "starved")'
      BY <1>f, <1>n, Facts, Alone, <2>u, <2>h DEF SeqInv, PipeInv, Disturbed, NoFrames, LeftAt,
         SizesInv, StartInv, primed, Serving
    <3>2. (~Disturbed /\ inner.up # "dead" =>
           \A i \in 1 .. Len(toInner) : toInner[i].kind = "frame" =>
             /\ i = Len(toInner)
             /\ toInner[i].size = IF i = 1 THEN inner.size ELSE toInner[i - 1].size)'
      BY <1>f, <1>n, Facts, Alone, <2>u, <2>h DEF SeqInv, PipeInv, Disturbed, NoFrames, LeftAt,
         SizesInv, StartInv, primed, Serving
    <3>3. (~Disturbed /\ inner.up # "dead" /\ apc # "dead" =>
           LeftAt = IF apc = "resizing" THEN taken.size ELSE cur)'
      BY <1>f, <1>n, Facts, Alone, <2>u, <2>h DEF SeqInv, PipeInv, Disturbed, NoFrames, LeftAt,
         SizesInv, StartInv, primed, Serving
    <3>4. (~Disturbed /\ inner.up # "dead" /\ apc \notin {"rendering", "dead"} => NoFrames)'
      BY <1>f, <1>n, Facts, Alone, <2>u, <2>h DEF SeqInv, PipeInv, Disturbed, NoFrames, LeftAt,
         SizesInv, StartInv, primed, Serving
    <3> QED
      BY <3>1, <3>2, <3>3, <3>4 DEF PipeInv
  <2>5. ReplyInv'
    <3>1. (~Disturbed => \A i \in 1 .. Len(fromInner) : fromInner[i].kind = "ack" => fromInner[i].ok)'
      BY <1>f, <1>n, Facts, Alone, <2>u, <2>h DEF SeqInv, ReplyInv, Disturbed, NoFrames, NoOuts,
         Acked, SizesInv, CallInv, Serving
    <3>2. (~Disturbed /\ apc \notin {"rendering", "filling", "dead"} => NoOuts)'
      BY <1>f, <1>n, Facts, Alone, <2>u, <2>h DEF SeqInv, ReplyInv, Disturbed, NoFrames, NoOuts,
         Acked, SizesInv, CallInv, Serving
    <3>3. (~Disturbed /\ apc \in {"rendering", "filling"} =>
           \A i \in 1 .. Len(fromInner) : fromInner[i].kind = "out" =>
             i = Len(fromInner) /\ fromInner[i].image = call.id /\ toInner = <<>>)'
      BY <1>f, <1>n, Facts, Alone, <2>u, <2>h DEF SeqInv, ReplyInv, Disturbed, NoFrames, NoOuts,
         Acked, SizesInv, CallInv, Serving
    <3>4. (~Disturbed /\ apc \in {"rendering", "filling"} =>
           \A i \in 1 .. Len(toInner) : toInner[i].kind = "frame" => toInner[i].image = call.id)'
      BY <1>f, <1>n, Facts, Alone, <2>u, <2>h DEF SeqInv, ReplyInv, Disturbed, NoFrames, NoOuts,
         Acked, SizesInv, CallInv, Serving
    <3>5. (~Disturbed /\ apc = "filling" => fromInner # <<>> /\ fromInner[1].kind = "out")'
      BY <1>f, <1>n, Facts, Alone, <2>u, <2>h DEF SeqInv, ReplyInv, Disturbed, NoFrames, NoOuts,
         Acked, SizesInv, CallInv, Serving
    <3>6. (~Disturbed /\ apc = "answering" /\ taken.mode = 0 /\ taken.ok => outBuf = call.id)'
      BY <1>f, <1>n, Facts, Alone, <2>u, <2>h DEF SeqInv, ReplyInv, Disturbed, NoFrames, NoOuts,
         Acked, SizesInv, CallInv, Serving
    <3>7. (~Disturbed /\ pc = "waiting" /\ call.kind = "frame" /\ Acked /\ ctl.ok => outBuf = call.id)'
      BY <1>f, <1>n, Facts, Alone, <2>u, <2>h DEF SeqInv, ReplyInv, Disturbed, NoFrames, NoOuts,
         Acked, SizesInv, CallInv, Serving
    <3>8. (~Disturbed /\ pc = "reading" => outBuf = call.id)'
      BY <1>f, <1>n, Facts, Alone, <2>u, <2>h DEF SeqInv, ReplyInv, Disturbed, NoFrames, NoOuts,
         Acked, SizesInv, CallInv, Serving
    <3>9. (~Disturbed /\ pc # "waiting" => ctl.ack_seq = seq)'
      BY <1>f, <1>n, Facts, Alone, <2>u, <2>h DEF SeqInv, ReplyInv, Disturbed, NoFrames, NoOuts,
         Acked, SizesInv, CallInv, Serving
    <3> QED
      BY <3>1, <3>2, <3>3, <3>4, <3>5, <3>6, <3>7, <3>8, <3>9 DEF ReplyInv
  <2> QED
    BY <2>1, <2>2, <2>3, <2>4, <2>5 DEF Agreed
<1> QED
  BY <1>1, <1>2, <1>3, <1>4, <1>5, <1>6, <1>7, <1>8, <1>9, <1>10, <1>11, <1>12, <1>13, <1>14,
     <1>15 DEF Adapter, AdapterWorks

\* A reply of the inner worker: a message less on the one pipe, one more on the other.
LEMMA Replied ==
  ASSUME IInv, NEW kind \in {"ack", "out"}, NEW ok \in BOOLEAN, NEW image \in Frames,
         toInner # <<>>, Reply(kind, ok, image)
  PROVE  /\ UNCHANGED <<ctl, inBuf, outBuf, pc, seq, size, out, call, timeouts, returned,
                       apc, next, cur, taken>>
         /\ Head(toInner) = toInner[1] /\ toInner[1] \in Messages /\ 1 \in 1 .. Len(toInner)
         /\ Len(toInner) \in Nat /\ Len(toInner') = Len(toInner) - 1
         /\ (toInner' = <<>> <=> Len(toInner) = 1)
         /\ (toInner' # <<>> => toInner'[Len(toInner')] = toInner[Len(toInner)])
         /\ \A i \in 1 .. Len(toInner') :
              toInner'[i] = toInner[i + 1] /\ i + 1 \in 1 .. Len(toInner) /\ 1 < i + 1
         /\ fromInner' # <<>> /\ Len(fromInner') = Len(fromInner) + 1 /\ Len(fromInner) \in Nat
         /\ fromInner'[Len(fromInner) + 1].kind = kind
         /\ fromInner'[Len(fromInner) + 1].ok = ok
         /\ fromInner'[Len(fromInner) + 1].image = image
         /\ \A i \in 1 .. Len(fromInner) : fromInner'[i] = fromInner[i] /\ i \in 1 .. Len(fromInner')
         /\ \A i \in 1 .. Len(fromInner') : i \in 1 .. Len(fromInner) \/ i = Len(fromInner) + 1
<1> DEFINE x == [kind |-> kind, ok |-> ok, image |-> image]
<1>1. x \in Replies /\ x.kind = kind /\ x.ok = ok /\ x.image = image
  BY DEF Replies
<1>2. /\ toInner \in Seq(Messages) /\ fromInner \in Seq(Replies)
      /\ toInner' = Tail(toInner) /\ fromInner' = Append(fromInner, x)
  BY Facts DEF Reply
<1>3. UNCHANGED <<ctl, inBuf, outBuf, pc, seq, size, out, call, timeouts, returned,
                  apc, next, cur, taken>>
  BY DEF Reply, shared, client, adapter
<1> HIDE DEF x
<1>4. /\ Head(toInner) = toInner[1] /\ toInner[1] \in Messages /\ 1 \in 1 .. Len(toInner)
      /\ Len(toInner) \in Nat /\ Len(toInner') = Len(toInner) - 1
      /\ (toInner' = <<>> <=> Len(toInner) = 1)
      /\ (toInner' # <<>> => toInner'[Len(toInner')] = toInner[Len(toInner)])
      /\ \A i \in 1 .. Len(toInner') :
           toInner'[i] = toInner[i + 1] /\ i + 1 \in 1 .. Len(toInner) /\ 1 < i + 1
  <2>1. toInner # <<>>
    OBVIOUS
  <2>2. /\ Head(toInner) = toInner[1] /\ toInner[1] \in Messages /\ Len(toInner) \in Nat
        /\ Len(toInner') = Len(toInner) - 1 /\ 1 \in 1 .. Len(toInner)
        /\ (toInner' = <<>> <=> Len(toInner) = 1)
        /\ (toInner' # <<>> => toInner'[Len(toInner')] = toInner[Len(toInner)])
    BY <1>2, <2>1, TakenFrom
  <2>3. \A i \in 1 .. Len(toInner') :
          toInner'[i] = toInner[i + 1] /\ i + 1 \in 1 .. Len(toInner) /\ 1 < i + 1
    BY <1>2, <2>1, TakenFrom
  <2> QED
    BY <2>2, <2>3
<1>5. /\ fromInner' # <<>> /\ Len(fromInner') = Len(fromInner) + 1 /\ Len(fromInner) \in Nat
      /\ fromInner'[Len(fromInner) + 1] = x
      /\ \A i \in 1 .. Len(fromInner) : fromInner'[i] = fromInner[i] /\ i \in 1 .. Len(fromInner')
      /\ \A i \in 1 .. Len(fromInner') : i \in 1 .. Len(fromInner) \/ i = Len(fromInner) + 1
  BY <1>1, <1>2, PutOn
<1> QED
  BY <1>1, <1>3, <1>4, <1>5

\* The inner worker's steps.
LEMMA AgreedInner == LinkInv /\ Inner => Agreed'
<1> SUFFICES ASSUME LinkInv, Inner PROVE Agreed'
  OBVIOUS
<1>f. IInv /\ StartInv /\ CallInv /\ SizesInv /\ PipeInv /\ ReplyInv /\ SeqInv
  BY DEF LinkInv, Agreed, IInv
<1>i. inner \in [up : {"none", "up", "starved", "dead"}, size : Sizes \cup {0}] /\ 0 \in Frames
  BY <1>f, Facts DEF Frames
<1>1. CASE InnerConfigured
  <2>h. toInner # <<>> /\ inner.up = "up" /\ Head(toInner).kind \in {"video", "resize"}
        /\ inner' = [inner EXCEPT !.size = Head(toInner).size] /\ rejects' = rejects
    BY <1>1 DEF InnerConfigured
  <2>r. Reply("ack", TRUE, 0)
    BY <1>1, Zenon DEF InnerConfigured
  <2>u. UNCHANGED <<ctl, inBuf, outBuf, pc, seq, size, out, call, timeouts, apc, next, cur, taken,
                    rejects>>
    BY <1>f, <1>i, <2>h, <2>r, Replied
  <2>d. Disturbed' <=> Disturbed
    BY <2>u DEF Disturbed
  <2>i. inner'.up = "up" /\ inner'.size = toInner[1].size
    BY <1>f, <1>i, <2>h, <2>r, Replied
  <2>t. /\ toInner[1].kind # "frame" /\ 1 \in 1 .. Len(toInner)
        /\ Len(toInner) \in Nat /\ Len(toInner') = Len(toInner) - 1
        /\ (toInner' = <<>> <=> Len(toInner) = 1)
        /\ (toInner' # <<>> => toInner'[Len(toInner')] = toInner[Len(toInner)])
        /\ \A i \in 1 .. Len(toInner') :
             toInner'[i] = toInner[i + 1] /\ i + 1 \in 1 .. Len(toInner) /\ 1 < i + 1
    BY <1>f, <1>i, <2>h, <2>r, Replied
  <2>q. /\ fromInner' # <<>> /\ Len(fromInner') = Len(fromInner) + 1 /\ Len(fromInner) \in Nat
        /\ fromInner'[Len(fromInner) + 1].kind = "ack" /\ fromInner'[Len(fromInner) + 1].ok
        /\ \A i \in 1 .. Len(fromInner) : fromInner'[i] = fromInner[i] /\ i \in 1 .. Len(fromInner')
        /\ \A i \in 1 .. Len(fromInner') : i \in 1 .. Len(fromInner) \/ i = Len(fromInner) + 1
    BY <1>f, <1>i, <2>h, <2>r, Replied
  <2>1. StartInv'
    BY <1>f, <2>u, <2>h, <2>i DEF StartInv, Unstarted, InConstructor, Serving, primed
  <2>2. CallInv' /\ SizesInv'
    BY <2>u, Untouched
  <2>3. NoFrames => NoFrames'
    BY <2>t DEF NoFrames
  <2>4. PipeInv'
    <3>1. ~Disturbed => LeftAt' = LeftAt
      BY <2>h, <2>i, <2>t DEF LeftAt
    <3>2. ~Disturbed => \A i \in 1 .. Len(toInner') : toInner'[i].kind = "frame" =>
            /\ i = Len(toInner')
            /\ toInner'[i].size = IF i = 1 THEN inner'.size ELSE toInner'[i - 1].size
      <4> SUFFICES ASSUME ~Disturbed, NEW i \in 1 .. Len(toInner'), toInner'[i].kind = "frame"
                   PROVE  /\ i = Len(toInner')
                          /\ toInner'[i].size = IF i = 1 THEN inner'.size ELSE toInner'[i - 1].size
        OBVIOUS
      <4>1. toInner'[i] = toInner[i + 1] /\ i + 1 \in 1 .. Len(toInner) /\ i + 1 # 1
        BY <2>t
      <4>2. i + 1 = Len(toInner) /\ toInner[i + 1].size = toInner[(i + 1) - 1].size
        BY <1>f, <2>h, <4>1 DEF PipeInv
      <4>3. i # 1 => i - 1 \in 1 .. Len(toInner')
        OBVIOUS
      <4>4. i # 1 => toInner'[i - 1] = toInner[(i + 1) - 1]
        BY <2>t, <4>3
      <4> QED
        BY <2>t, <2>i, <4>1, <4>2, <4>4
    <3> QED
      BY <1>f, <2>h, <2>u, <2>d, <2>i, <2>3, <3>1, <3>2 DEF PipeInv
  <2>5. ReplyInv'
    <3>1. ~Disturbed => \A i \in 1 .. Len(fromInner') : fromInner'[i].kind = "ack" => fromInner'[i].ok
      BY <1>f, <2>q DEF ReplyInv
    <3>2. NoOuts => NoOuts'
      BY <2>q DEF NoOuts
    \* While a frame is rendered there is nothing else on its way to the inner worker once its
    \* picture has been sent.
    <3>3. ~Disturbed /\ apc \in {"rendering", "filling"} =>
            \A i \in 1 .. Len(fromInner') : fromInner'[i].kind # "out"
      <4>1. toInner # <<>>
        BY <2>h
      <4>2. ~Disturbed /\ apc \in {"rendering", "filling"} =>
              \A i \in 1 .. Len(fromInner) : fromInner[i].kind # "out"
        BY <1>f, <4>1 DEF ReplyInv
      <4> QED
        BY <2>q, <4>2
    <3>4. ~Disturbed /\ apc \in {"rendering", "filling"} =>
            \A i \in 1 .. Len(toInner') : toInner'[i].kind = "frame" => toInner'[i].image = call.id
      <4>1. ~Disturbed /\ apc \in {"rendering", "filling"} =>
              \A i \in 1 .. Len(toInner) : toInner[i].kind = "frame" => toInner[i].image = call.id
        BY <1>f DEF ReplyInv
      <4> QED
        BY <2>t, <4>1
    <3>5. ~Disturbed => apc # "filling"
      <4>1. ~Disturbed /\ apc = "filling" =>
              fromInner[1].kind = "out" /\ 1 \in 1 .. Len(fromInner) /\ toInner = <<>>
        BY <1>f, Facts DEF ReplyInv
      <4> QED
        BY <2>h, <4>1
    <3> QED
      BY <1>f, <2>u, <2>d, <2>3, <3>1, <3>2, <3>3, <3>4, <3>5 DEF ReplyInv, Acked
  <2> QED
    BY <2>1, <2>2, <2>4, <2>5 DEF Agreed
<1>2. CASE InnerRefuses
  <2>h. toInner # <<>> /\ inner.up = "up" /\ rejects' = rejects + 1 /\ inner' = inner
    BY <1>2 DEF InnerRefuses
  <2>r. Reply("ack", FALSE, 0)
    BY <1>2, Zenon DEF InnerRefuses
  <2>u. UNCHANGED <<ctl, inBuf, outBuf, pc, seq, size, out, call, timeouts, apc, next, cur, taken>>
    BY <1>f, <1>i, <2>h, <2>r, Replied
  <2>d. Disturbed'
    BY <1>f, <2>h, Facts DEF Disturbed
  <2>1. StartInv' /\ CallInv'
    BY <2>u, <2>h, Untouched
  <2> QED
    BY <2>d, <2>1 DEF Agreed, SizesInv, PipeInv, ReplyInv
<1>3. CASE InnerRenders
  <2>h. toInner # <<>> /\ inner.up = "up" /\ Head(toInner).kind = "frame" /\ inner' = inner
        /\ rejects' = rejects
    BY <1>3 DEF InnerRenders
  <2>p. PICK ok \in BOOLEAN : Reply("out", ok, Head(toInner).image)
    BY <1>3, Zenon DEF InnerRenders
  <2>g. Head(toInner).image \in Frames
    <3>1. Head(toInner) \in Messages
      BY <1>f, <2>h, Facts, MessageQueues
    <3> QED
      BY <3>1, MessageFields
  <2>u. UNCHANGED <<ctl, inBuf, outBuf, pc, seq, size, out, call, timeouts, apc, next, cur, taken,
                    rejects, inner>>
    BY <1>f, <1>i, <2>h, <2>p, <2>g, Replied
  <2>d. Disturbed' <=> Disturbed
    BY <2>u DEF Disturbed
  <2>t. /\ toInner[1].kind = "frame" /\ 1 \in 1 .. Len(toInner)
        /\ Len(toInner) \in Nat /\ Len(toInner') = Len(toInner) - 1
        /\ (toInner' = <<>> <=> Len(toInner) = 1)
    BY <1>f, <1>i, <2>h, <2>p, <2>g, Replied
  <2>q. /\ fromInner' # <<>> /\ Len(fromInner') = Len(fromInner) + 1 /\ Len(fromInner) \in Nat
        /\ fromInner'[Len(fromInner) + 1].kind = "out"
        /\ fromInner'[Len(fromInner) + 1].image = toInner[1].image
        /\ \A i \in 1 .. Len(fromInner) : fromInner'[i] = fromInner[i] /\ i \in 1 .. Len(fromInner')
        /\ \A i \in 1 .. Len(fromInner') : i \in 1 .. Len(fromInner) \/ i = Len(fromInner) + 1
    BY <1>f, <1>i, <2>h, <2>p, <2>g, Replied
  <2>1. StartInv' /\ CallInv' /\ SizesInv'
    BY <2>u, Untouched
  \* The frame was the last message, and of the size the inner worker is at.
  <2>2. ~Disturbed => toInner[1].size = inner.size /\ Len(toInner) = 1
    BY <1>f, <2>h, <2>t DEF PipeInv
  <2>3. ~Disturbed => toInner' = <<>> /\ 1 .. Len(toInner') = {} /\ NoFrames'
    <3>1. ~Disturbed => toInner' = <<>>
      BY <2>t, <2>2
    <3>2. ~Disturbed => Len(toInner') = 0
      BY <3>1
    <3>3. ~Disturbed => 1 .. Len(toInner') = {}
      BY <3>2
    <3> QED
      BY <3>1, <3>3 DEF NoFrames
  <2>4. PipeInv'
    <3>1. ~Disturbed => LeftAt' = LeftAt
      BY <2>h, <2>u, <2>t, <2>2, <2>3 DEF LeftAt
    <3> QED
      BY <1>f, <2>h, <2>u, <2>d, <2>3, <3>1 DEF PipeInv
  <2>5. ReplyInv'
    <3>1. ~Disturbed /\ apc # "dead" => apc = "rendering" /\ toInner[1].image = call.id
      <4>1. ~Disturbed => ~NoFrames
        BY <2>t DEF NoFrames
      <4>2. ~Disturbed /\ apc # "dead" => apc = "rendering"
        BY <1>f, <2>h, <4>1 DEF PipeInv
      <4> QED
        BY <1>f, <2>t, <4>2 DEF ReplyInv
    <3>2. ~Disturbed /\ apc = "rendering" =>
            \A i \in 1 .. Len(fromInner) : fromInner[i].kind # "out"
      BY <1>f, <2>t DEF ReplyInv, NoFrames
    <3>3. ~Disturbed => \A i \in 1 .. Len(fromInner') : fromInner'[i].kind = "ack" => fromInner'[i].ok
      BY <1>f, <2>q DEF ReplyInv
    <3>4. ~Disturbed /\ apc = "rendering" =>
            \A i \in 1 .. Len(fromInner') : fromInner'[i].kind = "out" =>
              i = Len(fromInner') /\ fromInner'[i].image = call.id
      BY <2>q, <3>1, <3>2
    <3> QED
      BY <1>f, <2>u, <2>d, <2>3, <3>1, <3>3, <3>4 DEF ReplyInv, Acked
  <2> QED
    BY <2>1, <2>4, <2>5 DEF Agreed
<1>4. CASE InnerStarves
  <2>h. toInner # <<>> /\ inner.up = "up" /\ Head(toInner).kind = "frame"
        /\ Head(toInner).size # inner.size /\ inner' = [inner EXCEPT !.up = "starved"]
    BY <1>4 DEF InnerStarves
  <2>u. UNCHANGED <<ctl, inBuf, outBuf, pc, seq, size, out, call, timeouts, apc, next, cur, taken,
                    toInner, fromInner, rejects>>
    BY <1>4 DEF InnerStarves, shared, client, adapter
  <2>t. Head(toInner) = toInner[1] /\ 1 \in 1 .. Len(toInner)
    BY <1>f, <2>h, Facts
  \* It only can when something has been disturbed.
  <2>d. Disturbed
    BY <1>f, <2>h, <2>t DEF PipeInv
  <2>1. Disturbed'
    BY <2>u, <2>d DEF Disturbed
  <2>2. StartInv'
    BY <1>f, <1>i, <2>h, <2>u DEF StartInv, Unstarted, InConstructor, Serving, primed
  <2>3. CallInv'
    BY <2>u, Untouched
  <2> QED
    BY <2>1, <2>2, <2>3 DEF Agreed, SizesInv, PipeInv, ReplyInv
<1>5. CASE InnerDies
  <2>h. inner.up \in {"up", "starved"} /\ inner' = [inner EXCEPT !.up = "dead"]
    BY <1>5 DEF InnerDies
  <2>u. UNCHANGED <<ctl, inBuf, outBuf, pc, seq, size, out, call, timeouts, apc, next, cur, taken,
                    toInner, fromInner, rejects>>
    BY <1>5 DEF InnerDies, shared, client, adapter
  <2>1. StartInv'
    BY <1>f, <1>i, <2>h, <2>u DEF StartInv, Unstarted, InConstructor, Serving, primed
  <2>2. CallInv' /\ SizesInv' /\ ReplyInv'
    BY <2>u, Untouched
  <2>3. PipeInv'
    BY <1>i, <2>h DEF PipeInv
  <2> QED
    BY <2>1, <2>2, <2>3 DEF Agreed
<1> QED
  BY <1>1, <1>2, <1>3, <1>4, <1>5 DEF Inner, InnerWorks

LEMMA AgreedInit == Init => Agreed
<1> SUFFICES ASSUME Init PROVE Agreed
  OBVIOUS
<1>1. PICK s \in Sizes : s <= Ceiling /\ call = Call("configure", 0, s)
  BY DEF Init
<1>2. call.kind = "configure" /\ call.id = 0 /\ call.size = s /\ s # 0
  BY <1>1 DEF Call
<1>3. StartInv
  BY <1>1, <1>2 DEF Init, StartInv, InConstructor, Serving, primed
<1>4. CallInv
  BY <1>2 DEF Init, CallInv, InConstructor
<1>5. SizesInv
  BY DEF Init, SizesInv, Serving, Acked
<1>6. PipeInv
  BY DEF Init, PipeInv, NoFrames, LeftAt
<1>7. ReplyInv
  BY DEF Init, ReplyInv, NoOuts, Acked
<1> QED
  BY <1>3, <1>4, <1>5, <1>6, <1>7 DEF Agreed

LEMMA AgreedStep == LinkInv /\ [Next]_vars => Agreed'
<1>1. LinkInv /\ UNCHANGED vars => Agreed'
  <2> SUFFICES ASSUME LinkInv, UNCHANGED vars PROVE Agreed'
    OBVIOUS
  <2> QED
    BY Untouched DEF vars, shared, client, adapter, pipes, Agreed
<1> QED
  BY <1>1, AgreedClient, AgreedAdapter, AgreedInner DEF Next

LEMMA LinkInvariant == Spec => []LinkInv
<1>1. Init => LinkInv
  BY TypeInit, SeqInit, AgreedInit DEF LinkInv, IInv
<1>2. LinkInv /\ [Next]_vars => LinkInv'
  BY TypeStep, SeqStep, AgreedStep DEF LinkInv, IInv
<1> QED
  BY <1>1, <1>2, PTL DEF Spec

\* docs/worker-protocol.md and the adapter's comment: until a wait times out or a resize is
\* refused, the frame the adapter puts on the pipe is whole and of its own size, client,
\* adapter and echo stand at one size between calls, and the inner worker never waits for
\* bytes that do not come; and no request ever asks for what the adapter would refuse.
THEOREM PartiesAlwaysAgree == Spec => []PartiesAgree
<1>1. LinkInv => PartiesAgree
  <2> SUFFICES ASSUME LinkInv PROVE PartiesAgree
    OBVIOUS
  <2>f. IInv /\ StartInv /\ CallInv /\ SizesInv /\ PipeInv /\ ReplyInv /\ SeqInv
    BY DEF LinkInv, Agreed, IInv
  <2>1. FrameIsAtCurrentSize
    <3> SUFFICES ASSUME ~Disturbed, Requested, ctl.req_mode = 0 PROVE inBuf.image # 0 /\ inBuf.size = cur
      BY DEF FrameIsAtCurrentSize
    <3>1. apc = "polling" /\ next <= ctl.req_seq
      BY DEF Requested
    <3>2. pc = "waiting"
      BY <3>1, Alone
    <3>3. call.kind = "frame" /\ call.id # 0
      BY <2>f, <3>2, Facts DEF CallInv, InConstructor
    <3> QED
      BY <2>f, <3>1, <3>2, <3>3 DEF CallInv, SizesInv
  <2>2. SizesAgree
    BY <2>f DEF SizesInv, SizesAgree
  <2>3. ReaderIsFed
    BY <2>f DEF PipeInv, ReaderIsFed, NeverStarved
  <2>4. NothingToRefuse
    <3> SUFFICES ASSUME Requested, ctl.req_mode = 0 PROVE primed
      BY <2>f, Facts DEF NothingToRefuse, StartInv
    <3>1. ctl.req_seq # 0
      BY <2>f, Facts DEF Requested, SeqInv
    <3>2. seq # 0
      BY <2>f, <3>1 DEF StartInv
    <3>3. ctl.ack_seq # 0
      BY <2>f, <3>2, Facts DEF SeqInv
    <3> QED
      BY <2>f, <3>2, <3>3, Facts DEF StartInv, Unstarted, SeqInv, Requested
  <2> QED
    BY <2>1, <2>2, <2>3, <2>4 DEF PartiesAgree
<1> QED
  BY <1>1, LinkInvariant, PTL
----------------------------------------------------------------------------
(* The link as the one-request service                                      *)

\* Where WorkerService sees the link.
Phase ==
  IF pc \in {"gone", "lost", "closed"} THEN "gone"
  ELSE IF InConstructor /\ pc # "idle" THEN "starting"
  ELSE IF pc = "idle" THEN "idle" ELSE "busy"

LEMMA SameService ==
  Phase' = Phase /\ UNCHANGED <<call, size, returned>> => UNCHANGED <<Service!vars>>
  BY DEF Phase, Service!vars

\* A step of the service, or of one that has been disturbed.
Serves == Service!Next \/ Disturbed' \/ UNCHANGED <<Service!vars>>

LEMMA ClientServes == LinkInv /\ Client => Serves
<1> SUFFICES ASSUME LinkInv, Client PROVE Serves
  OBVIOUS
<1>f. IInv /\ StartInv /\ CallInv /\ ReplyInv
  BY DEF LinkInv, Agreed
<1>1. CASE Started \/ EndCopy \/ WriteFields \/ Publish \/ FrameAcked \/ Kill
  <2>1. UNCHANGED <<call, size, returned>>
    BY <1>1 DEF Started, EndCopy, WriteFields, Publish, FrameAcked, Kill, client
  <2>2. pc' = pc \/ (pc \notin {"gone", "lost", "closed", "idle"}
                     /\ pc' \notin {"gone", "lost", "closed", "idle"})
    BY <1>1 DEF Started, EndCopy, WriteFields, Publish, FrameAcked, Kill, client
  <2>3. Phase' = Phase
    BY <2>1, <2>2 DEF Phase, InConstructor
  <2> QED
    BY <2>1, <2>3, SameService DEF Serves
<1>2. CASE StartFailed \/ Close
  <2>1. UNCHANGED <<call, size, returned>> /\ pc' = "closed" /\ pc \in {"starting", "idle", "gone"}
    BY <1>2 DEF StartFailed, Close
  <2>2. CASE pc = "gone"
    BY <2>1, <2>2, SameService DEF Phase, Serves
  <2>3. CASE pc # "gone"
    <3>1. Service!Vanish
      BY <2>1, <2>3 DEF Service!Vanish
    <3> QED
      BY <3>1 DEF Serves, Service!Next
  <2> QED
    BY <2>2, <2>3
<1>3. CASE BeginProcess
  <2>1. /\ pc = "idle" /\ pc' = "copying" /\ UNCHANGED <<size, returned>> /\ call.id < MaxCalls
        /\ call' = [kind |-> "frame", id |-> call.id + 1, size |-> size]
    BY <1>3 DEF BeginProcess, Call
  <2>2. size \in Sizes
    BY <1>f, <2>1, Facts DEF StartInv
  <2>3. call.id + 1 \in 0..MaxCalls /\ call.id + 1 # 0
    BY <1>f, <2>1, Facts
  <2>4. call' \in Service!Requests /\ call'.kind = "frame" /\ call'.size = size /\ call'.id # 0
    BY <2>1, <2>2, <2>3 DEF Service!Requests
  <2>5. Service!Submit
    BY <2>1, <2>4 DEF Service!Submit, InConstructor
  <2> QED
    BY <2>5 DEF Serves, Service!Next
<1>4. CASE BeginReconfigure
  <2>1. PICK s \in Sizes : /\ call' = [kind |-> "configure", id |-> call.id + 1, size |-> s]
                           /\ pc' = IF s <= Ceiling THEN "fields" ELSE "idle"
    BY <1>4 DEF BeginReconfigure, Call
  <2>2. pc = "idle" /\ pc' \in {"fields", "idle"} /\ UNCHANGED <<size,
                                                                 returned>> /\ call.id < MaxCalls
    BY <1>4, <2>1 DEF BeginReconfigure
  <2>3. call.id + 1 \in 0..MaxCalls /\ call.id + 1 # 0
    BY <1>f, <2>2, Facts
  <2>4. call' \in Service!Requests /\ call'.kind # "frame" /\ call'.id # 0
    BY <2>1, <2>3 DEF Service!Requests
  <2>5. Service!Submit
    BY <2>2, <2>4 DEF Service!Submit, InConstructor
  <2> QED
    BY <2>5 DEF Serves, Service!Next
<1>5. CASE Reconfigured
  <2>1. /\ pc = "waiting" /\ pc' = "idle" /\ call.kind = "configure" /\ call' = call
        /\ size' = call.size /\ returned' = [id |-> call.id, ok |-> TRUE, image |-> 0]
    BY <1>5 DEF Reconfigured
  <2>2. Service!AnswerConfigure
    BY <2>1 DEF Service!AnswerConfigure
  <2> QED
    BY <2>2 DEF Serves, Service!Next
<1>6. CASE Refused
  <2>1. /\ pc = "waiting" /\ pc' \in {"idle", "gone", "lost"} /\ call' = call /\ size' = size
        /\ returned' = [id |-> call.id, ok |-> FALSE, image |-> 0]
    BY <1>6 DEF Refused, AfterFailure
  <2>2. Service!Refuse
    BY <2>1 DEF Service!Refuse
  <2> QED
    BY <2>2 DEF Serves, Service!Next
<1>7. CASE ReadOut
  <2>1. /\ pc = "reading" /\ pc' = "idle" /\ call' = call /\ size' = size
        /\ returned' = [id |-> call.id, ok |-> TRUE, image |-> outBuf]
        /\ timeouts' = timeouts /\ rejects' = rejects
    BY <1>7 DEF ReadOut, pipes
  <2>2. call.kind = "frame" /\ ~InConstructor
    BY <1>f, <2>1 DEF CallInv
  \* The picture in OUT is the one made from the frame of this call.
  <2>3. ~Disturbed => outBuf = call.id
    BY <1>f, <2>1 DEF ReplyInv
  <2>4. ~Disturbed => Service!AnswerFrame
    BY <2>1, <2>2, <2>3 DEF Service!AnswerFrame, InConstructor
  <2>5. Disturbed => Disturbed'
    BY <2>1 DEF Disturbed
  <2> QED
    BY <2>4, <2>5 DEF Serves, Service!Next
<1>8. CASE TimeOut
  <2>1. timeouts' = timeouts + 1 /\ timeouts \in Nat
    BY <1>8, <1>f, Facts DEF TimeOut
  <2> QED
    BY <2>1 DEF Disturbed, Serves
<1>9. CASE FoundDead
  <2>1. /\ pc = "waiting" /\ UNCHANGED <<call, size, returned>>
        /\ pc' \in {"idle", "gone", "lost"} /\ (InConstructor => pc' = "lost")
    BY <1>9 DEF FoundDead, Raise, AfterFailure
  <2>2. Service!Vanish
    BY <2>1 DEF Service!Vanish
  <2> QED
    BY <2>2 DEF Serves, Service!Next
<1> QED
  BY <1>1, <1>2, <1>3, <1>4, <1>5, <1>6, <1>7, <1>8, <1>9 DEF Client

LEMMA OthersServe == Adapter \/ AdapterDies \/ Inner => UNCHANGED client
<1>1. Adapter \/ AdapterDies => UNCHANGED client
  BY DEF Adapter, AdapterWorks, AdapterDies, AdapterReady, AdapterQuits, TakeFirst, SpawnFails,
         FirstWriteFails, TakeResize,
     TakeFrame,
         WriteFails, ResizeAcked, SkipAck, FrameReply, FillOut, PipeBroken, Answer
<1>2. Inner => UNCHANGED client
  BY DEF Inner, InnerWorks, InnerConfigured, InnerRefuses, InnerRenders, InnerStarves, InnerDies, Reply
<1> QED
  BY <1>1, <1>2

\* worker.py:149-150 and docs/worker-protocol.md "Sequencing": until a wait times out or a
\* resize is refused, every step of client, adapter and inner worker is a step of the
\* one-request service or invisible to its caller, so every frame is answered by its own
\* picture and every reconfigure by the size it asked for, whoever dies.
THEOREM ImplementsService == Spec => ServiceSpec
<1>1. Init => Service!Init
  <2> SUFFICES ASSUME Init PROVE Service!Init
    OBVIOUS
  <2>1. PICK s \in Sizes : call = [kind |-> "configure", id |-> 0, size |-> s]
    BY DEF Init, Call
  <2>2. call \in [kind : {"configure"}, id : {0}, size : Sizes] /\ call.id = 0
    BY <2>1
  <2> QED
    BY <2>2 DEF Init, Service!Init, InConstructor
<1>2. LinkInv /\ [Next]_vars => [Service!Next \/ Disturbed']_<<Service!vars>>
  <2>1. UNCHANGED client => Serves
    <3>1. UNCHANGED client => Phase' = Phase /\ UNCHANGED <<call, size, returned>>
      BY DEF client, Phase, InConstructor
    <3> QED
      BY <3>1, SameService DEF Serves
  <2>2. UNCHANGED vars => UNCHANGED client
    BY DEF vars
  <2>3. LinkInv /\ [Next]_vars => Serves
    BY <2>1, <2>2, ClientServes, OthersServe DEF Next
  <2> QED
    BY <2>3 DEF Serves
<1> QED
  BY <1>1, <1>2, LinkInvariant, PTL DEF Spec, ServiceSpec
=============================================================================
