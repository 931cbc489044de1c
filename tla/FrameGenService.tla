--------------------------- MODULE FrameGenService ---------------------------
(***************************************************************************)
(* What a frame-generation host promises its caller, without shared files,  *)
(* slots, queues or a GPU (docs/module-protocol.md "Frame generation",      *)
(* app/framegen/nsngxg.py): real frames go in one after the other, at most  *)
(* `Depth' of them are unanswered, they are answered in that order, and the *)
(* result collected for a frame is the one made from that frame.            *)
(***************************************************************************)
EXTENDS Integers, Sequences

CONSTANTS Depth,     \* frames that may be unanswered at a time
          Pictures   \* the real frames a caller can hand over

VARIABLES asked,     \* the frames accepted, in order
          answered,  \* how many of them have an answer
          given      \* what was last collected: the request, and the frame it shows

vars == <<asked, answered, given>>

Init == asked = <<>> /\ answered = 0 /\ given = [request |-> 0, shows |-> 0]

\* begin() returns a token.
Ask ==
  /\ Len(asked) - answered < Depth
  /\ \E p \in Pictures : asked' = Append(asked, p)
  /\ UNCHANGED <<answered, given>>

\* The oldest frame without an answer gets one.
AnswerNext ==
  /\ answered < Len(asked)
  /\ answered' = answered + 1
  /\ UNCHANGED <<asked, given>>

\* end(token) returns; a failed frame, and the first one, show nothing (0).
Collect ==
  /\ \E s \in 1..answered :
       \E p \in {0, asked[s]} : given' = [request |-> s, shows |-> p]
  /\ UNCHANGED <<asked, answered>>

Next == Ask \/ AnswerNext \/ Collect

Spec == Init /\ [][Next]_vars
=============================================================================
