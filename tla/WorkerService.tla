---------------------------- MODULE WorkerService ----------------------------
(***************************************************************************)
(* What a neural-render worker promises its caller (docs/worker-protocol.md *)
(* "Sequencing"), without shared memory, sequence numbers or pipes: one     *)
(* request at a time, and a request that succeeds is answered with its own  *)
(* result: a frame by the picture made from that frame, a reconfigure by    *)
(* the size it asked for.                                                   *)
(***************************************************************************)
EXTENDS Integers

CONSTANTS Sizes,      \* the work sizes a caller may ask for
          MaxCalls    \* how many calls a behaviour contains

VARIABLES phase,      \* "starting", "idle", "busy" or "gone"
          request,    \* the call being served
          current,    \* the size the worker runs at
          returned    \* what the last call returned: its id, success, and the picture

vars == <<phase, request, current, returned>>

Requests == [kind : {"frame", "configure"}, id : 0..MaxCalls, size : Sizes]

Init ==
  /\ phase = "starting"
  /\ request \in [kind : {"configure"}, id : {0}, size : Sizes]
  /\ current = 0
  /\ returned = [id |-> 0, ok |-> FALSE, image |-> 0]

\* The caller hands over one request; there is no second one before it ends.
\* One that is too large for the worker is turned away at once.
Submit ==
  /\ phase = "idle"
  /\ phase' \in {"idle", "busy"}
  /\ request' \in Requests
  /\ request'.kind = "frame" => request'.size = current
  /\ UNCHANGED <<current, returned>>

\* A served frame comes back as its own picture.
AnswerFrame ==
  /\ phase = "busy"
  /\ request.kind = "frame"
  /\ phase' = "idle"
  /\ returned' = [id |-> request.id, ok |-> TRUE, image |-> request.id]
  /\ UNCHANGED <<request, current>>

\* A served reconfigure leaves the worker at the requested size.
AnswerConfigure ==
  /\ phase \in {"starting", "busy"}
  /\ request.kind = "configure"
  /\ phase' = "idle"
  /\ current' = request.size
  /\ returned' = [id |-> request.id, ok |-> TRUE, image |-> 0]
  /\ UNCHANGED request

\* No frame yet (priming), a refused reconfigure: the size stays.
Refuse ==
  /\ phase \in {"starting", "busy"}
  /\ phase' \in {"idle", "gone"}
  /\ returned' = [id |-> request.id, ok |-> FALSE, image |-> 0]
  /\ UNCHANGED <<request, current>>

\* The worker died or was closed: the call in progress has no result.
Vanish ==
  /\ phase # "gone"
  /\ phase' \in {"gone"} \cup (IF phase = "busy" THEN {"idle"} ELSE {})
  /\ UNCHANGED <<request, current, returned>>

Next == Submit \/ AnswerFrame \/ AnswerConfigure \/ Refuse \/ Vanish

Spec == Init /\ [][Next]_vars
=============================================================================
