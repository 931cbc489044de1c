----------------------------- MODULE SlotService -----------------------------
(***************************************************************************)
(* What a one-frame-at-a-time host promises its caller, without shared      *)
(* files, sequence words or regions (docs/module-protocol.md, the clients   *)
(* of SingleSlotLink): one call at a time, which is answered or given up.   *)
(* Nothing takes an abandoned request back, so a later answer may show an   *)
(* earlier frame, or a torn one (0); but never a later frame, and only      *)
(* until a call has been answered.                                          *)
(***************************************************************************)
EXTENDS Integers

VARIABLES
  state,   \* "ready", "owing": an abandoned call may still be answered,
           \* "asked", "closed"
  call,    \* number of the call in progress, or of the last one
  own,     \* it was made when nothing was owed
  given    \* the last answer: to which call, whether with a picture, and of
           \* which call's frame

vars == <<state, call, own, given>>

Init ==
  /\ state = "ready" /\ call = 0 /\ own = TRUE
  /\ given = [to |-> 0, gen |-> FALSE, shows |-> 0]

\* The caller hands over a frame.
Ask ==
  /\ state \in {"ready", "owing"}
  /\ state' = "asked" /\ call' = call + 1
  /\ own' = (state = "ready")
  /\ UNCHANGED given

\* What an answer with a picture may show.
Shown == IF own THEN {call} ELSE 0..call

\* It returns, with a picture or without; nothing is owed any more.
Answer ==
  /\ state = "asked"
  /\ state' = "ready"
  /\ \/ \E p \in Shown : given' = [to |-> call, gen |-> TRUE, shows |-> p]
     \/ given' = [to |-> call, gen |-> FALSE, shows |-> 0]
  /\ UNCHANGED <<call, own>>

\* It raises: the host refused the frame, or the call was given up.  The caller
\* goes on or closes.
Refuse == state = "asked" /\ state' \in {"ready", "closed"} /\ UNCHANGED <<call, own, given>>

Abandon == state = "asked" /\ state' \in {"owing", "closed"} /\ UNCHANGED <<call, own, given>>

\* The host is done with an abandoned request.
Settle == state = "owing" /\ state' = "ready" /\ UNCHANGED <<call, own, given>>

Close == state \in {"ready", "owing"} /\ state' = "closed" /\ UNCHANGED <<call, own, given>>

Next == Ask \/ Answer \/ Refuse \/ Abandon \/ Settle \/ Close

Spec == Init /\ [][Next]_vars
=============================================================================
