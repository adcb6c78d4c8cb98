----------------------------- MODULE Connection -----------------------------
(***************************************************************************)
(* What server.c promises to a peer, one phase per connection slot and     *)
(* nothing of the callbacks, the heap or the worker threads:               *)
(*                                                                         *)
(*   free -> receiving -> processing -> responding -> closing -> free      *)
(*                  \______________________________/^                      *)
(*                                                                         *)
(* A connection is abandoned only while its request is still being         *)
(* received; once the request is dispatched, the only way out is to hand   *)
(* one response to the network and close after that write has ended.       *)
(* A slot is used again only when everything about it is released.         *)
(***************************************************************************)

CONSTANT Conns   \* connection slots

VARIABLE phase   \* phase[c] is the phase of slot c

Phases == {"free", "receiving", "processing", "responding", "closing"}

Init == phase = [c \in Conns |-> "free"]

Move(c, from, to) ==
  /\ phase[c] = from
  /\ phase' = [phase EXCEPT ![c] = to]

Accept(c)   == Move(c, "free", "receiving")
Refuse(c)   == Move(c, "free", "closing")
Dispatch(c) == Move(c, "receiving", "processing")
Abandon(c)  == Move(c, "receiving", "closing")
Respond(c)  == Move(c, "processing", "responding")
Finish(c)   == Move(c, "responding", "closing")
Release(c)  == Move(c, "closing", "free")

Next ==
  \E c \in Conns :
    \/ Accept(c) \/ Refuse(c) \/ Dispatch(c) \/ Abandon(c)
    \/ Respond(c) \/ Finish(c) \/ Release(c)

Spec == Init /\ [][Next]_phase

=============================================================================
