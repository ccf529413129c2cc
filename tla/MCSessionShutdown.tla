------------------------- MODULE MCSessionShutdown -------------------------
(* ManagementApiStub keeps one WaitHandle per request. *)
EXTENDS SessionShutdown
MCCalls == {start, stop}
MCHandleOf == [c \in MCCalls |-> c]
MCTimed == {stop}
=============================================================================
