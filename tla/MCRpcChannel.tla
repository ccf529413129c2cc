---------------------------- MODULE MCRpcChannel ----------------------------
(* The bridge to Android: two launches that share a WaitHandle and a       *)
(* set_focused_task with another one.                                      *)
EXTENDS RpcChannel
CONSTANTS launch1, launch2, focus, launchHandle, focusHandle
MCCalls == {launch1, launch2, focus}
MCHandles == {launchHandle, focusHandle}
MCHandleOf == [c \in MCCalls |-> IF c = focus THEN focusHandle ELSE launchHandle]
=============================================================================
