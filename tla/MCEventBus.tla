------------------------------ MODULE MCEventBus ------------------------------
(* EventBus with queues short enough to overflow more than once.           *)
EXTENDS EventBus
===============================================================================
