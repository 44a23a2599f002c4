------------------------------- MODULE LogQueue -------------------------------
(***************************************************************************)
(* What asynchronous mode promises: a first-in first-out service.  Messages *)
(* are accepted one at a time, served one at a time in the order of their  *)
(* acceptance, and every accepted message is served.                       *)
(***************************************************************************)
EXTENDS Sequences

CONSTANT Message

VARIABLES
  pending,   \* accepted and not yet served
  served     \* served, in order

queueVars == <<pending, served>>

QueueInit == pending = <<>> /\ served = <<>>

Accept(m) ==
  /\ pending' = Append(pending, m)
  /\ UNCHANGED served

Serve ==
  /\ pending # <<>>
  /\ served' = Append(served, Head(pending))
  /\ pending' = Tail(pending)

QueueNext == (\E m \in Message : Accept(m)) \/ Serve

QueueSpec == QueueInit /\ [][QueueNext]_queueVars /\ WF_queueVars(Serve)
=============================================================================
