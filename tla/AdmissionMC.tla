----------------------------- MODULE AdmissionMC -----------------------------
(* The node's writer and two others, a lock for two operations.            *)
EXTENDS Admission

MCLock == [owner |-> "self", amount |-> 2, from |-> 1, until |-> 2, fee |-> 1]
MCForeign == [owner |-> "other", amount |-> 8, from |-> 1, until |-> 3, fee |-> 1]
MCLocks == {MCLock, MCForeign}

MCAnchorable ==
  {[writer |-> "w", fee |-> 4, ops |-> 1, lock |-> NoLock],
   [writer |-> "w", fee |-> 6, ops |-> 2, lock |-> NoLock],
   [writer |-> "other", fee |-> 5, ops |-> 2, lock |-> MCForeign],
   [writer |-> "other", fee |-> 4, ops |-> 0, lock |-> NoLock]}

MCNormalizedFee == <<2, 1, 2>>
MCVersions == 1 :> 2
==============================================================================
