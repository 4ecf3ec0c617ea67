---------------------------- MODULE CommandQueue ----------------------------
(***************************************************************************)
(* What an operator may expect of the control table, whoever polls it: a  *)
(* command is taken up at most once, takes effect at most once and only   *)
(* between being acknowledged and being reported, and what is reported    *)
(* does not change any more.                                              *)
(***************************************************************************)
EXTENDS Naturals, Sequences

VARIABLE queue          \* the commands, oldest first: their status and effects

Pending == [status |-> "pending", effects |-> 0]

Init == queue = <<>>

Issue == queue' = Append(queue, Pending)

Acknowledge(i) ==
  /\ queue[i] = Pending
  /\ queue' = [queue EXCEPT ![i].status = "acknowledged"]

Effect(i) ==
  /\ queue[i] = [status |-> "acknowledged", effects |-> 0]
  /\ queue' = [queue EXCEPT ![i].effects = 1]

Report(i) ==
  /\ queue[i].status = "acknowledged"
  /\ \/ queue[i].effects = 1 /\ queue' = [queue EXCEPT ![i].status = "completed"]
     \/ queue' = [queue EXCEPT ![i].status = "failed"]

Next == Issue \/ \E i \in DOMAIN queue : Acknowledge(i) \/ Effect(i) \/ Report(i)

Spec == Init /\ [][Next]_queue
=============================================================================
