----------------------------- MODULE IoScheduler -----------------------------
(***************************************************************************)
(* What startio relies on when it hands a channel program to a scheduler   *)
(* of device threads (channel.c 1908-1980): a request that was accepted    *)
(* is executed, once, and nothing else is.  Both schedulers of the source, *)
(* w32chan.c and the device threads of channel.c, are to implement it.     *)
(***************************************************************************)
CONSTANT Device

VARIABLE st     \* [Device -> {"idle", "queued", "running"}]

Init == st = [d \in Device |-> "idle"]

Step(d, from, to) == st[d] = from /\ st' = [st EXCEPT ![d] = to]

\* The request is accepted: startio returns condition code 0.
Accept(d) == Step(d, "idle", "queued")

\* A thread calls execute_ccw_chain, and execute_ccw_chain returns.
Run(d) == Step(d, "queued", "running")
End(d) == Step(d, "running", "idle")

Next == \E d \in Device : Accept(d) \/ Run(d) \/ End(d)

Spec == Init /\ [][Next]_st

\* Every accepted request is executed, and every program comes to an end.
FairSpec == Spec /\ \A d \in Device : WF_st(Run(d)) /\ WF_st(End(d))
=============================================================================
