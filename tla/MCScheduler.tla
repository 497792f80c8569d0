---------------------------- MODULE MCScheduler -----------------------------
(* Small instances of Scheduler.                                            *)
EXTENDS Scheduler

(* One thing out of the ordinary: a lock that expires under its call, a     *)
(* process that dies, or a command of a person.                             *)
OneMishap == {b \in [overruns : 0..1, crashes : 0..1, orders : 0..1] :
                b.overruns + b.crashes + b.orders = 1}

OneCrash == {[overruns |-> 0, crashes |-> 1, orders |-> 0]}
=============================================================================
