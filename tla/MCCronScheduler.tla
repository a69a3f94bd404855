-------------------------- MODULE MCCronScheduler --------------------------
(* Instances of CronScheduler for model checking. *)
EXTENDS CronScheduler, TLC

CONSTANTS t1, t2

TwoTasks == {t1, t2}

At(n) == [kind |-> "once", when |-> n]
Every(n) == [kind |-> "every", when |-> n]
Cron(n) == [kind |-> "cron", when |-> n]

EveryKind == {At(1), Every(1), Cron(2)}

=============================================================================
