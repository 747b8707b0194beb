------------------------------ MODULE MCCronJobs ------------------------------
(* Instances of CronJobs for TLC.                                          *)
EXTENDS CronJobs, TLC

Draft(m, k, n) == [mode |-> m, schedule |-> [kind |-> k, t |-> n]]

\* Recurring jobs of two kinds, with and without the agent.
AgentAndModule == {Draft("agent", "cron", 2), Draft("conditional_agent", "every", 1)}
\* One-shot jobs at two times.
OneShots == {Draft("background", "at", 1), Draft("agent", "at", 3)}
===============================================================================
