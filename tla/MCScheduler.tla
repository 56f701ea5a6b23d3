----------------------------- MODULE MCScheduler -----------------------------
EXTENDS Scheduler

CONSTANTS s1, s2, w1

\* A one-shot, an interval, an interval that ends, a cron, and one refused.
MCOnce == [Unset EXCEPT !.at = 2]
MCEvery == [Unset EXCEPT !.every = 1]
MCCron == [Unset EXCEPT !.slots = {2, 3}, !.max = 2]
MCTwo == [Unset EXCEPT !.at = 2, !.every = 1]
MCPayloads == {MCOnce, MCEvery, MCCron, MCTwo}
=============================================================================
