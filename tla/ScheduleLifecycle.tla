-------------------------- MODULE ScheduleLifecycle --------------------------
(***************************************************************************)
(* What the scheduler of packages/scheduling promises for each schedule,   *)
(* without processes, clocks, leases or trigger rows.  The slots of a      *)
(* schedule are executed one after the other, each later than all before,  *)
(* and never again.  While a slot is executed it holds its schedule, and   *)
(* the slot that holds it when it ends moves the schedule on to a later    *)
(* one.  It may lose its hold: it is taken for stale, or a person steps    *)
(* in.  Then it ends without a trace in the schedule, and the next slot is *)
(* the one that a person gives.                                            *)
(***************************************************************************)
EXTENDS Integers

CONSTANTS Schedules, Times

VARIABLES
  on,      \* the schedule is enabled
  next,    \* the slot that it begins next, or began last
  last,    \* the latest slot that was begun, 0 if none
  active,  \* the slots in execution
  holder   \* the one among them that holds the schedule, 0 if none

vars == <<on, next, last, active, holder>>

Init ==
  /\ on = [s \in Schedules |-> TRUE]
  /\ next \in [Schedules -> Times \ {0}]
  /\ last = [s \in Schedules |-> 0]
  /\ active = [s \in Schedules |-> {}]
  /\ holder = [s \in Schedules |-> 0]

Begin(s) ==
  /\ on[s]
  /\ next[s] > last[s]
  /\ last' = [last EXCEPT ![s] = next[s]]
  /\ active' = [active EXCEPT ![s] = @ \union {next[s]}]
  /\ holder' = [holder EXCEPT ![s] = next[s]]
  /\ UNCHANGED <<on, next>>

\* The slot that holds the schedule ends: the schedule waits for a later one,
\* or is stopped.
Finish(s) ==
  /\ holder[s] \in active[s]
  /\ active' = [active EXCEPT ![s] = @ \ {holder[s]}]
  /\ holder' = [holder EXCEPT ![s] = 0]
  /\ \E to \in {on[s], FALSE} : on' = [on EXCEPT ![s] = to]
  /\ \E t \in Times : t > last[s] /\ next' = [next EXCEPT ![s] = t]
  /\ UNCHANGED last

\* A slot ends that does not hold the schedule, or the process of any slot dies.
Vanish(s, t) ==
  /\ t \in active[s]
  /\ active' = [active EXCEPT ![s] = @ \ {t}]
  /\ holder' = [holder EXCEPT ![s] = IF @ = t THEN 0 ELSE @]
  /\ UNCHANGED <<on, next, last>>

\* The hold of a slot is over, in execution or not: another process looks at
\* the schedule, and stops it if it takes the slot for stale.
Overtake(s) ==
  /\ next[s] = last[s]
  /\ holder' = [holder EXCEPT ![s] = 0]
  /\ \E to \in {on[s], FALSE} : on' = [on EXCEPT ![s] = to]
  /\ UNCHANGED <<next, last, active>>

\* A person stops, resumes or changes a schedule: its next slot stays or is a
\* later one than those that were begun.
Command(s) ==
  /\ \E to \in BOOLEAN : on' = [on EXCEPT ![s] = to]
  /\ \E held \in {0, holder[s]} : holder' = [holder EXCEPT ![s] = held]
  /\ \/ UNCHANGED next
     \/ \E t \in Times : t > last[s] /\ next' = [next EXCEPT ![s] = t]
  /\ UNCHANGED <<last, active>>

Next ==
  \E s \in Schedules :
    \/ Begin(s) \/ Finish(s) \/ Overtake(s) \/ Command(s)
    \/ \E t \in Times : Vanish(s, t)

Spec == Init /\ [][Next]_vars
=============================================================================
