---------------------------- MODULE TimerService ----------------------------
(***************************************************************************)
(* What the scheduler and the event loop promise about timers, with queues,*)
(* lists, pools and the tick left out.  A timer slot is idle, armed with a *)
(* due time, or running.  It is armed now or one period from now; it fires *)
(* only once the clock has reached its due time; a one-shot timer retires  *)
(* after running, and a repeating one is armed again exactly one period    *)
(* after its previous due time.                                            *)
(***************************************************************************)
EXTENDS Naturals

CONSTANTS Timers

VARIABLES now, tm

IdleTimer == [st |-> "idle", due |-> 0, period |-> 0, repeating |-> FALSE]

TSInit == /\ now = 0
          /\ tm = [t \in Timers |-> IdleTimer]

\* Only timer t changes.
OnlyChanges(t) == \A u \in Timers \ {t} : tm'[u] = tm[u]

Tick == /\ now' = now + 1
        /\ UNCHANGED tm

Arm(t) == /\ tm[t].st = "idle"
          /\ tm'[t].st = "armed"
          /\ tm'[t].due \in {now, now + tm'[t].period}
          /\ OnlyChanges(t)
          /\ UNCHANGED now

Fire(t) == /\ tm[t].st = "armed"
           /\ tm[t].due <= now
           /\ tm' = [tm EXCEPT ![t].st = "running"]
           /\ UNCHANGED now

Retire(t) == /\ tm[t].st = "running"
             /\ ~tm[t].repeating
             /\ tm' = [tm EXCEPT ![t] = IdleTimer]
             /\ UNCHANGED now

Rearm(t) == /\ tm[t].st = "running"
            /\ tm[t].repeating
            /\ tm' = [tm EXCEPT ![t].st = "armed", ![t].due = @ + tm[t].period]
            /\ UNCHANGED now

TSNext == Tick \/ \E t \in Timers : Arm(t) \/ Fire(t) \/ Retire(t) \/ Rearm(t)

TSSpec == TSInit /\ [][TSNext]_<<now, tm>>

=============================================================================
