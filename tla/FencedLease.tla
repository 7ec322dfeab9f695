---------------------------- MODULE FencedLease ----------------------------
(***************************************************************************)
(* What the lease store promises its callers, without sessions, rows,      *)
(* sweeps, receipts or events.  A task has at most one lease; a lease runs *)
(* until its deadline unless its holder yields it before; every lease      *)
(* carries a fence newer than all the fences given out for the task.       *)
(***************************************************************************)
EXTENDS Naturals

CONSTANTS Tasks, Holders

VARIABLES
  clock,    \* the current time
  lease,    \* lease[t]: the set of leases of task t, empty or a singleton
  top,      \* top[t]: the newest fence given out for task t
  yielded   \* yielded[t]: the fences their holders gave up or passed on

fencedVars == <<clock, lease, top, yielded>>

LeaseRecord == [holder : Holders, fence : Nat, until : Nat]

Lapsed(t) == \A l \in lease[t] : l.until <= clock
Running(t) == \E l \in lease[t] : l.until > clock

Yielding(t) == yielded' = [yielded EXCEPT ![t] = @ \cup {l.fence : l \in lease[t]}]

Advance == clock' = clock + 1 /\ UNCHANGED <<lease, top, yielded>>

\* A lease l with a fresh fence replaces whatever task t had before.
Give(t, l) ==
  /\ l \in LeaseRecord
  /\ l.fence = top[t] + 1
  /\ lease' = [lease EXCEPT ![t] = {l}]
  /\ top' = [top EXCEPT ![t] = l.fence]
  /\ UNCHANGED clock

\* A task that has no lease, or whose lease has run out, may be given to anyone.
Grant(t, l) == Lapsed(t) /\ Give(t, l) /\ UNCHANGED yielded

\* A running lease goes to a successor only if its holder passes it on.
Transfer(t, l) == Running(t) /\ Give(t, l) /\ Yielding(t)

\* A running lease gets another deadline; its holder and fence stay.
Extend(t, l) ==
  /\ Running(t)
  /\ l \in LeaseRecord
  /\ \E old \in lease[t] : l.holder = old.holder /\ l.fence = old.fence
  /\ lease' = [lease EXCEPT ![t] = {l}]
  /\ UNCHANGED <<clock, top, yielded>>

\* A lease ends because it ran out, or because its holder gives it up.
End(t) ==
  /\ lease' = [lease EXCEPT ![t] = {}]
  /\ Yielding(t) \/ (Lapsed(t) /\ UNCHANGED yielded)
  /\ UNCHANGED <<clock, top>>

FencedInit ==
  /\ clock = 0
  /\ lease = [t \in Tasks |-> {}]
  /\ top = [t \in Tasks |-> 0]
  /\ yielded = [t \in Tasks |-> {}]

FencedNext ==
  \/ Advance
  \/ \E t \in Tasks :
       \/ \E l \in lease'[t] : Grant(t, l) \/ Transfer(t, l) \/ Extend(t, l)
       \/ End(t)

FencedSpec == FencedInit /\ [][FencedNext]_fencedVars
=============================================================================
