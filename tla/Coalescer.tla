------------------------------ MODULE Coalescer ------------------------------
(***************************************************************************)
(* What a debouncer promises its callers, without timers, versions, locks  *)
(* or wait groups.  Every accepted submission of an instance waits until   *)
(* it is replaced by a newer one of the same instance or is taken for      *)
(* delivery; what is taken is delivered exactly once; closing takes every  *)
(* waiting submission, and the close returns only when nothing is owed.    *)
(***************************************************************************)
EXTENDS Naturals

CONSTANTS Instances,   \* instance IDs
          Events       \* payloads

VARIABLES count,       \* submissions accepted so far
          accepted,    \* those submissions, numbered in order
          waiting,     \* the newest submission of each instance, not yet taken
          owed,        \* taken, not yet delivered
          done,        \* delivered
          phase        \* "open", "closing" or "closed"

vars == <<count, accepted, waiting, owed, done, phase>>

Init ==
    /\ count = 0
    /\ accepted = {}
    /\ waiting = {}
    /\ owed = {}
    /\ done = {}
    /\ phase = "open"

Put(i, e) ==
    /\ phase = "open"
    /\ count' = count + 1
    /\ LET j == [id |-> i, ev |-> e, n |-> count + 1]
       IN  /\ accepted' = accepted \cup {j}
           /\ waiting' = {w \in waiting : w.id # i} \cup {j}
    /\ UNCHANGED <<owed, done, phase>>

Take(j) ==
    /\ phase = "open"
    /\ j \in waiting
    /\ waiting' = waiting \ {j}
    /\ owed' = owed \cup {j}
    /\ UNCHANGED <<count, accepted, done, phase>>

Deliver(j) ==
    /\ j \in owed
    /\ owed' = owed \ {j}
    /\ done' = done \cup {j}
    /\ UNCHANGED <<count, accepted, waiting, phase>>

Close ==
    /\ phase = "open"
    /\ phase' = "closing"
    /\ owed' = owed \cup waiting
    /\ waiting' = {}
    /\ UNCHANGED <<count, accepted, done>>

Return ==
    /\ phase = "closing"
    /\ owed = {}
    /\ phase' = "closed"
    /\ UNCHANGED <<count, accepted, waiting, owed, done>>

Next ==
    \/ \E i \in Instances, e \in Events : Put(i, e)
    \/ \E j \in waiting : Take(j)
    \/ \E j \in owed : Deliver(j)
    \/ Close
    \/ Return

SafeSpec == Init /\ [][Next]_vars
==============================================================================
