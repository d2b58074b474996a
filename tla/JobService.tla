----------------------------- MODULE JobService -----------------------------
(***************************************************************************)
(* What the admin server promises about jobs, without threads or messages: *)
(* requests are served one at a time in the order they were submitted,     *)
(* each once, until the service closes; it closes between two requests or  *)
(* when it has served one, turns away who waits, and serves none after it. *)
(***************************************************************************)
EXTENDS Naturals, Sequences

CONSTANT Requests

VARIABLES waiting,   \* requests not served yet, in the order they came
          served,    \* requests that have their answer
          open

vars == <<waiting, served, open>>

Init == waiting = <<>> /\ served = {} /\ open = TRUE

Submit(r) ==
  /\ open /\ r \notin served
  /\ \A i \in 1..Len(waiting) : waiting[i] # r
  /\ waiting' = Append(waiting, r)
  /\ UNCHANGED <<served, open>>

Serve ==
  /\ open /\ waiting # <<>>
  /\ served' = served \cup {Head(waiting)}
  /\ waiting' = Tail(waiting)
  /\ UNCHANGED open

Close ==
  /\ open /\ open' = FALSE
  /\ \/ UNCHANGED served
     \/ waiting # <<>> /\ served' = served \cup {Head(waiting)}
  /\ waiting' = <<>>

Next == (\E r \in Requests : Submit(r)) \/ Serve \/ Close

Spec == Init /\ [][Next]_vars
=============================================================================
