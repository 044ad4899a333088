---------------------------- MODULE FileIntake -----------------------------
(***************************************************************************)
(* What the intake of files promises, whatever the goroutines, the channel *)
(* and the Kubernetes calls in between: every watcher has a queue of the   *)
(* events it has seen, the events of a queue are handled one by one, oldest*)
(* first, and handling one either starts one extract job for it or forgets *)
(* it.  A crash of the service loses what is queued, and nothing else does.*)
(***************************************************************************)
EXTENDS Naturals, Sequences

CONSTANT Watchers

VARIABLES
    seen,     \* events so far; an event is named by its number
    queue,    \* queue[w]: the events of watcher w that are not handled yet
    started   \* the jobs started, in order: [from |-> watcher, id |-> event]

vars == <<seen, queue, started>>

Init ==
    /\ seen = 0
    /\ queue = [w \in Watchers |-> <<>>]
    /\ started = <<>>

\* A new event is queued for the watchers in W; W may be empty.
Arrive(W) ==
    /\ seen' = seen + 1
    /\ queue' = [w \in Watchers |-> IF w \in W THEN Append(queue[w], seen') ELSE queue[w]]
    /\ UNCHANGED started

Handle(w) ==
    /\ queue[w] # <<>>
    /\ queue' = [queue EXCEPT ![w] = Tail(@)]
    /\ started' \in {started, Append(started, [from |-> w, id |-> Head(queue[w])])}
    /\ UNCHANGED seen

Lose ==
    /\ queue' = [w \in Watchers |-> <<>>]
    /\ UNCHANGED <<seen, started>>

Next ==
    \/ \E W \in SUBSET Watchers : Arrive(W)
    \/ \E w \in Watchers : Handle(w)
    \/ Lose

Spec == Init /\ [][Next]_vars
============================================================================
