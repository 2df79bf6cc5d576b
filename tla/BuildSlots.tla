------------------------------ MODULE BuildSlots ------------------------------
(***************************************************************************)
(* What the preview service promises about its build slots: at most        *)
(* MaxSlots builds hold one, nobody queues while one is free, and a freed  *)
(* slot passes to the build that has queued longest.                       *)
(***************************************************************************)
EXTENDS Naturals, Sequences, FiniteSets

CONSTANTS Requests, MaxSlots

VARIABLES
    holders,   \* builds that hold a slot
    queue      \* builds that wait for one, the oldest first

Init == holders = {} /\ queue = <<>>

Waiting(r) == \E i \in DOMAIN queue : queue[i] = r

(* A build takes a free slot, or queues when there is none. *)
Enter(r) ==
    /\ r \notin holders
    /\ ~ Waiting(r)
    /\ IF Cardinality(holders) < MaxSlots
       THEN holders' = holders \union {r} /\ UNCHANGED queue
       ELSE queue' = Append(queue, r) /\ UNCHANGED holders

(* A finished build gives its slot to the head of the queue. *)
Leave(r) ==
    /\ r \in holders
    /\ IF queue = <<>>
       THEN holders' = holders \ {r} /\ UNCHANGED queue
       ELSE /\ holders' = (holders \ {r}) \union {Head(queue)}
            /\ queue' = Tail(queue)

(* The process stops: its slots and its queue are gone with it. *)
Reset == holders' = {} /\ queue' = <<>>

Next == Reset \/ \E r \in Requests : Enter(r) \/ Leave(r)

Spec == Init /\ [][Next]_<<holders, queue>>
===============================================================================
