----------------------------- MODULE StateRegister -----------------------------
(***************************************************************************)
(* What the rest of the server relies on when it calls the state store: an *)
(* update takes effect at one instant between its call and its answer, in  *)
(* the order of the calls, on everything earlier updates left; a read      *)
(* answers one such state; a rejected update has had its whole effect or   *)
(* none; and a restart loses nothing that had taken effect.                *)
(***************************************************************************)
EXTENDS StateTables

CONSTANTS Calls, Nothing

VARIABLES
    tables,   \* the stored state
    calls,    \* what is known of each call
    order     \* the updates under way, in the order of their calls

Phases == {"idle", "waiting", "applied"}
IdleCall(result) ==
    [phase |-> "idle", op |-> Nothing, shown |-> Nothing, result |-> result]

Init ==
    /\ tables = Seed
    /\ calls = [c \in Calls |-> IdleCall("none")]
    /\ order = << >>

Invoke(c, op) ==
    /\ calls[c].phase = "idle"
    /\ calls' = [calls EXCEPT ![c] =
        [phase |-> "waiting", op |-> op, shown |-> Nothing, result |-> "none"]]
    /\ order' = IF op \in Updates THEN Append(order, c) ELSE order
    /\ UNCHANGED tables

Goto(c, phase, shown) ==
    calls' = [calls EXCEPT ![c] =
        [phase |-> phase, op |-> calls[c].op, shown |-> shown, result |-> calls[c].result]]

(* The update whose turn it is takes effect, with its pruning. *)
Apply(c) ==
    /\ calls[c].phase = "waiting" /\ calls[c].op \in Updates
    /\ order # << >> /\ Head(order) = c
    /\ ~ Throws(calls[c].op, tables)
    /\ tables' \in Effects(calls[c].op, tables)
    /\ Goto(c, "applied", Nothing)
    /\ UNCHANGED order

Show(c) ==
    /\ calls[c].phase = "waiting" /\ calls[c].op \in Reads
    /\ \E shown \in Served(tables) : Goto(c, "applied", shown)
    /\ UNCHANGED <<tables, order>>

Answered(c, result) ==
    /\ calls' = [calls EXCEPT ![c] = IdleCall(result)]
    /\ IF calls[c].op \in Updates
       THEN order # << >> /\ Head(order) = c /\ order' = Tail(order)
       ELSE UNCHANGED order
    /\ UNCHANGED tables

Resolve(c) == calls[c].phase = "applied" /\ Answered(c, "ok")
Reject(c) == calls[c].phase # "idle" /\ Answered(c, "error")

(* The server stops; whatever had taken effect stays. *)
Stop ==
    /\ calls' = [c \in Calls |-> IdleCall("none")]
    /\ order' = << >>
    /\ UNCHANGED tables

(* The server starts: an emptied store is seeded, stale runs are ended. *)
Boot ==
    /\ \/ tables' \in Initialized(tables)
       \/ \E stale \in SUBSET (Runs \union {SeedRun}) :
              tables' \in Prunings(Recovered(tables, stale), NoRun)
    /\ UNCHANGED <<calls, order>>

Next ==
    \/ Stop \/ Boot
    \/ \E c \in Calls :
        \/ \E op \in Operations : Invoke(c, op)
        \/ Apply(c) \/ Show(c) \/ Resolve(c) \/ Reject(c)

Spec == Init /\ [][Next]_<<tables, calls, order>>
================================================================================
