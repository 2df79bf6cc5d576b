----------------------------- MODULE WorkflowEvents -----------------------------
(***************************************************************************)
(* The event log of the turns                                              *)
(* (src/agentHub/src/server/orchestrator/workflow/workflow-events.ts): a    *)
(* turn and its dispatches push events into a buffer; when the turn's       *)
(* handler ends, it copies the buffer into a store update, awaits it and    *)
(* empties the buffer. The update may take effect and still reject, as      *)
(* StateRegister allows; event ids are a primary key.                       *)
(***************************************************************************)
EXTENDS Naturals, FiniteSets

CONSTANTS
    Turns,             \* calls of handleUserMessage
    Dispatches,        \* ids of a turn's parallel dispatches
    EventLimit,        \* WORKFLOW_EVENT_LIMIT
    HighVolumeLimit,   \* HIGH_VOLUME_EVENT_LIMIT
    MaxEvents,         \* bound on the events of one behaviour
    Route              \* the pseudo-turn of events a route stores itself

ASSUME LimitAssumption ==
    /\ EventLimit \in Nat /\ HighVolumeLimit \in Nat /\ HighVolumeLimit < EventLimit
    /\ MaxEvents \in Nat /\ Route \notin Turns

VARIABLES
    clock,      \* events emitted so far: the createdAt of the last one
    phase,      \* where each turn's handler is
    active,     \* dispatches of the turn that still run
    log,        \* workflowEventLog: the turn's buffer
    batch,      \* the copy of it an awaited save carries
    saving,     \* that save: "none", "sent" or "applied"
    stored,     \* state.workflowEvents
    emitted,    \* every event of the turn (history)
    displaced,  \* events that retention removed (history)
    closed,     \* the clock when the handler left its body, by a throw or not (history)
    thrown,     \* turns whose body threw (history)
    failures    \* how many saves of the turn were rejected (history)

turnVars == <<phase, active, log, batch, saving>>
history == <<emitted, closed, thrown, failures>>
vars == <<clock, turnVars, stored, displaced, history>>

Phases == {"new", "open", "saving", "reading", "finally", "retrying", "ended", "gone"}
EventKinds == {"critical", "volume"}
Events == [at : 1 .. MaxEvents, turn : Turns \union {Route}, kind : EventKinds]

Init ==
    /\ clock = 0
    /\ phase = [t \in Turns |-> "new"]
    /\ active = [t \in Turns |-> {}]
    /\ log = [t \in Turns |-> {}]
    /\ batch = [t \in Turns |-> {}]
    /\ saving = [t \in Turns |-> "none"]
    /\ stored = {} /\ displaced = {}
    /\ emitted = [t \in Turns |-> {}]
    /\ closed = [t \in Turns |-> 0]
    /\ thrown = {}
    /\ failures = [t \in Turns |-> 0]

-------------------------------------------------------------------------------
(* Retention: the stored events, in the order of createdAt, precede those     *)
(* of the batch.                                                              *)
Before(e, f, new) == IF (e \in new) = (f \in new) THEN e.at < f.at ELSE f \in new

Latest(n, events, new) ==
    {e \in events : Cardinality({f \in events : Before(e, f, new)}) < n}

OfKind(events, kind) == {e \in events : e.kind = kind}

(* MUTANT: the latest events are kept, whatever their kind. *)
LatestOfAnyKind(old, new) == Latest(EventLimit, old \union new, new)

(* MUTANT: nothing is removed. *)
AllEvents(old, new) == old \union new

(* Past the limit, the latest high-volume events keep a share of their own    *)
(* and the latest critical ones get the rest.                                 *)
Retained(old, new) ==
    LET all == old \union new
        volume == Latest(HighVolumeLimit, OfKind(all, "volume"), new)
    IN IF Cardinality(all) <= EventLimit THEN all
       ELSE volume \union
            Latest(EventLimit - Cardinality(volume), OfKind(all, "critical"), new)

-------------------------------------------------------------------------------
(* The handler and its dispatches. *)
Begin(t) ==
    /\ phase[t] = "new"
    /\ phase' = [phase EXCEPT ![t] = "open"]
    /\ UNCHANGED <<clock, active, log, batch, saving, stored, displaced, history>>

Event(t, kind) == [at |-> clock + 1, turn |-> t, kind |-> kind]

(* emitWorkflowEvent, called by the handler or by a dispatch that still runs. *)
Emit(t, kind) ==
    /\ clock < MaxEvents
    /\ phase[t] = "open" \/ active[t] # {}
    /\ clock' = clock + 1
    /\ log' = [log EXCEPT ![t] = @ \union {Event(t, kind)}]
    /\ emitted' = [emitted EXCEPT ![t] = @ \union {Event(t, kind)}]
    /\ UNCHANGED <<phase, active, batch, saving, stored, displaced, closed, thrown, failures>>

(* The decision's dispatches start, one at a time or as a parallel batch. *)
Dispatch(t, some) ==
    /\ phase[t] = "open" /\ active[t] = {} /\ some # {}
    /\ active' = [active EXCEPT ![t] = some]
    /\ UNCHANGED <<clock, phase, log, batch, saving, stored, displaced, history>>

DispatchEnds(t, d) ==
    /\ d \in active[t]
    /\ active' = [active EXCEPT ![t] = @ \ {d}]
    /\ UNCHANGED <<clock, phase, log, batch, saving, stored, displaced, history>>

(* The body throws: on its own, or because a dispatch threw, whose siblings   *)
(* run on: Promise.all does not wait for them.                                *)
Throw(t) ==
    /\ phase[t] = "open"
    /\ phase' = [phase EXCEPT ![t] = "finally"]
    /\ \/ active[t] = {} /\ UNCHANGED active
       \/ \E d \in active[t] : active' = [active EXCEPT ![t] = @ \ {d}]
    /\ closed' = [closed EXCEPT ![t] = clock]
    /\ thrown' = thrown \union {t}
    /\ UNCHANGED <<clock, log, batch, saving, stored, displaced, emitted, failures>>

(* MUTANT: the handler closes the turn without waiting for its dispatches. *)
AnyTime(t) == TRUE

DispatchesDone(t) == active[t] = {}

(* persistWorkflowEvents copies the buffer and calls the store. *)
Save(t, events, next) ==
    /\ batch' = [batch EXCEPT ![t] = events]
    /\ saving' = [saving EXCEPT ![t] = "sent"]
    /\ phase' = [phase EXCEPT ![t] = next]

(* workflow_finished, and the save at the end of the body. *)
Finish(t) ==
    LET event == Event(t, "critical") IN
    /\ clock < MaxEvents
    /\ phase[t] = "open" /\ DispatchesDone(t)
    /\ clock' = clock + 1
    /\ emitted' = [emitted EXCEPT ![t] = @ \union {event}]
    /\ log' = [log EXCEPT ![t] = @ \union {event}]
    /\ closed' = [closed EXCEPT ![t] = clock + 1]
    /\ Save(t, log[t] \union {event}, "saving")
    /\ UNCHANGED <<active, stored, displaced, thrown, failures>>

(* MUTANT: there is no finally. *)
EndsAtOnce(t) ==
    /\ phase[t] = "finally"
    /\ phase' = [phase EXCEPT ![t] = "ended"]
    /\ UNCHANGED <<clock, active, log, batch, saving, stored, displaced, history>>

(* finally: saves what the buffer still holds. *)
Finally(t) ==
    /\ phase[t] = "finally"
    /\ IF log[t] = {}
       THEN phase' = [phase EXCEPT ![t] = "ended"] /\ UNCHANGED <<batch, saving>>
       ELSE Save(t, log[t], "retrying")
    /\ UNCHANGED <<clock, active, log, stored, displaced, history>>

(* The read that answers the request; whether it throws or not, finally runs. *)
Read(t) ==
    /\ phase[t] = "reading"
    /\ phase' = [phase EXCEPT ![t] = "finally"]
    /\ UNCHANGED <<clock, active, log, batch, saving, stored, displaced, history>>

-------------------------------------------------------------------------------
(* The store's update takes effect; an id it holds already makes it fail. *)
SaveApplies(t) ==
    /\ saving[t] = "sent"
    /\ batch[t] \cap stored = {}
    /\ stored' = Retained(stored, batch[t])
    /\ displaced' = displaced \union ((stored \union batch[t]) \ stored')
    /\ saving' = [saving EXCEPT ![t] = "applied"]
    /\ UNCHANGED <<clock, phase, active, log, batch, history>>

AfterSave(t) == IF phase[t] = "saving" THEN "reading" ELSE "ended"

(* workflowEventLog.length = 0, whatever was pushed during the await. *)
SaveResolves(t) ==
    /\ saving[t] = "applied"
    /\ log' = [log EXCEPT ![t] = {}]
    /\ batch' = [batch EXCEPT ![t] = {}]
    /\ saving' = [saving EXCEPT ![t] = "none"]
    /\ phase' = [phase EXCEPT ![t] = AfterSave(t)]
    /\ UNCHANGED <<clock, active, stored, displaced, history>>

(* MUTANT: the buffer is emptied although nothing was saved. *)
EmptiedOnFailure(t) == {}

LogAfterFailure(t) == log[t]

SaveRejects(t) ==
    /\ saving[t] # "none"
    /\ failures' = [failures EXCEPT ![t] = @ + 1]
    /\ log' = [log EXCEPT ![t] = LogAfterFailure(t)]
    /\ batch' = [batch EXCEPT ![t] = {}]
    /\ saving' = [saving EXCEPT ![t] = "none"]
    /\ phase' = [phase EXCEPT ![t] = AfterSave(t)]
    /\ UNCHANGED <<clock, active, stored, displaced, emitted, closed, thrown>>

(* The zip route stores two events itself: only the store's own pruning, to   *)
(* the latest of any kind, follows.                                           *)
ZipRoute ==
    LET new == {[at |-> clock + n, turn |-> Route, kind |-> "critical"] : n \in {1, 2}} IN
    /\ clock + 2 <= MaxEvents
    /\ clock' = clock + 2
    /\ stored' = Latest(EventLimit, stored \union new, new)
    /\ displaced' = displaced \union ((stored \union new) \ stored')
    /\ UNCHANGED <<turnVars, history>>

(* The process stops; the buffers and the awaited saves are gone. *)
Stop ==
    /\ phase' = [t \in Turns |-> IF phase[t] \in {"new", "ended"} THEN phase[t] ELSE "gone"]
    /\ active' = [t \in Turns |-> {}]
    /\ log' = [t \in Turns |-> {}]
    /\ batch' = [t \in Turns |-> {}]
    /\ saving' = [t \in Turns |-> "none"]
    /\ UNCHANGED <<clock, stored, displaced, history>>

Run(t) ==
    \/ Begin(t) \/ Throw(t) \/ Finish(t) \/ Finally(t) \/ Read(t)
    \/ SaveApplies(t) \/ SaveResolves(t) \/ SaveRejects(t)
    \/ \E kind \in EventKinds : Emit(t, kind)
    \/ \E some \in SUBSET Dispatches : Dispatch(t, some)
    \/ \E d \in Dispatches : DispatchEnds(t, d)

Next == ZipRoute \/ Stop \/ \E t \in Turns : Run(t)

Spec == Init /\ [][Next]_vars

-------------------------------------------------------------------------------
(* Every variable has its type, and the stored events respect their limit. *)
TypeOK ==
    /\ clock \in 0 .. MaxEvents
    /\ phase \in [Turns -> Phases]
    /\ active \in [Turns -> SUBSET Dispatches]
    /\ log \in [Turns -> SUBSET Events]
    /\ batch \in [Turns -> SUBSET Events]
    /\ saving \in [Turns -> {"none", "sent", "applied"}]
    /\ stored \subseteq Events /\ displaced \subseteq Events
    /\ Cardinality(stored) <= EventLimit
    /\ emitted \in [Turns -> SUBSET Events]
    /\ closed \in [Turns -> 0 .. MaxEvents]
    /\ thrown \subseteq Turns
    /\ failures \in [Turns -> Nat]

Kept(e) == e \in stored \/ e \in displaced

(* A turn that ended by itself has all its events stored, or displaced by     *)
(* later ones, even when one of its two saves failed: the first is retried    *)
(* by finally.                                                                *)
FinishedTurnsAreLogged ==
    \A t \in Turns \ thrown :
        phase[t] = "ended" /\ failures[t] < 2 => \A e \in emitted[t] : Kept(e)

(* What a turn that threw loses, unless its save fails, was emitted after it  *)
(* had thrown, by dispatches that run on.                                     *)
OnlyLateEventsAreLost ==
    \A t \in thrown :
        phase[t] = "ended" /\ failures[t] = 0 =>
            \A e \in emitted[t] : Kept(e) \/ e.at > closed[t]

(* A save displaces a critical event only when high-volume events are within  *)
(* their own limit and the store is full.                                     *)
NoiseKeepsItsShare ==
    [][\A t \in Turns :
          (/\ saving[t] = "sent" /\ saving'[t] = "applied"
           /\ OfKind((stored \union batch[t]) \ stored', "critical") # {}) =>
              /\ Cardinality(OfKind(stored', "volume")) <= HighVolumeLimit
              /\ Cardinality(stored') = EventLimit]_vars

(* The events of a failed turn are stored (the comment on                     *)
(* persistWorkflowEvents).                                                    *)
FailedTurnsAreLogged ==
    \A t \in thrown :
        phase[t] = "ended" /\ failures[t] = 0 => \A e \in emitted[t] : Kept(e)
================================================================================
