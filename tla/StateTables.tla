------------------------------ MODULE StateTables ------------------------------
(***************************************************************************)
(* The tables of the state store that the properties tell apart, and what  *)
(* the server's updates do to them: workspaces, and agent runs, of which   *)
(* every write keeps the latest RunLimit.                                  *)
(***************************************************************************)
EXTENDS Naturals, Sequences, FiniteSets

CONSTANTS
    Workspaces,      \* ids of workspaces
    SeedWorkspaces,  \* the demonstration workspaces of the seed state
    Runs,            \* ids of agent runs
    SeedRun,         \* the seed's own run
    NoRun,           \* the run of an operation that concerns none
    StartedAt,       \* when each run was stamped as started, some time before its row is stored
    RunLimit         \* how many runs the table keeps

ASSUME SeedAssumption ==
    /\ SeedWorkspaces \subseteq Workspaces /\ SeedWorkspaces # {}
    /\ SeedRun \notin Runs /\ NoRun \notin Runs \union {SeedRun}
ASSUME StampAssumption == StartedAt \in [Runs \union {SeedRun} -> Nat]
ASSUME RunLimitAssumption == RunLimit \in Nat \ {0}

Rows == [run : Runs \union {SeedRun}, ws : Workspaces, open : BOOLEAN]
Tables == [ws : SUBSET Workspaces, runs : {rows \in SUBSET Rows : IsFiniteSet(rows)}]

(* The state of an empty database, as the server first writes it. *)
Seed ==
    [ws   |-> SeedWorkspaces,
     runs |-> {[run |-> SeedRun, ws |-> CHOOSE w \in SeedWorkspaces : TRUE,
                open |-> FALSE]}]

Kinds == {"create", "delete", "start", "end"}
Reads == [kind : {"read"}, ws : SeedWorkspaces, run : {NoRun}]
Updates == [kind : Kinds, ws : Workspaces, run : Runs \union {NoRun}]
Operations == Reads \union Updates

HasRun(t, r) == \E row \in t.runs : row.run = r

(* The mutator looks its row up and throws when there is none. *)
Throws(op, t) == op.kind = "end" /\ ~ HasRun(t, op.run)

(* The rows, those of the given runs ended. *)
Ended(rows, ending) ==
    {IF row.run \in ending THEN [row EXCEPT !.open = FALSE] ELSE row : row \in rows}

(* What a mutator does to the draft it is handed. *)
Mutated(op, t) ==
    CASE op.kind = "create" -> [t EXCEPT !.ws = @ \union {op.ws}]
      [] op.kind = "delete" ->
            [ws   |-> t.ws \ {op.ws},
             runs |-> {row \in t.runs : row.ws # op.ws}]
      [] op.kind = "start" ->
            [t EXCEPT !.runs = @ \union {[run |-> op.run, ws |-> op.ws, open |-> TRUE]}]
      [] op.kind = "end" -> [t EXCEPT !.runs = Ended(@, {op.run})]

(* MUTANT: the rows are loaded order by started_at desc. *)
PrecedesReversed(first, second, pushed) ==
    \/ second.run = pushed
    \/ first.run # pushed /\ StartedAt[first.run] >= StartedAt[second.run]

(* The array of runs that is cut: the rows as they were loaded, in the order *)
(* of their stamps (rows of one stamp in any), and behind them the row that  *)
(* this update pushed, whatever its stamp.                                   *)
MayPrecede(first, second, pushed) ==
    \/ second.run = pushed
    \/ first.run # pushed /\ StartedAt[first.run] <= StartedAt[second.run]

(* MUTANT: the table grows without a limit. *)
AllRetained(rows, pushed) == {rows}

(* The last RunLimit rows of the array, for each order it may have. *)
Retentions(rows, pushed) ==
    IF Cardinality(rows) <= RunLimit THEN {rows}
    ELSE {kept \in SUBSET rows :
            /\ Cardinality(kept) = RunLimit
            /\ \A cut \in rows \ kept : \A row \in kept : MayPrecede(cut, row, pushed)}

(* What pruneState may leave of the tables. *)
Prunings(t, pushed) == {[ws |-> t.ws, runs |-> rows] : rows \in Retentions(t.runs, pushed)}

Pushed(op) == IF op.kind = "start" THEN op.run ELSE NoRun

(* What an update may write. *)
Effects(op, t) == Prunings(Mutated(op, t), Pushed(op))

(* What read() answers: the tables, or the seed when no workspace is left. *)
Served(t) == Prunings(IF t.ws = {} THEN Seed ELSE t, NoRun)

(* Startup writes the seed over a database without workspaces. *)
Initialized(t) == Prunings(IF t.ws = {} THEN Seed ELSE t, NoRun)

(* Startup ends the open runs it finds stale. *)
Recovered(t, stale) == [t EXCEPT !.runs = Ended(@, stale)]
================================================================================
