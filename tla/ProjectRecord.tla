---------------------------- MODULE ProjectRecord ----------------------------
(***************************************************************************)
(* What the handlers of a project promise about its metadata record: each  *)
(* request changes it in one step that adds to what was there, a version   *)
(* keeps its commit, and what a request does not name stays as it was.     *)
(***************************************************************************)
EXTENDS Naturals

CONSTANTS Versions, Shas, NoVersion, Missing

VARIABLE record   \* the metadata record, or Missing

Listed(v)  == record.versions[v].sha # 0
Unlisted   == [sha |-> 0, build |-> "none"]
FirstRecord == [current |-> NoVersion, published |-> NoVersion, pinned |-> FALSE,
                versions |-> [v \in Versions |-> Unlisted]]

Init == record = FirstRecord

(* A version is added, and is the current one. *)
AddVersion(v) ==
    /\ ~ Listed(v)
    /\ \E sha \in Shas : record' =
          [record EXCEPT !.versions[v] = [sha |-> sha, build |-> "none"], !.current = v]

(* The workspace is back at a listed version. *)
SetCurrent(v) == Listed(v) /\ record' = [record EXCEPT !.current = v]

(* A build of a listed version ends. *)
EndBuild(v) ==
    /\ Listed(v)
    /\ \E result \in {"success", "failed"} :
          record' = [record EXCEPT !.versions[v].build = result]

(* A successful build is published. *)
Publish(v) ==
    /\ record.versions[v].build = "success"
    /\ record' = [record EXCEPT !.published = v]

SetPinned == \E b \in BOOLEAN : record' = [record EXCEPT !.pinned = b]

Delete == record' = Missing

Next ==
    /\ record # Missing
    /\ \/ SetPinned \/ Delete
       \/ \E v \in Versions : AddVersion(v) \/ SetCurrent(v) \/ EndBuild(v) \/ Publish(v)

Spec == Init /\ [][Next]_record
===============================================================================
