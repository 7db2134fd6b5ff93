---- MODULE RatingReader ----
(***************************************************************************)
(* One GET /api/arena/leaderboard beside the rating worker.  The reply is  *)
(* put together from statements that share no snapshot: the rows and, at   *)
(* the same time, the context, which reads the component groups, then the  *)
(* style coefficients, then the sample of votes that scales them.          *)
(***************************************************************************)
EXTENDS RatingWorker

VARIABLE reader  \* the request: statements to go, and what the others returned

Statements == {"rows", "groups", "effects", "spread"}

ReaderInit ==
  /\ Init
  /\ reader = [left |-> Statements, rows |-> {}, groups |-> {},
               effects |-> {}, votes |-> {}, roster |-> {}]

Pending(q) == q \in reader.left
Done(qs) == reader.left \ qs

\* getLeaderboard
ReadRows ==
  /\ Pending("rows")
  /\ reader' = [reader EXCEPT !.left = Done({"rows"}),
                              !.rows = GetLeaderboard(cast, enabled, ratings)]
  /\ UNCHANGED vars

\* getRatingContext awaits readComponents before it turns to the style.
ReadGroups ==
  /\ Pending("groups")
  /\ reader' = [reader EXCEPT !.left = Done({"groups"}),
                              !.groups = ReadComponents(enabled, ratings, NoRow)]
  /\ UNCHANGED vars

\* readStyleControl: without coefficients there is nothing to scale.
ReadEffects ==
  /\ Pending("effects") /\ ~Pending("groups")
  /\ reader' = [reader EXCEPT !.left = Done({"effects"} \cup IF effects = {} THEN {"spread"} ELSE {}),
                              !.effects = effects]
  /\ UNCHANGED vars

Sample ==
  /\ reader' = [reader EXCEPT !.left = Done({"spread"}),
                              !.votes = StyleFeatureSpread(cast, answered, enabled),
                              !.roster = enabled]
  /\ UNCHANGED vars

\* The sample taken beside the coefficients instead of after them.
ReadSpread_Concurrent == Pending("spread") /\ Sample

ReadSpread == Pending("spread") /\ ~Pending("effects") /\ Sample

Read == ReadRows \/ ReadGroups \/ ReadEffects \/ ReadSpread

ReaderNext == Read \/ (Next /\ UNCHANGED reader)

ReaderSpec == ReaderInit /\ [][ReaderNext]_<<vars, reader>>

-----------------------------------------------------------------------------
(* Properties                                                              *)

(* The reply restates an effect on a scale that fits it: of the votes the  *)
(* effect was fitted on, the sample leaves out only those of models that   *)
(* were disabled by then, whatever the worker commits and whoever votes    *)
(* between the two statements (postgres.ts:772).                           *)
ReplyScaled ==
  reader.left = {} =>
    \A u \in reader.effects : {SlotA[u], SlotB[u]} \subseteq reader.roster => u \in reader.votes

(* The style panel is true of what its coefficients were fitted on, in the *)
(* tables and in a reply that is read from them by several statements.     *)
StylePanelTrue == StyleReportCovers /\ ReplyScaled

(* leaderboard.ts:12-13: "there is no request a client can make that       *)
(* returns an unqualified leaderboard", that is, a rated row without the   *)
(* group that says which rows it compares with.                            *)
ReplyQualified ==
  reader.left = {} =>
    \A r \in reader.rows : r.rating # NoRow =>
      \E g \in reader.groups : g.component = r.rating.comp

(* postgres.ts:822-824: the sample is "a superset of the worker's when its *)
(* anomaly screen excluded sessions or a model was later disabled".        *)
SampleIsSuperset == reader.left = {} => reader.effects \subseteq reader.votes
====
