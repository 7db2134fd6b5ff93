---- MODULE RatingWorker ----
(***************************************************************************)
(* The rating worker in loop mode (src/worker/omniarena_rating) beside the *)
(* voters that write `preferences`, the rounds that save their answers, and*)
(* the operator who enables and disables models.                           *)
(*                                                                         *)
(* One pass (run_once) reads the database in separate READ COMMITTED       *)
(* statements: the screen, the models, the aggregates and, with --style,   *)
(* the raw votes; it commits twice.  Every step may fail (Fail: the        *)
(* exception the loop survives) or be the last one of the process (Crash); *)
(* a commit may take effect although its reply is lost.                    *)
(***************************************************************************)
EXTENDS RatingData

CONSTANTS
  FullRefitEvery,  \* FULL_REFIT_EVERY, 0 for never
  WithStyle,       \* --style
  Ballots,         \* [Matchups -> SUBSET Votes]: the votes that may be cast
  MaxToggles,      \* bound: changes of models.enabled
  MaxFaults        \* bound: failed or crashed passes

ASSUME WorkerAssumption ==
  /\ FullRefitEvery \in Nat
  /\ WithStyle \in BOOLEAN
  /\ MaxToggles \in Nat /\ MaxFaults \in Nat
  /\ \A u \in Matchups : Ballots[u] \subseteq Votes

NoRow == [fit |-> {}, comp |-> 0, games |-> 0]
NoSeed == [size |-> 0, chain |-> 0]
NoData == [ids |-> <<>>, pairs |-> {}, games |-> <<>>]

VARIABLES
  cast,      \* preferences
  answered,  \* the matchups whose two answers are saved in responses
  enabled,   \* models.enabled
  ratings,   \* model_ratings
  newest,    \* the rows of model_rating_history with the newest computed_at
  styled,    \* model_style_ratings
  effects,   \* style_control_coefficients: the ballots they were fitted on
  pc,        \* where run_once is; "sleep" between two passes
  pass,      \* its locals: excluded, ids, data, ballots
  force,     \* force_cold of this pass
  warm,      \* warm_start, by its length, and the warm fits in a row behind it
  sinceFull, \* since_full
  toggles, faults

tables == <<ratings, newest, styled, effects>>
env == <<cast, answered, enabled, toggles>>
loop == <<warm, sinceFull>>
vars == <<env, tables, pc, pass, force, loop, faults>>

Idle == [excluded |-> {}, ids |-> <<>>, data |-> NoData, ballots |-> {}]

(* Some rounds may have saved their answers before the loop starts.        *)
Init ==
  /\ answered \in SUBSET Matchups
  /\ cast = [u \in Matchups |-> NoVote]
  /\ enabled = Models
  /\ ratings = [m \in Models |-> NoRow]
  /\ newest = <<>>
  /\ styled = [m \in Models |-> NoRow]
  /\ effects = {}
  /\ pc = "sleep"
  /\ pass = Idle
  /\ force = FALSE
  /\ warm = NoSeed
  /\ sinceFull = 0
  /\ toggles = 0
  /\ faults = 0

-----------------------------------------------------------------------------
(* The rest of the world                                                   *)

\* routes/vote.ts: one vote per matchup, never changed afterwards.
Vote(u) ==
  /\ cast[u] = NoVote
  /\ \E v \in Ballots[u] : cast' = [cast EXCEPT ![u] = v]
  /\ UNCHANGED <<answered, enabled, toggles, tables, pc, pass, force, loop, faults>>

(* saveResponse, for the second slot of the round: a first answer is never *)
(* replaced.  It comes before the vote, after it, or never: a save may     *)
(* fail, and the vote route does not ask for answers.                      *)
SaveAnswers(u) ==
  /\ u \notin answered
  /\ answered' = answered \cup {u}
  /\ UNCHANGED <<cast, enabled, toggles, tables, pc, pass, force, loop, faults>>

\* models.enabled is only written outside the server.
Toggle(m) ==
  /\ toggles < MaxToggles
  /\ toggles' = toggles + 1
  /\ enabled' = IF m \in enabled THEN enabled \ {m} ELSE enabled \cup {m}
  /\ UNCHANGED <<cast, answered, tables, pc, pass, force, loop, faults>>

-----------------------------------------------------------------------------
(* The pass                                                                *)

\* main: a pass is cold when the cadence is due; then _screen_sessions.
Screen ==
  /\ pc = "sleep"
  /\ force' = (FullRefitEvery > 0 /\ sinceFull >= FullRefitEvery)
  /\ pass' = [Idle EXCEPT !.excluded = DetectAnomalousSessions(FetchSessionStats(cast))]
  /\ pc' = "models"
  /\ UNCHANGED <<env, tables, loop, faults>>

ReadModels ==
  /\ pc = "models"
  /\ pass' = [pass EXCEPT !.ids = FetchModels(enabled)]
  /\ pc' = "aggregate"
  /\ UNCHANGED <<env, tables, force, loop, faults>>

(* With nothing to fit the pass ends here, and neither the warm state nor  *)
(* the cadence moves.                                                      *)
Aggregate ==
  /\ pc = "aggregate"
  /\ LET data == BuildAggregatedData(pass.ids, AggregateRows(cast, pass.excluded))
     IN IF data.pairs = {}
        THEN pc' = "sleep" /\ pass' = Idle /\ force' = FALSE
        ELSE pc' = "fit" /\ pass' = [pass EXCEPT !.data = data] /\ UNCHANGED force
  /\ UNCHANGED <<env, tables, loop, faults>>

\* The warm state fits a roster of the same size only (warm_start.shape).
Reusable_Unchecked == warm # NoSeed

Reusable == warm # NoSeed /\ warm.size = Len(pass.ids) + 1

Seed == IF ~force /\ Reusable THEN warm ELSE NoSeed

\* fit_bradley_terry raises on an initial vector of another length.
FitRaises == Seed # NoSeed /\ Seed.size # Len(pass.ids) + 1

\* The state the next pass may start from, and the fits since a cold one.
WarmAfter == [size |-> Len(pass.ids) + 1,
              chain |-> IF Seed = NoSeed THEN 0 ELSE Seed.chain + 1]

(* A completed pass.  `cold` is what the loop could see before the pass: a *)
(* fit that turned cold because the roster changed does not count.         *)
Cadence_OffByOne == IF force \/ warm = NoSeed THEN 0 ELSE sinceFull + 1

Cadence == IF force \/ warm = NoSeed THEN 1 ELSE sinceFull + 1

Finish ==
  /\ warm' = WarmAfter
  /\ sinceFull' = Cadence
  /\ pc' = "sleep"
  /\ pass' = Idle
  /\ force' = FALSE

(* write_ratings: the upserts and the history rows in one commit.  Rows of *)
(* models outside the fit are left as they are.                            *)
Upsert(table, rows) ==
  [m \in DOMAIN table \cup DOMAIN rows |-> IF m \in DOMAIN rows THEN rows[m] ELSE table[m]]

WriteRatings ==
  /\ newest' = ComputeRatings(pass.data)
  /\ ratings' = Upsert(ratings, ComputeRatings(pass.data))

FitAndWrite ==
  /\ pc = "fit"
  /\ ~FitRaises
  /\ WriteRatings
  /\ IF WithStyle
     THEN pc' = "style" /\ UNCHANGED <<pass, force, loop>>
     ELSE Finish
  /\ UNCHANGED <<env, styled, effects, faults>>

\* The second read of the votes, under the screen of this pass.
ReadStyleVotes ==
  /\ pc = "style"
  /\ LET ballots == FetchStyleVotes(cast, answered, pass.ids, pass.excluded)
     IN pass' = [pass EXCEPT !.ballots = ballots]
  /\ pc' = "styleFit"
  /\ UNCHANGED <<env, tables, force, loop, faults>>

\* write_style_ratings: the second commit.
WriteStyle ==
  /\ styled' = Upsert(styled, ComputeStyleRatings(pass.ids, pass.ballots))
  /\ effects' = pass.ballots

FitAndWriteStyle ==
  /\ pc = "styleFit"
  /\ IF pass.ballots = {} THEN UNCHANGED <<styled, effects>> ELSE WriteStyle
  /\ Finish
  /\ UNCHANGED <<env, ratings, newest, faults>>

-----------------------------------------------------------------------------
(* Faults                                                                  *)

\* The loop logs the exception and sleeps; its own state is as before.
Abandon == pc' = "sleep" /\ pass' = Idle /\ force' = FALSE

\* A query, a fit or a commit raises: the connection is closed, nothing is kept.
Fail ==
  /\ pc # "sleep"
  /\ faults < MaxFaults \/ (pc = "fit" /\ FitRaises)
  /\ faults' = IF pc = "fit" /\ FitRaises THEN faults ELSE faults + 1
  /\ Abandon
  /\ UNCHANGED <<env, tables, loop>>

\* The commit took effect, and its reply was lost or what follows it raised.
CommitReplyLost ==
  /\ faults < MaxFaults
  /\ faults' = faults + 1
  /\ \/ pc = "fit" /\ ~FitRaises /\ WriteRatings /\ UNCHANGED <<styled, effects>>
     \/ pc = "styleFit" /\ pass.ballots # {} /\ WriteStyle /\ UNCHANGED <<ratings, newest>>
  /\ Abandon
  /\ UNCHANGED <<env, loop>>

\* The process dies and is started again: the loop begins without warm state.
Crash ==
  /\ faults < MaxFaults
  /\ faults' = faults + 1
  /\ Abandon
  /\ warm' = NoSeed
  /\ sinceFull' = 0
  /\ UNCHANGED <<env, tables>>

Work == Screen \/ ReadModels \/ Aggregate \/ FitAndWrite \/ ReadStyleVotes \/ FitAndWriteStyle
Raise == pc = "fit" /\ FitRaises /\ Fail

Next ==
  \/ \E u \in Matchups : Vote(u) \/ SaveAnswers(u)
  \/ \E m \in Models : Toggle(m)
  \/ Work
  \/ Fail
  \/ CommitReplyLost
  \/ Crash

(* The loop sleeps and works for ever.  Work or Raise is enabled in every  *)
(* state, so weak fairness of the two is that the worker's own steps, those*)
(* that move pc at no fault's expense, never cease.                        *)
Proceed == pc' # pc /\ faults' = faults

Fairness == []<><<Proceed>>_vars

Spec == Init /\ [][Next]_vars /\ Fairness

-----------------------------------------------------------------------------
(* Properties                                                              *)

(* The labels published with a fit mean what docs and clients take them    *)
(* for: two models of one fit carry the same component_id exactly when a   *)
(* chain of comparisons joins them, and a model without a game is alone.   *)
LabelsAreComponents ==
  LET n == Len(pass.ids)
      label == ConnectedComponents(n, pass.data.pairs)
  IN \A x, y \in 1..n : label[x] = label[y] <=> Joined(n, pass.data.pairs, x, y)

(* The orientation of a pair survives two re-orderings (uuids in SQL, the  *)
(* roster in Python): every win handed to the fit was a vote for that      *)
(* model against that other one.                                           *)
WinsAreVotes ==
  LET won(i, j) == Cardinality({u \in Matchups :
                     WonBy(cast, u, pass.ids[i]) /\ Played(u, pass.ids[j])})
  IN \A p \in pass.data.pairs : p.winsI <= won(p.i, p.j) /\ p.winsJ <= won(p.j, p.i)

(* What a pass is about to publish is true of the votes it read, although  *)
(* it read the screen, the roster and the counts one after the other, with *)
(* voters and the operator at work in between.                             *)
PassIsFaithful == pc = "fit" => LabelsAreComponents /\ WinsAreVotes

(* Both fits of a pass saw the same voters.  The later, raw read of the    *)
(* votes never brings back a session that the screen excluded, however the *)
(* screen would judge it by then; and of the games the ratings were fitted *)
(* on it leaves out those of rounds with a vote and without both answers   *)
(* (style.py:400-401), and no others.                                      *)
SameVoters ==
  LET seen(k) == {u \in pass'.ballots : Played(u, pass.ids[k])}
      unanswered(k) == {u \in Counted(cast, pass.excluded) \ answered : Played(u, pass.ids[k])}
  IN /\ \A u \in pass'.ballots : SessionOf[u] \notin pass.excluded
     /\ \A k \in DOMAIN pass.ids :
          pass.data.games[k] <= Cardinality(seen(k)) + Cardinality(unanswered(k))

StyleReadCovers == [][pc = "style" /\ pc' = "styleFit" => SameVoters]_vars

(* The cadence of __main__.py:299-306: no published fit is the end of more *)
(* than FULL_REFIT_EVERY - 1 warm starts in a row, through skipped passes, *)
(* failures, lost commits and roster changes.                              *)
WarmChainBounded ==
  FullRefitEvery > 0 =>
    /\ warm.chain < FullRefitEvery
    /\ pc = "fit" /\ Seed # NoSeed => Seed.chain + 1 < FullRefitEvery

(* The five endpoints that count votes tell one story about any table:     *)
(* wins and losses, head-to-head results, slot positions, the activity     *)
(* curve and the summary are counted by different queries.  They read      *)
(* nothing the worker does, so the states before its first fit cover every *)
(* table.                                                                  *)
TalliesAgree ==
  pc = "sleep" /\ newest = <<>> =>
  LET h2h == GetHeadToHead(cast)
      sum == GetSummary(cast, enabled)
      row(m) == LeaderboardRow(cast, ratings, m)
      pos(m) == PositionStats(cast, m)
      of(m) == {p \in h2h : m \in {p.a, p.b}}
      winsIn(m) == MapThenSumSet(LAMBDA p : IF p.a = m THEN p.aWins ELSE p.bWins, of(m))
  IN /\ \A m \in enabled :
          /\ row(m).wins + row(m).losses + row(m).ties + row(m).skips = row(m).total
          /\ winsIn(m) = row(m).wins
          /\ MapThenSumSet(LAMBDA p : p.games, of(m)) = CumulativeGames(cast, m)
          /\ pos(m).slotAWins + pos(m).slotBWins = row(m).wins
          /\ \A x \in Models \ {m} : \A p \in of(m) \cap of(x) : p.games = PairGames(cast, m, x)
     /\ sum.decisiveVotes = sum.slotAWins + sum.slotBWins
     /\ sum.totalVotes = sum.decisiveVotes + sum.tieVotes + sum.skipVotes
     /\ sum.pairsSampled = Cardinality(h2h)

(* The style panel is true of the votes its effects were fitted on: the    *)
(* sample that scales an effect covers those whose models are enabled      *)
(* (postgres.ts:822-826), however many were cast, screened or saved since: *)
(* both reads join the answers, which are never withdrawn; and             *)
(* the chart leaves out no model with a style rating, although the two     *)
(* ratings of a model are written by two commits with a fault between.     *)
StyleReportCovers ==
  LET report == ReadStyleControl(cast, answered, enabled, effects)
      chart == GetStyleControl(enabled, ratings, styled, effects, NoRow)
  IN /\ \A u \in report.effects :
          {SlotA[u], SlotB[u]} \subseteq enabled => u \in report.votesObserved
     /\ \A m \in enabled : styled[m] # NoRow => m \in chart.models

(* Once voters and operator are quiet the ratings become the fit of all    *)
(* the votes that pass the screen, and stay so: no warm state, failure or  *)
(* skipped pass can wedge the loop.                                        *)
UpToDate ==
  LET excluded == DetectAnomalousSessions(FetchSessionStats(cast))
      data == BuildAggregatedData(FetchModels(enabled), AggregateRows(cast, excluded))
  IN data.pairs # {} =>
       \A m \in enabled : /\ ratings[m].fit = data.pairs
                          /\ ratings[m].games = data.games[IndexOf(data.ids, m)]

RatingsCatchUp == <>[]UpToDate
====
