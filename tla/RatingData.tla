---- MODULE RatingData ----
(***************************************************************************)
(* The pure half of the rating worker (src/worker/omniarena_rating) and of *)
(* the analytics reads of the server (repo/postgres.ts): what each query   *)
(* and each fit computes from the ballots.                                 *)
(*                                                                         *)
(* A ballot is one row of `preferences`; `cast` maps every votable matchup *)
(* to its vote, or to NoVote while nobody voted; `answered` holds the      *)
(* matchups with both their rows in `responses`.  The numbers an optimiser *)
(* produces are abstracted to the data that determines them: the ridge     *)
(* makes the objective strictly convex (__main__.py:7-12), so a rating IS  *)
(* a function of the aggregates the fit was given.                         *)
(***************************************************************************)
EXTENDS Naturals, Sequences, FiniteSets, SequencesExt, FiniteSetsExt

CONSTANTS
  ModelOrder,    \* the models, in the order of created_at (MODELS_SQL)
  IdOrder,       \* the same models, in the order of their uuids (LEAST)
  Matchups,      \* the matchups that may get a vote
  SlotA, SlotB,  \* [Matchups -> model]: who answered behind each slot
  SessionOf,     \* [Matchups -> session]: who votes on it, or NoSession
  NoSession,     \* a vote without anonymous_session_id
  MinForPosition,\* AnomalyConfig.min_decisive_for_position
  MinForVolume   \* AnomalyConfig.min_votes_for_volume

NoVote == "none"
Votes == {"left", "right", "both_good", "both_bad", "skip"}
Models == ToSet(ModelOrder)

ASSUME RosterAssumption ==
  /\ ModelOrder \in Seq(Models) /\ IsInjective(ModelOrder)
  /\ IdOrder \in Seq(Models) /\ ToSet(IdOrder) = Models
  /\ IsInjective(IdOrder)
  /\ IsFiniteSet(Matchups)
  /\ \A u \in Matchups : SlotA[u] \in Models /\ SlotB[u] \in Models \ {SlotA[u]}

Cast(cast) == {u \in Matchups : cast[u] # NoVote}
Scored(cast) == {u \in Cast(cast) : cast[u] # "skip"}
Decisive(cast) == {u \in Cast(cast) : cast[u] \in {"left", "right"}}
Ties(cast) == {u \in Cast(cast) : cast[u] \in {"both_good", "both_bad"}}

\* preferences.winner_model_id: null (here absent) for ties and skips.
WonBy(cast, u, m) ==
  \/ cast[u] = "left" /\ SlotA[u] = m
  \/ cast[u] = "right" /\ SlotB[u] = m

Played(u, m) == m \in {SlotA[u], SlotB[u]}

-----------------------------------------------------------------------------
(* anomaly.py, aggregate.py: the screen and the aggregates                 *)

FetchSessionStats(cast) ==
  LET mine(s) == {u \in Cast(cast) : SessionOf[u] = s}
  IN [s \in {SessionOf[u] : u \in Cast(cast)} \ {NoSession} |->
       [left  |-> Cardinality({u \in mine(s) : cast[u] = "left"}),
        right |-> Cardinality({u \in mine(s) : cast[u] = "right"}),
        total |-> Cardinality(mine(s))]]

(* The p-values are abstracted: a count is implausible for the volume test *)
(* when it exceeds the mean, a split for the position test when it is      *)
(* one-sided.  The speed test needs timestamps and is left out.            *)
DetectAnomalousSessions(stats) ==
  LET all == MapThenSumSet(LAMBDA s : stats[s].total, DOMAIN stats)
      volume(s) == /\ stats[s].total >= MinForVolume
                   /\ stats[s].total * Cardinality(DOMAIN stats) > all
      position(s) == /\ stats[s].left + stats[s].right >= MinForPosition
                     /\ 0 \in {stats[s].left, stats[s].right}
  IN {s \in DOMAIN stats : volume(s) \/ position(s)}

IndexOf(ids, m) == CHOOSE k \in DOMAIN ids : ids[k] = m

\* MODELS_SQL: the enabled models in creation order; a fit indexes them 1..n.
FetchModels(enabled) ==
  LET places == {k \in DOMAIN ModelOrder : ModelOrder[k] \in enabled}
      nth(i) == CHOOSE k \in places : Cardinality({j \in places : j <= k}) = i
  IN [i \in 1..Cardinality(places) |-> ModelOrder[nth(i)]]

(* AGGREGATE_SQL: one row per pair of models that has a vote which is not  *)
(* a skip, the pair in the order of the uuids.                             *)
Counted(cast, excluded) == {u \in Scored(cast) : SessionOf[u] \notin excluded}

AggregateRows(cast, excluded) ==
  LET of(lo, hi) == {u \in Counted(cast, excluded) : Played(u, lo) /\ Played(u, hi)}
      row(lo, hi) ==
        [lo |-> lo, hi |-> hi,
         winsLo |-> Cardinality({u \in of(lo, hi) : WonBy(cast, u, lo)}),
         winsHi |-> Cardinality({u \in of(lo, hi) : WonBy(cast, u, hi)}),
         ties   |-> Cardinality({u \in of(lo, hi) : u \in Ties(cast)})]
  IN {row(IdOrder[p[1]], IdOrder[p[2]]) :
        p \in {q \in (DOMAIN IdOrder) \X (DOMAIN IdOrder) :
                 q[1] < q[2] /\ of(IdOrder[q[1]], IdOrder[q[2]]) # {}}}

(* build_aggregated_data: rows of models outside the list are dropped, and *)
(* the others turned so that i < j in the order of the list, which is not  *)
(* the order of the uuids.                                                 *)
BuildAggregatedData(ids, rows) ==
  LET pair(r) ==
        LET i == IndexOf(ids, r.lo)
            j == IndexOf(ids, r.hi)
        IN IF i < j
           THEN [i |-> i, j |-> j, winsI |-> r.winsLo, winsJ |-> r.winsHi, ties |-> r.ties]
           ELSE [i |-> j, j |-> i, winsI |-> r.winsHi, winsJ |-> r.winsLo, ties |-> r.ties]
      pairs == {pair(r) : r \in {q \in rows : {q.lo, q.hi} \subseteq ToSet(ids)}}
      total(p) == p.winsI + p.winsJ + p.ties
  IN [ids |-> ids, pairs |-> pairs,
      games |-> [k \in DOMAIN ids |->
        MapThenSumSet(total, {p \in pairs : k \in {p.i, p.j}})]]

-----------------------------------------------------------------------------
(* connectivity.py: union-find with ranks and path compression             *)

\* _UnionFind.find: walk to the root, then point the whole path at it.
Find(uf, x) ==
  LET walk[k \in 0..Len(uf.parent)] ==
        IF k = 0 THEN x ELSE uf.parent[walk[k - 1]]
      root == walk[Len(uf.parent)]
      path == {walk[k] : k \in DOMAIN walk}
  IN [root |-> root,
      uf |-> [uf EXCEPT !.parent =
                [y \in DOMAIN @ |-> IF y \in path THEN root ELSE @[y]]]]

\* The bug of joining the two members instead of their roots.
Union_Leaves(uf, a, b) == [uf EXCEPT !.parent[b] = a]

Union(uf, a, b) ==
  LET fa == Find(uf, a)
      fb == Find(fa.uf, b)
      low  == IF fb.uf.rank[fa.root] < fb.uf.rank[fb.root] THEN fa.root ELSE fb.root
      high == IF low = fa.root THEN fb.root ELSE fa.root
  IN IF fa.root = fb.root THEN fb.uf
     ELSE [parent |-> [fb.uf.parent EXCEPT ![low] = high],
           rank |-> [fb.uf.rank EXCEPT ![high] =
                       IF @ = fb.uf.rank[low] THEN @ + 1 ELSE @]]

(* The labels are dense, in the order of the first member of a component.  *)
ConnectedComponents(n, pairs) ==
  LET fresh == [parent |-> [k \in 1..n |-> k], rank |-> [k \in 1..n |-> 0]]
      uf == FoldSet(LAMBDA p, acc : Union(acc, p.i, p.j), fresh, pairs)
      root == [k \in 1..n |-> Find(uf, k).root]
      firstOf(k) == Min({j \in 1..n : root[j] = root[k]})
  IN [k \in 1..n |-> Cardinality({root[j] : j \in 1..(firstOf(k) - 1)})]

(* What the labels are for: two models share a label exactly when a chain  *)
(* of comparisons joins them.                                              *)
Joined(n, pairs, x, y) ==
  \A S \in SUBSET (1..n) :
    x \in S /\ (\A p \in pairs : p.i \in S <=> p.j \in S) => y \in S

-----------------------------------------------------------------------------
(* report.py, style.py: what one fit writes                                *)

(* The optimum of the ridge-penalised likelihood is unique whatever the    *)
(* optimiser starts from: the counts stand for the rating, its error and   *)
(* its interval.                                                           *)
FitBradleyTerry(pairs) == pairs

\* compute_ratings and build_report: one row per model.
ComputeRatings(data) ==
  LET label == ConnectedComponents(Len(data.ids), data.pairs)
  IN [m \in ToSet(data.ids) |->
       [fit   |-> FitBradleyTerry(data.pairs),
        comp  |-> label[IndexOf(data.ids, m)],
        games |-> data.games[IndexOf(data.ids, m)]]]

(* fetch_style_votes + build_style_votes: a later, unaggregated read of    *)
(* the ballots, for the models of the fit only; a style delta takes the    *)
(* answers of both slots, so a round without both is not in it.            *)
FetchStyleVotes_Unscreened(cast, answered, ids, excluded) ==
  {u \in Scored(cast) \cap answered : {SlotA[u], SlotB[u]} \subseteq ToSet(ids)}

FetchStyleVotes(cast, answered, ids, excluded) ==
  {u \in Counted(cast, excluded) \cap answered : {SlotA[u], SlotB[u]} \subseteq ToSet(ids)}

\* fit_style_controlled, likewise determined by the votes it is given.
FitStyleControlled(ballots) == ballots

\* style_pairs: for the components only the edges matter.
StylePairs(ids, ballots) ==
  {[i |-> Min({IndexOf(ids, SlotA[u]), IndexOf(ids, SlotB[u])}),
    j |-> Max({IndexOf(ids, SlotA[u]), IndexOf(ids, SlotB[u])})] : u \in ballots}

ComputeStyleRatings(ids, ballots) ==
  LET label == ConnectedComponents(Len(ids), StylePairs(ids, ballots))
  IN [m \in ToSet(ids) |->
       [fit   |-> FitStyleControlled(ballots),
        comp  |-> label[IndexOf(ids, m)],
        games |-> Cardinality({u \in ballots : Played(u, m)})]]

-----------------------------------------------------------------------------
(* repo/postgres.ts: the reads.  Each is one statement over the tables; a  *)
(* matchup row of the model always has both slots, and model_a_id,         *)
(* model_b_id are the two models of its slots.                             *)

\* getLeaderboard: enabled models only, rated or not (LEFT JOIN).
LeaderboardRow(cast, ratings, m) ==
  LET mine == {u \in Cast(cast) : Played(u, m)}
  IN [id     |-> m,
      wins   |-> Cardinality({u \in mine : WonBy(cast, u, m)}),
      losses |-> Cardinality({u \in mine \cap Decisive(cast) : ~WonBy(cast, u, m)}),
      ties   |-> Cardinality(mine \cap Ties(cast)),
      skips  |-> Cardinality({u \in mine : cast[u] = "skip"}),
      total  |-> Cardinality(mine),
      rating |-> ratings[m]]

GetLeaderboard(cast, enabled, ratings) ==
  {LeaderboardRow(cast, ratings, m) : m \in enabled}

\* readComponents: head-counts per component over the enabled models; an
\* empty answer is components.count = null.
ReadComponents(enabled, ratings, NoRow) ==
  LET rated == {m \in enabled : ratings[m] # NoRow}
  IN {[component |-> c,
       models |-> Cardinality({m \in rated : ratings[m].comp = c})] :
         c \in {ratings[m].comp : m \in rated}}

\* readStyleFeatureSpread: the votes whose style deltas give the scale on which
\* an effect is restated per token or second, as of now; both answers are joined.
StyleFeatureSpread(cast, answered, enabled) ==
  {u \in Scored(cast) \cap answered : {SlotA[u], SlotB[u]} \subseteq enabled}

\* readStyleControl: without coefficients nothing else is read.
ReadStyleControl(cast, answered, enabled, effects) ==
  [effects |-> effects,
   votesObserved |-> IF effects = {} THEN {}
                    ELSE StyleFeatureSpread(cast, answered, enabled)]

\* getStyleControl: its chart joins the two tables of ratings.
GetStyleControl(enabled, ratings, styled, effects, NoRow) ==
  [coefficients |-> effects,
   models |-> {m \in enabled : ratings[m] # NoRow /\ styled[m] # NoRow}]

(* getHeadToHead: one entry per unordered pair with a vote that is not a   *)
(* skip, folded vote by vote.                                              *)
GetHeadToHead_SlotWins(cast) ==
  LET low(u) == Min({IndexOf(IdOrder, SlotA[u]), IndexOf(IdOrder, SlotB[u])})
      high(u) == Max({IndexOf(IdOrder, SlotA[u]), IndexOf(IdOrder, SlotB[u])})
      of(p) == {u \in Scored(cast) : <<low(u), high(u)>> = p}
  IN {[a |-> IdOrder[p[1]], b |-> IdOrder[p[2]],
       aWins |-> Cardinality({u \in of(p) : cast[u] = "left"}),
       bWins |-> Cardinality({u \in of(p) : cast[u] = "right"}),
       ties  |-> Cardinality(of(p) \cap Ties(cast)),
       games |-> Cardinality(of(p))] : p \in {<<low(u), high(u)>> : u \in Scored(cast)}}

GetHeadToHead(cast) ==
  LET low(u) == Min({IndexOf(IdOrder, SlotA[u]), IndexOf(IdOrder, SlotB[u])})
      high(u) == Max({IndexOf(IdOrder, SlotA[u]), IndexOf(IdOrder, SlotB[u])})
      of(p) == {u \in Scored(cast) : <<low(u), high(u)>> = p}
      won(p, k) == Cardinality({u \in of(p) : WonBy(cast, u, IdOrder[p[k]])})
  IN {[a |-> IdOrder[p[1]], b |-> IdOrder[p[2]],
       aWins |-> won(p, 1), bWins |-> won(p, 2),
       ties |-> Cardinality(of(p)) - won(p, 1) - won(p, 2),
       games |-> Cardinality(of(p))] : p \in {<<low(u), high(u)>> : u \in Scored(cast)}}

\* getModelMetrics: decisive votes by the slot the model answered in.
PositionStats(cast, m) ==
  LET inA == {u \in Decisive(cast) : SlotA[u] = m}
      inB == {u \in Decisive(cast) : SlotB[u] = m}
  IN [slotAGames |-> Cardinality(inA), slotBGames |-> Cardinality(inB),
      slotAWins |-> Cardinality({u \in inA : WonBy(cast, u, m)}),
      slotBWins |-> Cardinality({u \in inB : WonBy(cast, u, m)})]

\* getActivity, last bucket: the running count of games per model.
CumulativeGames(cast, m) == Cardinality({u \in Scored(cast) : Played(u, m)})

\* getMatchmakingStats: games per unordered pair.
PairGames(cast, x, y) ==
  Cardinality({u \in Scored(cast) : {SlotA[u], SlotB[u]} = {x, y}})

GetSummary(cast, enabled) ==
  [totalVotes    |-> Cardinality(Cast(cast)),
   decisiveVotes |-> Cardinality(Decisive(cast)),
   tieVotes      |-> Cardinality(Ties(cast)),
   skipVotes     |-> Cardinality({u \in Cast(cast) : cast[u] = "skip"}),
   slotAWins     |-> Cardinality({u \in Cast(cast) : WonBy(cast, u, SlotA[u])}),
   slotBWins     |-> Cardinality({u \in Cast(cast) : WonBy(cast, u, SlotB[u])}),
   pairsSampled  |-> Cardinality({{SlotA[u], SlotB[u]} : u \in Scored(cast)}),
   pairsPossible |-> (Cardinality(enabled) * (Cardinality(enabled) - 1)) \div 2]
====
