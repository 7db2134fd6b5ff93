---- MODULE Deployment ----
(***************************************************************************)
(* A deployment's life: the container migrates the database, seeds its     *)
(* lineup, starts the server and is restarted when any of them ends        *)
(* (docker/entrypoint.sh, docker-compose.yml); an operator may run the     *)
(* migrations and another seed by hand beside it (README.md:55-56); the    *)
(* server turns requests into rounds (routes/chat.ts) with the roster the  *)
(* database has at that moment.  Each query is a step, and a transaction   *)
(* of a migration is one commit.                                           *)
(***************************************************************************)
EXTENDS Plans

CONSTANTS
  Files,      \* the migrations, in the order of their names
  Renames,    \* old name of a migration -> its current name
  OldLog,     \* the names an older release has recorded
  Lineup,     \* process -> the models its seed enables, in order
  Configs,    \* the environments a deployment may have
  Bodies,     \* the request bodies clients send
  Protocols,  \* the protocols they speak
  Games,      \* what the matchmaking stats count for every pair
  Rated,      \* the ids of the models the worker has rated
  MaxDeaths,  \* how often a process is killed
  MaxRuns     \* how often the operator runs the scripts

\* Only a name of before is renamed, and what an older release has recorded are
\* its files, the first ones.
ASSUME FilesInOrder == Files \in Seq(Range(Files)) /\ IsInjective(Files)
ASSUME RenamesAreOld == DOMAIN Renames \cap Range(Files) = {}
ASSUME LineupsAreModels == \A p \in {"app", "operator"} : Lineup[p] \in Seq(Models \ {NoModel})
ASSUME BodiesAreBodies == Bodies \subseteq RequestBodies

VARIABLES
  config,   \* the environment of the container
  schema,   \* [table, recorded, log]: schema_migrations and the DDL in effect
  enabled,  \* the models with enabled = TRUE
  process,  \* per process [at, todo]: the places left to do, of Files or its lineup
  default,  \* the server's resolved default model
  request,  \* the request in the handler, or the last one answered
  budget    \* [deaths, runs] left

deployed == <<config, schema, enabled, process, default, request, budget>>

Process == {"app", "operator"}
NoRequest == [at |-> "none"]

Current(name) == IF name \in DOMAIN Renames THEN Renames[name] ELSE name

ASSUME AnOlderRelease ==
  /\ IsFiniteSet(OldLog) /\ Cardinality(OldLog) <= Len(Files)
  /\ {Current(n) : n \in OldLog} = {Files[i] : i \in 1 .. Cardinality(OldLog)}

DeployInit ==
  /\ config \in Configs
  /\ \/ schema = [table |-> FALSE, recorded |-> {}, log |-> <<>>]
     \/ schema = [table |-> TRUE, recorded |-> OldLog,
                  log |-> SubSeq(Files, 1, Cardinality(OldLog))]
  /\ enabled = {}
  /\ process = [p \in Process |-> [at |-> IF p = "app" THEN "check" ELSE "ended", todo |-> {}]]
  /\ default = NoModel
  /\ request = NoRequest
  /\ budget = [deaths |-> MaxDeaths, runs |-> MaxRuns]

MoveTo(p, place, todo) == process' = [process EXCEPT ![p] = [at |-> place, todo |-> todo]]
At(p, place) == process[p].at = place

serverOnly == <<default, request>>

-----------------------------------------------------------------------------
(* runMigrations.                                                          *)

CheckTable(p) ==
  /\ At(p, "check")
  /\ MoveTo(p, IF schema.table THEN "rename" ELSE "create", {})
  /\ UNCHANGED <<config, schema, enabled, serverOnly, budget>>

\* Of two that found no table, the later one's CREATE fails.
CreateTable(p) ==
  /\ At(p, "create")
  /\ IF schema.table
     THEN MoveTo(p, "ended", {}) /\ UNCHANGED schema
     ELSE MoveTo(p, "list", {}) /\ schema' = [schema EXCEPT !.table = TRUE]
  /\ UNCHANGED <<config, enabled, serverOnly, budget>>

\* Without it the files of an older release would be taken for new ones.
Renamed_Never(names) == names

Renamed(names) == {Current(n) : n \in names}

RenameOld(p) ==
  /\ At(p, "rename")
  /\ schema' = [schema EXCEPT !.recorded = Renamed(@)]
  /\ MoveTo(p, "list", {})
  /\ UNCHANGED <<config, enabled, serverOnly, budget>>

Outstanding(applied) == {i \in DOMAIN Files : Files[i] \notin applied}

\* readdir without the sort.
Foremost_Unsorted(places) == Max(places)

Foremost(places) == Min(places)
After(places) == places \ {Foremost(places)}
File(p) == Files[Foremost(process[p].todo)]

ListApplied(p) ==
  /\ At(p, "list")
  /\ MoveTo(p, "apply", Outstanding(schema.recorded))
  /\ UNCHANGED <<config, schema, enabled, serverOnly, budget>>

\* A file runs under the locks of its DDL; one that is in effect is refused, by
\* its DDL or by the primary key of its name, and the script throws.
BeginFile(p) ==
  /\ At(p, "apply") /\ process[p].todo # {}
  /\ \A q \in Process : At(q, "sql") => File(q) # File(p)
  /\ IF File(p) \in Range(schema.log) \cup schema.recorded
     THEN MoveTo(p, "ended", {})
     ELSE MoveTo(p, "sql", process[p].todo)
  /\ UNCHANGED <<config, schema, enabled, serverOnly, budget>>

CommitFile(p) ==
  /\ At(p, "sql")
  /\ schema' = [schema EXCEPT !.recorded = @ \cup {File(p)}, !.log = Append(@, File(p))]
  /\ MoveTo(p, "apply", After(process[p].todo))
  /\ UNCHANGED <<config, enabled, serverOnly, budget>>

-----------------------------------------------------------------------------
(* The seed: disable every model, then upsert the lineup one by one, each  *)
(* statement on its own.                                                   *)

DisableAll(p) ==
  /\ At(p, "apply") /\ process[p].todo = {}
  /\ enabled' = {}
  /\ MoveTo(p, "upsert", DOMAIN Lineup[p])
  /\ UNCHANGED <<config, schema, serverOnly, budget>>

Upsert(p) ==
  /\ At(p, "upsert") /\ process[p].todo # {}
  /\ enabled' = enabled \cup {Lineup[p][Foremost(process[p].todo)]}
  /\ MoveTo(p, "upsert", After(process[p].todo))
  /\ UNCHANGED <<config, schema, serverOnly, budget>>

Seeded(p) ==
  /\ At(p, "upsert") /\ process[p].todo = {}
  /\ MoveTo(p, IF p = "app" THEN "boot" ELSE "ended", {})
  /\ UNCHANGED <<config, schema, enabled, serverOnly, budget>>

-----------------------------------------------------------------------------
(* server.ts, and the restart policy.                                      *)

\* The default as server.ts resolves it, the mode having been asserted.
Resolved(models) ==
  IF config.default = Absent THEN NoModel ELSE FindDefaultModel(config.default, models)

Boots(models) ==
  /\ AssertArenaModeConfig(config)
  /\ config.default # Absent => Resolved(models) # NoModel

Boot ==
  /\ At("app", "boot")
  /\ IF Boots(enabled)
     THEN MoveTo("app", "serving", {}) /\ default' = Resolved(enabled)
     ELSE MoveTo("app", "ended", {}) /\ UNCHANGED default
  /\ UNCHANGED <<config, schema, enabled, request, budget>>

\* A transaction that was open is rolled back; the handler's request is cut.
Die(p) ==
  /\ budget.deaths > 0 /\ ~At(p, "ended")
  /\ MoveTo(p, "ended", {})
  /\ budget' = [budget EXCEPT !.deaths = @ - 1]
  /\ IF p = "app" THEN default' = NoModel /\ request' = NoRequest ELSE UNCHANGED serverOnly
  /\ UNCHANGED <<config, schema, enabled>>

\* The restart policy of the container.
Restart ==
  /\ At("app", "ended")
  /\ MoveTo("app", "check", {})
  /\ UNCHANGED <<config, schema, enabled, serverOnly, budget>>

RunByHand ==
  /\ At("operator", "ended") /\ budget.runs > 0
  /\ MoveTo("operator", "check", {})
  /\ budget' = [budget EXCEPT !.runs = @ - 1]
  /\ UNCHANGED <<config, schema, enabled, serverOnly>>

-----------------------------------------------------------------------------
(* The chat handler, up to the models of its round.                        *)

Answered(r, code, a, b) ==
  request' = [r EXCEPT !.at = "answered", !.code = code, !.A = a, !.B = b]

\* Parse, then plan.  A plan of one model looks the default up, the others draw.
Receive(body, protocol, header, hit) ==
  /\ At("app", "serving") /\ request.at \in {"none", "answered"}
  /\ LET parsed == ParseChatRequest(body, protocol)
         plan == ResolveArenaPlan(config, parsed.props.arena \/ header, hit)
         r == [at |-> "answered", code |-> "ok", plan |-> "none", A |-> NoModel, B |-> NoModel,
               incumbent |-> NoModel, body |-> body, header |-> header, prompt |-> Absent]
     IN IF ~parsed.ok THEN request' = [r EXCEPT !.code = parsed.code]
        ELSE IF /\ plan = "matchup"
                /\ parsed.props.joinKey # Absent /\ parsed.props.session = Absent
        THEN request' = [r EXCEPT !.code = "join_requires_session"]
        ELSE request' = [r EXCEPT !.plan = plan, !.prompt = parsed.prompt,
                           !.at = IF plan = "matchup" THEN "draw" ELSE "look up"]
  /\ UNCHANGED <<config, schema, enabled, process, default, budget>>

LookUp ==
  /\ request.at = "look up"
  /\ IF default \notin enabled THEN Answered(request, "default_model_missing", NoModel, NoModel)
     ELSE IF request.plan = "single" THEN Answered(request, "ok", default, NoModel)
     ELSE request' = [request EXCEPT !.at = "draw", !.incumbent = default]
  /\ UNCHANGED <<config, schema, enabled, process, default, budget>>

Picks ==
  LET models == SetToSeq(enabled)
  IN IF config.matchmaker = "random" THEN RandomPick(models)
     ELSE SmartPick(models, Games, Rated)

\* The matchmaker reads the roster anew.  With fewer than two models it throws.
Draw ==
  /\ request.at = "draw"
  /\ \/ /\ Cardinality(enabled) < 2
        /\ Answered(request, "error", NoModel, NoModel)
     \/ /\ Cardinality(enabled) >= 2
        /\ \E assignment \in Picks :
             IF request.plan = "matchup"
             THEN Answered(request, "ok", assignment.slotA, assignment.slotB)
             ELSE LET challenger == Challenger(assignment, request.incumbent)
                  IN IF challenger = NoModel
                     THEN Answered(request, "shadow_challenger_missing", NoModel, NoModel)
                     ELSE Answered(request, "ok", request.incumbent, challenger)
  /\ UNCHANGED <<config, schema, enabled, process, default, budget>>

-----------------------------------------------------------------------------
Migrates(p) ==
  CheckTable(p) \/ CreateTable(p) \/ RenameOld(p) \/ ListApplied(p) \/ BeginFile(p) \/ CommitFile(p)

Seeds(p) == DisableAll(p) \/ Upsert(p) \/ Seeded(p)

Serves ==
  \/ \E body \in Bodies, protocol \in Protocols, header \in BOOLEAN, hit \in Hits(config) :
       Receive(body, protocol, header, hit)
  \/ LookUp
  \/ Draw

DeployNext ==
  \/ \E p \in Process : Migrates(p) \/ Seeds(p) \/ Die(p)
  \/ Boot \/ Restart \/ RunByHand \/ Serves

(* A process that runs goes on, and compose restarts the container.        *)
DeployFairness ==
  /\ \A p \in Process : WF_deployed(Migrates(p) \/ Seeds(p))
  /\ WF_deployed(Boot) /\ WF_deployed(Restart)

DeploySpec == DeployInit /\ [][DeployNext]_deployed /\ DeployFairness

-----------------------------------------------------------------------------
(* Properties.                                                             *)

(* However the two processes interleave and wherever they die, the DDL in  *)
(* effect is that of the first files, each once and in order, and what     *)
(* schema_migrations records is those files (db/migrations.ts:50-68).      *)
MigratedOnce ==
  /\ IsPrefix(schema.log, Files)
  /\ Renamed(schema.recorded) = Range(schema.log)
  /\ Cardinality(schema.recorded) = Len(schema.log)

Named(m) == config.default \in {m.id, m.key, m.slug, m.name}

NewestUserText(messages, text) ==
  \E i \in DOMAIN messages :
    /\ messages[i] = [role |-> "user", text |-> text]
    /\ \A j \in i + 1 .. Len(messages) : messages[j].role # "user"

(* A round is the one the deployment promises for that request, whatever   *)
(* seeds ran between its reads of the roster: its prompt is the newest     *)
(* thing the user said, it is compared only where the trigger engages it,  *)
(* one model alone or the incumbent of a shadow round is the one the       *)
(* operator named, and two models are two.  The refusal of a shadow round  *)
(* for want of a challenger (routes/chat.ts:347-355) never happens.        *)
ServedAsPromised ==
  request.at = "answered" =>
    /\ request.code # "shadow_challenger_missing"
    /\ request.code = "ok" =>
         /\ request.body.prompt # Absent => request.prompt = request.body.prompt
         /\ request.body.prompt = Absent => NewestUserText(request.body.messages, request.prompt)
         /\ config.trigger = "manual" /\ ~request.header /\ ~request.body.props.arena
              => request.plan = "single"
         /\ request.plan \in {"single", "shadow"} => Named(request.A)
         /\ request.plan = "single" <=> request.B = NoModel
         /\ request.A # request.B

(* A deployment whose environment names one model of its own lineup ends   *)
(* up serving: no death in the middle of a migration or a seed, and no     *)
(* script run by hand beside it, keeps it from starting again.             *)
ServesAgain ==
  Boots(Range(Lineup["app"])) => <>[]At("app", "serving")
====
