---- MODULE MCDeployment ----
(***************************************************************************)
(* Three migrations, the second known under an older name; two lineups of  *)
(* two models, one slug in both and one model whose display name is the    *)
(* slug of another; two runs of the scripts by hand, two deaths.           *)
(***************************************************************************)
EXTENDS Deployment

MCFiles == <<"001_initial", "002_conversations", "003_ratings">>
MCRenames == ("002_phase_one" :> "002_conversations")
MCOldLog == {"001_initial", "002_phase_one"}

Model(id, key, slug, name) == [id |-> id, key |-> key, slug |-> slug, name |-> name]
Lite  == Model("u1", "google:lite", "lite", "flash")
Flash == Model("u2", "google:flash", "flash", "Flash")
Alpha == Model("u3", "mock:alpha", "alpha", "Alpha")
Other == Model("u4", "mock:flash", "flash", "Beta")
MCLineup == [app |-> <<Lite, Flash>>, operator |-> <<Alpha, Other>>]

Config(trigger, exposure, name, rate, matchmaker) ==
  [trigger |-> trigger, exposure |-> exposure, default |-> name, rate |-> rate,
   matchmaker |-> matchmaker]
MCConfigs ==
  {Config("always", "blind", Absent, "none", "smart"),
   Config("always", "shadow", "flash", "none", "random"),
   Config("manual", "blind", "google:lite", "none", "random"),
   Config("sampled", "shadow", "Flash", "some", "smart"),
   Config("manual", "shadow", Absent, "none", "random"),
   Config("sampled", "blind", "Flash", "all", "random"),
   Config("sampled", "blind", "nothing", "all", "smart")}

User(text) == [role |-> "user", text |-> text]
Assistant == [role |-> "assistant", text |-> "hello"]
Props(session, arena, joinKey) == [session |-> session, arena |-> arena, joinKey |-> joinKey]
Body(prompt, messages, where, props, user, stream) ==
  [prompt |-> prompt, messages |-> messages, where |-> where, props |-> props, user |-> user,
   stream |-> stream]
MCBodies ==
  {Body("hi", <<>>, "top", Props("s", TRUE, Absent), Absent, TRUE),
   Body("hi", <<User("old")>>, "top", Props(Absent, FALSE, "k"), Absent, TRUE),
   Body(Absent, <<User("old"), Assistant, User("hi")>>, "omni_arena",
        Props(Absent, TRUE, "k"), "s", TRUE),
   Body(Absent, <<User("hi"), Assistant>>, "forwardedProps", Props("s", TRUE, Absent), Absent, FALSE),
   Body(Absent, <<User("old"), Assistant, User(Blank)>>, "top", NoProps, Absent, TRUE)}

MCGames == [pair \in {{a, b} : a, b \in {"u1", "u2", "u3", "u4"}} |-> IF "u1" \in pair THEN 3 ELSE 0]
====
