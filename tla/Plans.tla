---- MODULE Plans ----
(***************************************************************************)
(* How a request becomes a round: what the body of each protocol asks for  *)
(* (adapters/request-adapter.ts and the adapters' request halves), which   *)
(* plan the deployment's trigger and exposure give it (arena/mode.ts), and *)
(* which pair a matchmaker draws.                                          *)
(*                                                                         *)
(* A body is [prompt, messages, where, props, user, stream]: props are the *)
(* arena's own fields and where is the place the client put them.  A model *)
(* is [id, key, slug, name], the four ways an operator may name it.        *)
(***************************************************************************)
EXTENDS Naturals, FiniteSets, Sequences, SequencesExt

Absent == "absent"
Blank == ""
NoProps == [session |-> Absent, arena |-> FALSE, joinKey |-> Absent]
NoModel == [id |-> Absent, key |-> Absent, slug |-> Absent, name |-> Absent]

Models == [id : STRING, key : STRING, slug : STRING, name : STRING]
Messages == [role : STRING, text : STRING]
RequestBodies ==
  [prompt : STRING, messages : Seq(Messages), where : STRING, user : STRING, stream : BOOLEAN,
   props : [session : STRING, arena : BOOLEAN, joinKey : STRING]]

-----------------------------------------------------------------------------
(* Requests.                                                               *)

\* An empty array of messages is refused as an envelope and as none.
IsProtocolEnvelope(body) == body.messages # <<>> /\ body.prompt = Absent

\* The protocols with a request half, and where each looks for the arena's fields.
PropsPlace == [agui |-> "forwardedProps", vercel |-> "top", openai |-> "omni_arena"]

Refused(code)    == [ok |-> FALSE, code |-> code]
Accepted(p, props) == [ok |-> TRUE, prompt |-> p, props |-> props]

\* Only the newest user message counts: if it has no text there is no prompt.
LastUserPrompt(messages) ==
  LET said == {i \in DOMAIN messages : messages[i].role = "user"}
      newest == messages[CHOOSE i \in said : \A j \in said : j <= i]
  IN IF said = {} \/ newest.text = Blank THEN Absent ELSE newest.text

ToArenaChatRequest(prompt, props) ==
  IF prompt \in {Absent, Blank} THEN Refused("invalid_request") ELSE Accepted(prompt, props)

PropsAt(place, body) == IF body.where = place THEN body.props ELSE NoProps

OpenAiProps(body) ==
  LET extension == PropsAt("omni_arena", body)
  IN IF extension.session = Absent THEN [extension EXCEPT !.session = body.user] ELSE extension

ParseEnvelope(body, protocol) ==
  IF protocol = "openai" /\ body.stream = FALSE THEN Refused("invalid_request")
  ELSE ToArenaChatRequest(LastUserPrompt(body.messages),
         IF protocol = "openai" THEN OpenAiProps(body)
         ELSE PropsAt(PropsPlace[protocol], body))

ParseChatRequest(body, protocol) ==
  IF protocol \in DOMAIN PropsPlace /\ IsProtocolEnvelope(body)
  THEN ParseEnvelope(body, protocol)
  ELSE ToArenaChatRequest(body.prompt, PropsAt("top", body))

-----------------------------------------------------------------------------
(* The mode: a configuration is [trigger, exposure, default, rate], its    *)
(* default the operator's identifier or Absent, its rate how rng() < rate  *)
(* may come out.                                                           *)

EngagedPlan(exposure) == IF exposure = "shadow" THEN "shadow" ELSE "matchup"

ResolveArenaPlan(config, optedIn, hit) ==
  LET engaged == CASE config.trigger = "manual"  -> optedIn
                   [] config.trigger = "sampled" -> hit
                   [] OTHER                      -> TRUE
  IN IF engaged THEN EngagedPlan(config.exposure) ELSE "single"

Hits(config) ==
  CASE config.rate = "none" -> {FALSE} [] config.rate = "all" -> {TRUE} [] OTHER -> BOOLEAN

AssertArenaModeConfig(config) ==
  (config.trigger # "always" \/ config.exposure = "shadow") => config.default # Absent

\* The most specific kind of name that matches anything must match one model.
FindDefaultModel(needle, models) ==
  LET Matches(kind) == {m \in models : m[kind] = needle}
      Else(found, other) == IF found # {} THEN found ELSE other
      found == Else(Matches("id"), Else(Matches("key"), Else(Matches("slug"), Matches("name"))))
  IN IF Cardinality(found) = 1 THEN CHOOSE m \in found : TRUE ELSE NoModel

-----------------------------------------------------------------------------
(* Matchmaking.  An assignment is the pair as drawn, and as slots.         *)

\* swapSlots turns the pair around, or not.
Assignments(a, b) ==
  {[modelA |-> a, modelB |-> b, slotA |-> a, slotB |-> b],
   [modelA |-> a, modelB |-> b, slotA |-> b, slotB |-> a]}

\* Two indexes, the second drawn from one fewer and moved past the first.
RandomPick(models) ==
  UNION {LET second == IF j >= i THEN j + 1 ELSE j
         IN Assignments(models[i], models[second]) :
           i \in DOMAIN models, j \in 1 .. Len(models) - 1}

\* The pairs of indexes, and which of two the nested loops meet first.
Pairs(models) == {p \in (DOMAIN models) \X (DOMAIN models) : p[1] < p[2]}
UpTo(p, q) == p[1] < q[1] \/ (p[1] = q[1] /\ p[2] <= q[2])

\* sample: the first pair up to which the scores pass the threshold, or none.
Sampled(score, threshold) ==
  LET pairs == DOMAIN score
      past == {p \in pairs : SumFunctionOnSet(score, {q \in pairs : UpTo(q, p)}) > threshold}
  IN {p \in past : \A q \in past : UpTo(p, q)}

\* Scores in whole units: a floor, coldness, and uncertainty twice that of a rated
\* model.  Where rounding lets no pair pass, the last one is taken.
SmartPick(models, games, rated) ==
  LET Width(m) == IF m.id \in rated THEN 1 ELSE 2
      Score(a, b) == 1 + 4 \div (1 + games[{a.id, b.id}]) + Width(a) + Width(b)
      score == [p \in Pairs(models) |-> Score(models[p[1]], models[p[2]])]
      last == <<Len(models) - 1, Len(models)>>
  IN UNION {Assignments(models[p[1]], models[p[2]]) :
              p \in {last} \cup UNION {Sampled(score, threshold) :
                                       threshold \in 0 .. SumFunction(score)}}

\* Whichever of the pair is not the incumbent.
Challenger_ModelB(assignment, incumbent) == assignment.modelB

Challenger(assignment, incumbent) ==
  IF assignment.modelA # incumbent THEN assignment.modelA
  ELSE IF assignment.modelB # incumbent THEN assignment.modelB ELSE NoModel
====
