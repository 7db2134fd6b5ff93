---- MODULE Hosts ----
(***************************************************************************)
(* The three chat hosts of src/integrations over one arena server.  An     *)
(* initial state chooses the host; the two AG-UI hosts and the Vercel host *)
(* share the names for what they both have (a run in progress, votes in    *)
(* flight, the bounds), and each leaves the other's state alone.           *)
(***************************************************************************)
EXTENDS AgUiHosts

VARIABLES enabled, continuation, voteStates, shown, stored, lookups

V == INSTANCE VercelHost

vercelOnly == <<enabled, continuation, voteStates, shown, stored, lookups>>
agUiOnly == <<thread, matchups, saved, load, cache, polls, told>>
allVars == <<vars, vercelOnly>>

HostsInit ==
  \/ /\ Init
     /\ enabled = TRUE /\ continuation = NoConv /\ voteStates = <<>>
     /\ shown = <<>> /\ stored = <<>> /\ lookups = {}
  \/ /\ host = "vercel"
     /\ V!Init
     /\ thread = NewThread /\ matchups = [m \in Rounds |-> Unknown] /\ saved = NothingSaved
     /\ load = NoLoad /\ cache = NoRound /\ polls = {} /\ begun = {} /\ lost = {}

HostsNext ==
  \/ /\ host # "vercel"
     /\ Next
     /\ UNCHANGED vercelOnly
  \/ /\ host = "vercel"
     /\ V!Next
     /\ UNCHANGED <<host, agUiOnly>>

HostsSpec == HostsInit /\ [][HostsNext]_allVars

-----------------------------------------------------------------------------
(* Every host shows as a round's verdict the vote the arena recorded: the  *)
(* AG-UI stores through lost replies and second votes, the Vercel host     *)
(* through a half-done vote route, its database and its lookups.           *)
VerdictIsRecorded ==
  IF host = "vercel" THEN V!VerdictIsRecorded ELSE ShownVoteIsRecorded

(* The Vercel host: the message after an indecisive round is not refused.  *)
FreshMessageAccepted == host = "vercel" => V!FreshMessageAccepted
====
