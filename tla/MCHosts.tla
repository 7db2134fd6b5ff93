---- MODULE MCHosts ----
(***************************************************************************)
(* Two rounds are enough for a thread to be continued, left open or ended  *)
(* without a winner; two votes for a second one on the same round; two     *)
(* reloads for what the first one left in the storage.                     *)
(***************************************************************************)
EXTENDS Hosts
====
