------------------------------- MODULE MCDelivery -------------------------------
(* A GitHub reply, a reply of a provider without a deliverer, and two
   overlapping sweeps. *)
EXTENDS Delivery

CONSTANTS github, teams, s1, s2

MCReplies == {github, teams}
MCSweeps == {s1, s2}
MCGitHub == {github}
MCUndeliverable == {teams}
=================================================================================
