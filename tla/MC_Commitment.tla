---------------------------- MODULE MC_Commitment ----------------------------
(* Accounts as model values: "b" leaves and "c" joins at the new epoch. *)
EXTENDS Commitment

CONSTANTS a, b, c, s

MCParticipants == {a, b, s}
MCNewParticipants == {a, c, s}
====
