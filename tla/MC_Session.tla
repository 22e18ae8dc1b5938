----------------------------- MODULE MC_Session -----------------------------
(***************************************************************************)
(* Model-checking instance of Session: this node and two peers, a two-round *)
(* engine whose first round is a broadcast and whose second is directed,   *)
(* one peer that may send a malformed message and one account outside the *)
(* session.                                                                 *)
(***************************************************************************)
EXTENDS Session

CONSTANTS s, p1, p2, x

MCParticipants == {s, p1, p2}
MCFaulty == {p2}
MCStrangers == {x}
MCRounds == 2
MCBcastRounds == {1}

=============================================================================
