----------------------------- MODULE MC_Reshare -----------------------------
(***************************************************************************)
(* A resharing session for TLC: this node "s" and "a" stay, "b" leaves,    *)
(* "c" joins; "x" is an outsider.  Accounts are one-byte strings, so their *)
(* keys are the byte values.                                               *)
(***************************************************************************)
EXTENDS Reshare

MCSelf == <<115>>
MCOld == {<<115>>, <<97>>, <<98>>}
MCNew == {<<115>>, <<97>>, <<99>>}
MCStrangers == {<<120>>}

\* The formula of tss_helpers.GetThreshold is outside this repository;
\* spec.md 8 gives GetThreshold(3) = 1.
MCGetThreshold(n) == (n - 1) \div 2
====
