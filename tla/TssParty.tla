------------------------------ MODULE TssParty ------------------------------
(***************************************************************************)
(* The MPC math engine (a tss-lib LocalParty) as the dispatcher sees it:   *)
(* an opaque state machine with Start, UpdateFromBytes, an outbound        *)
(* message stream and WaitingFor.  tss-lib is not part of this repository, *)
(* so this module is written from the contract of spec.md section 6 and    *)
(* the engine's round discipline:                                          *)
(*   - a party works through the rounds of a schedule; round r names the   *)
(*     messages it needs (<<sender id, kind>> pairs) and the message it    *)
(*     emits on entering the round, if any;                                *)
(*   - it stores every message it is given, also before Start and for      *)
(*     rounds it has not reached yet;                                      *)
(*   - it leaves a round once it holds every message the round needs, in   *)
(*     the Start or Update call that completed it;                         *)
(*   - after the last round it has an output (what it sends on `end`).     *)
(* A party is a record and the operators are pure, so a dispatcher module  *)
(* can own one party or two as parts of its state.                         *)
(***************************************************************************)
EXTENDS Naturals, Sequences

PartyStates == {"new", "running", "finished"}

\* The value of a schedule entry's `emit` when the round sends nothing.
NoEmit == [none |-> TRUE]

NewParty(sched) == [st |-> "new", round |-> 1, recv |-> {}, sched |-> sched]

\* The messages a party emits on entering its current round.
Emitted(p) ==
  IF p.sched[p.round].emit = NoEmit THEN <<>> ELSE <<p.sched[p.round].emit>>

\* tss-lib round.CanProceed: every message the round needs is held.
CanProceed(p) == p.sched[p.round].need \subseteq p.recv

(***************************************************************************)
(* Leave every completed round.  The result is the new party and the      *)
(* sequence of messages it emitted on the way.                            *)
(***************************************************************************)
RECURSIVE Proceed(_)
Proceed(p) ==
  IF p.st = "running" /\ CanProceed(p)
  THEN IF p.round = Len(p.sched)
       THEN <<[p EXCEPT !.st = "finished"], <<>>>>
       ELSE LET nxt  == [p EXCEPT !.round = @ + 1]
                rest == Proceed(nxt)
            IN  <<rest[1], Emitted(nxt) \o rest[2]>>
  ELSE <<p, <<>>>>

\* party.Start(): enter round 1, emit, use what was stored.
PartyStart(p) ==
  LET started == [p EXCEPT !.st = "running"]
      rest    == Proceed(started)
  IN  <<rest[1], Emitted(started) \o rest[2]>>

\* party.UpdateFromBytes for a well-formed message of kind k from `from`.
PartyUpdate(p, from, k) ==
  Proceed([p EXCEPT !.recv = @ \cup {<<from, k>>}])

\* party.WaitingFor(): the senders of the messages the current round still
\* misses.  A finished party waits for nobody.
WaitingFor(p) ==
  IF p.st = "finished" THEN {}
  ELSE {x[1] : x \in p.sched[p.round].need \ p.recv}

=============================================================================
