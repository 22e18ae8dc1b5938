------------------------------ MODULE Session ------------------------------
(***************************************************************************)
(* One single-engine TSS protocol run of src/modules/tss/dispatcher.go: a  *)
(* KeyGenDispatcher or a SignDispatcher on top of BaseDispatcher.          *)
(*                                                                         *)
(* The units of execution and the state they share:                        *)
(*   caller         Start (identity resolution, 15 s settle delay), Done   *)
(*   pump           BaseDispatcher.handleMsgs: drains p2pMsg, fans out     *)
(*   engine start   the goroutine running party.Start()                    *)
(*   result         the goroutine reading `end`, persisting, signalling    *)
(*   timer          baseStart: after 1 minute timeout = true, signal       *)
(*   Done           the promise body: <-done, then pick the outcome        *)
(*   network        HandleP2P calls for inbound messages                   *)
(* The fields result, err, tssErr, timeout and the unbuffered `done`       *)
(* channel are shared between them without a lock.                         *)
(*                                                                         *)
(* The other participants are the environment: peer p sends its message    *)
(* for round r once it holds ours for round r-1, and stops sending from    *)
(* round stopsAt[p] on; a Faulty peer may also send one malformed message. *)
(***************************************************************************)
EXTENDS Naturals, Sequences, FiniteSets, TssParty

CONSTANTS
  Participants, \* accounts of the session (dispatcher.participants)
  Self,         \* this node's account (config HiveUsername)
  Faulty,       \* peers that may send a malformed message
  Strangers,    \* accounts outside the session that may address it
  Kinds,        \* dispatcher kinds: "keygen" (KeyGenDispatcher), "sign"
  Rounds,       \* rounds of the engine
  BcastRounds,  \* rounds whose message is a broadcast, the others directed
  NONE

ASSUME Self \in Participants
ASSUME Kinds # {} /\ Kinds \subseteq {"keygen", "sign"}
ASSUME Strangers \cap Participants = {}
ASSUME Rounds \in Nat \ {0} /\ BcastRounds \subseteq 1..Rounds

Others == Participants \ {Self}
ASSUME Faulty \subseteq Others

\* The keygen and signing engines: in every round each party needs the
\* message of every other party for that round and emits its own.
Schedule ==
  [r \in 1..Rounds |-> [need |-> Others \X {r},
                        emit |-> [round |-> r, bcast |-> r \in BcastRounds]]]

VARIABLES
  kind,       \* which dispatcher the session is: "keygen" or "sign"
  phase,      \* caller's view of Start: created, settling, running, failed, crashed
  keystore,   \* entry "key"|keyId|epoch: "absent" or "ok"
  party,      \* dispatcher.party (a TssParty record)
  engStart,   \* the party.Start() goroutine: none, pending, done
  outQ,       \* dispatcher.p2pMsg: messages emitted by the engine
  pump,       \* message being fanned out by handleMsgs and recipients left
  delivered,  \* delivered[p]: rounds of our messages that reached peer p
  wire,       \* inbound messages not yet handed to HandleP2P
  sent,       \* every inbound message ever sent (peers' history)
  stopsAt,    \* stopsAt[p]: first round peer p never sends
  err,        \* dispatcher.err /= nil
  tssErr,     \* dispatcher.tssErr: culprit of the last feed error, or NONE
  timeout,    \* dispatcher.timeout
  result,     \* dispatcher.result /= nil
  resPc,      \* result goroutine: none, wait, signal, exited
  timerPc,    \* baseStart goroutine: none, armed, signal, exited
  donePc,     \* Done promise body: idle, waiting, received, resolved
  outcome,    \* what Done resolved or rejected with, "none" before
  culprits    \* TimeoutResult.Culprits

vars == <<kind, phase, keystore, party, engStart, outQ, pump, delivered, wire, sent,
          stopsAt, err, tssErr, timeout, result, resPc, timerPc, donePc,
          outcome, culprits>>

Msg == [from : Participants \cup Strangers, round : 1..Rounds, ok : BOOLEAN]
OutMsg == [round : 1..Rounds, bcast : BOOLEAN]
Outcomes == {"none", "keygen", "sign", "timeout", "error", "rejected"}

TypeOK ==
  /\ kind \in Kinds
  /\ phase \in {"created", "settling", "running", "failed", "crashed"}
  /\ keystore \in {"absent", "ok"}
  /\ party.st \in PartyStates /\ party.round \in 1..Rounds
  /\ party.sched = Schedule
  /\ party.recv \subseteq Others \X (1..Rounds)
  /\ engStart \in {"none", "pending", "done"}
  /\ outQ \in Seq(OutMsg)
  /\ pump \in [msg : OutMsg \cup {NONE}, todo : SUBSET Others]
  /\ delivered \in [Others -> SUBSET (1..Rounds)]
  /\ wire \subseteq sent /\ sent \subseteq Msg
  /\ stopsAt \in [Others -> 1..Rounds + 1]
  /\ err \in BOOLEAN /\ timeout \in BOOLEAN /\ result \in BOOLEAN
  /\ tssErr \in Others \cup {NONE}
  /\ resPc \in {"none", "wait", "signal", "exited"}
  /\ timerPc \in {"none", "armed", "signal", "exited"}
  /\ donePc \in {"idle", "waiting", "received", "resolved"}
  /\ outcome \in Outcomes
  /\ culprits \subseteq Others

Init ==
  /\ kind \in Kinds
  /\ phase = "created"
  /\ keystore \in (IF kind = "keygen" THEN {"absent"} ELSE {"absent", "ok"})
  /\ party = NewParty(Schedule)
  /\ engStart = "none"
  /\ outQ = <<>>
  /\ pump = [msg |-> NONE, todo |-> {}]
  /\ delivered = [p \in Others |-> {}]
  /\ wire = {} /\ sent = {}
  /\ stopsAt \in [Others -> 1..Rounds + 1]
  /\ err = FALSE /\ tssErr = NONE /\ timeout = FALSE /\ result = FALSE
  /\ resPc = "none" /\ timerPc = "none" /\ donePc = "idle"
  /\ outcome = "none" /\ culprits = {}

\* The process is alive: a panic in any goroutine ends every unit.
Live == phase # "crashed"

-----------------------------------------------------------------------------
(* Caller: Start.                                                          *)

\* KeyGenDispatcher.Start up to the settle delay: threshold, baseInfo,
\* NewLocalParty, `go handleMsgs()`.
KeyGenStart ==
  /\ kind = "keygen" /\ phase = "created"
  /\ phase' = "settling"
  /\ party' = NewParty(Schedule)
  /\ UNCHANGED <<kind, keystore, engStart, outQ, pump, delivered, wire, sent, stopsAt,
                 err, tssErr, timeout, result, resPc, timerPc, donePc, outcome,
                 culprits>>

\* SignDispatcher.Start up to the settle delay: the key share is loaded
\* from the keystore before the party is built.
SignStart ==
  /\ kind = "sign" /\ phase = "created"
  /\ keystore = "ok"
  /\ phase' = "settling"
  /\ party' = NewParty(Schedule)
  /\ UNCHANGED <<kind, keystore, engStart, outQ, pump, delivered, wire, sent, stopsAt,
                 err, tssErr, timeout, result, resPc, timerPc, donePc, outcome,
                 culprits>>

\* keystore.Get fails: Start returns the error, nothing was started.
SignStartNoKey ==
  /\ kind = "sign" /\ phase = "created"
  /\ keystore = "absent"
  /\ phase' = "failed"
  /\ UNCHANGED <<kind, keystore, party, engStart, outQ, pump, delivered, wire, sent,
                 stopsAt, err, tssErr, timeout, result, resPc, timerPc, donePc,
                 outcome, culprits>>

\* Mutation: the engine and result goroutines are spawned and Start returns
\* nil, but baseStart() is never called, so no timer is armed.
StartSettleNoTimer ==
  /\ phase = "settling"
  /\ phase' = "running"
  /\ engStart' = "pending" /\ resPc' = "wait" /\ timerPc' = "none"
  /\ UNCHANGED <<kind, keystore, party, outQ, pump, delivered, wire, sent, stopsAt,
                 err, tssErr, timeout, result, donePc, outcome, culprits>>

\* After time.Sleep(15 s): spawn party.Start() and the result goroutine,
\* baseStart() arms the timer, Start returns nil.
StartSettle ==
  /\ phase = "settling"
  /\ phase' = "running"
  /\ engStart' = "pending" /\ resPc' = "wait" /\ timerPc' = "armed"
  /\ UNCHANGED <<kind, keystore, party, outQ, pump, delivered, wire, sent, stopsAt,
                 err, tssErr, timeout, result, donePc, outcome, culprits>>

\* The caller awaits Done() once Start returned nil.
CallDone ==
  /\ phase = "running" /\ donePc = "idle"
  /\ donePc' = "waiting"
  /\ UNCHANGED <<kind, phase, keystore, party, engStart, outQ, pump, delivered, wire,
                 sent, stopsAt, err, tssErr, timeout, result, resPc, timerPc,
                 outcome, culprits>>

-----------------------------------------------------------------------------
(* Engine start goroutine.                                                 *)

\* go party.Start(): the party enters round 1, emits, uses stored messages.
EngineStart ==
  /\ Live /\ engStart = "pending"
  /\ LET r == PartyStart(party) IN
       /\ party' = r[1]
       /\ outQ' = outQ \o r[2]
  /\ engStart' = "done"
  /\ UNCHANGED <<kind, phase, keystore, pump, delivered, wire, sent, stopsAt, err,
                 tssErr, timeout, result, resPc, timerPc, donePc, outcome,
                 culprits>>

-----------------------------------------------------------------------------
(* Pump: BaseDispatcher.handleMsgs.                                        *)

\* The recipients of an engine message: a broadcast goes to every
\* participant whose account is not ours, a directed message to msg.GetTo(),
\* which for these engines is every other party.
Recipients(m) == IF m.bcast THEN {p \in Participants : p # Self} ELSE Others

\* msg := <-dispatcher.p2pMsg
PumpTake ==
  /\ Live /\ phase \in {"settling", "running"}
  /\ pump.msg = NONE /\ outQ # <<>>
  /\ pump' = [msg |-> Head(outQ), todo |-> Recipients(Head(outQ))]
  /\ outQ' = Tail(outQ)
  /\ UNCHANGED <<kind, phase, keystore, party, engStart, delivered, wire, sent,
                 stopsAt, err, tssErr, timeout, result, resPc, timerPc, donePc,
                 outcome, culprits>>

\* After one SendMsg, the message is done once no recipient is left.
PumpAfter(p) ==
  IF pump.todo = {p} THEN [msg |-> NONE, todo |-> {}]
  ELSE [pump EXCEPT !.todo = @ \ {p}]

\* tssMgr.SendMsg(sessionId, p, ...) returns nil.
PumpSendOk(p) ==
  /\ Live /\ p \in pump.todo
  /\ delivered' = [delivered EXCEPT ![p] = @ \cup {pump.msg.round}]
  /\ pump' = PumpAfter(p)
  /\ UNCHANGED <<kind, phase, keystore, party, engStart, outQ, wire, sent, stopsAt,
                 err, tssErr, timeout, result, resPc, timerPc, donePc, outcome,
                 culprits>>

\* SendMsg fails: dispatcher.err = err, and the loop goes on.
PumpSendFail(p) ==
  /\ Live /\ p \in pump.todo
  /\ err' = TRUE
  /\ pump' = PumpAfter(p)
  /\ UNCHANGED <<kind, phase, keystore, party, engStart, outQ, delivered, wire, sent,
                 stopsAt, tssErr, timeout, result, resPc, timerPc, donePc,
                 outcome, culprits>>

-----------------------------------------------------------------------------
(* Network: the other participants and HandleP2P.                          *)

\* Peer p sends its round r message once it holds ours for round r - 1.
PeerSend(p, r) ==
  LET m == [from |-> p, round |-> r, ok |-> TRUE] IN
  /\ Live /\ r < stopsAt[p] /\ m \notin sent
  /\ r = 1 \/ r - 1 \in delivered[p]
  /\ sent' = sent \cup {m} /\ wire' = wire \cup {m}
  /\ UNCHANGED <<kind, phase, keystore, party, engStart, outQ, pump, delivered,
                 stopsAt, err, tssErr, timeout, result, resPc, timerPc, donePc,
                 outcome, culprits>>

\* A faulty peer sends bytes the engine rejects.
PeerSendBad(p) ==
  LET m == [from |-> p, round |-> 1, ok |-> FALSE] IN
  /\ Live /\ p \in Faulty /\ m \notin sent
  /\ sent' = sent \cup {m} /\ wire' = wire \cup {m}
  /\ UNCHANGED <<kind, phase, keystore, party, engStart, outQ, pump, delivered,
                 stopsAt, err, tssErr, timeout, result, resPc, timerPc, donePc,
                 outcome, culprits>>

\* The transport hands us our own message back, or an account outside the
\* session addresses it.
ForeignSend(a, r) ==
  LET m == [from |-> a, round |-> r, ok |-> TRUE] IN
  /\ Live /\ m \notin sent
  /\ \/ a = Self /\ \E p \in Others : r \in delivered[p]
     \/ a \in Strangers /\ r = 1
  /\ sent' = sent \cup {m} /\ wire' = wire \cup {m}
  /\ UNCHANGED <<kind, phase, keystore, party, engStart, outQ, pump, delivered,
                 stopsAt, err, tssErr, timeout, result, resPc, timerPc, donePc,
                 outcome, culprits>>

\* HandleP2P is called once the dispatcher has a party.
Receivable(m) == Live /\ phase \in {"settling", "running"} /\ m \in wire

\* `from` stays nil when no participant has the sender's Id, and
\* `from.Id` dereferences it: the handler panics.
HandleP2PUnknown(m) ==
  /\ Receivable(m) /\ m.from \notin Participants
  /\ phase' = "crashed" /\ wire' = wire \ {m}
  /\ UNCHANGED <<kind, keystore, party, engStart, outQ, pump, delivered, sent,
                 stopsAt, err, tssErr, timeout, result, resPc, timerPc, donePc,
                 outcome, culprits>>

\* "Filter out any messages to self".
HandleP2PSelf(m) ==
  /\ Receivable(m) /\ m.from = Self
  /\ wire' = wire \ {m}
  /\ UNCHANGED <<kind, phase, keystore, party, engStart, outQ, pump, delivered, sent,
                 stopsAt, err, tssErr, timeout, result, resPc, timerPc, donePc,
                 outcome, culprits>>

\* Mutation: the sender is not checked against the participants before the
\* bytes reach the engine.
HandleP2PFeedAnySender(m) ==
  /\ Receivable(m) /\ m.from # Self /\ m.ok
  /\ LET r == PartyUpdate(party, m.from, m.round) IN
       /\ party' = r[1]
       /\ outQ' = outQ \o r[2]
  /\ wire' = wire \ {m}
  /\ UNCHANGED <<kind, phase, keystore, engStart, pump, delivered, sent, stopsAt, err,
                 tssErr, timeout, result, resPc, timerPc, donePc, outcome,
                 culprits>>

\* party.UpdateFromBytes accepts the message; completed rounds are left and
\* their messages go to p2pMsg.
HandleP2PFeed(m) ==
  /\ Receivable(m) /\ m.from \in Others /\ m.ok
  /\ LET r == PartyUpdate(party, m.from, m.round) IN
       /\ party' = r[1]
       /\ outQ' = outQ \o r[2]
  /\ wire' = wire \ {m}
  /\ UNCHANGED <<kind, phase, keystore, engStart, pump, delivered, sent, stopsAt, err,
                 tssErr, timeout, result, resPc, timerPc, donePc, outcome,
                 culprits>>

\* UpdateFromBytes returns an error: dispatcher.tssErr = err (sticky).
HandleP2PFeedError(m) ==
  /\ Receivable(m) /\ m.from \in Others /\ ~m.ok
  /\ tssErr' = m.from
  /\ wire' = wire \ {m}
  /\ UNCHANGED <<kind, phase, keystore, party, engStart, outQ, pump, delivered, sent,
                 stopsAt, err, timeout, result, resPc, timerPc, donePc, outcome,
                 culprits>>

-----------------------------------------------------------------------------
(* Result goroutine, timer and Done.                                       *)

\* KeyGen: savedOutput := <-end; keyStore.Put(key|keyId|epoch); result = ...
KeyGenCollect ==
  /\ Live /\ kind = "keygen"
  /\ resPc = "wait" /\ party.st = "finished"
  /\ keystore' = "ok" /\ result' = TRUE /\ resPc' = "signal"
  /\ UNCHANGED <<kind, phase, party, engStart, outQ, pump, delivered, wire, sent,
                 stopsAt, err, tssErr, timeout, timerPc, donePc, outcome,
                 culprits>>

\* Sign: sigResult := <-end; result = KeySignResult{...}; nothing persisted.
SignCollect ==
  /\ Live /\ kind = "sign"
  /\ resPc = "wait" /\ party.st = "finished"
  /\ result' = TRUE /\ resPc' = "signal"
  /\ UNCHANGED <<kind, phase, keystore, party, engStart, outQ, pump, delivered, wire,
                 sent, stopsAt, err, tssErr, timeout, timerPc, donePc, outcome,
                 culprits>>

\* Mutation: baseStart sets the flag but never signals done.
TimerFireNoSignal ==
  /\ Live /\ timerPc = "armed" /\ engStart = "done"
  /\ timeout' = TRUE /\ timerPc' = "exited"
  /\ UNCHANGED <<kind, phase, keystore, party, engStart, outQ, pump, delivered, wire,
                 sent, stopsAt, err, tssErr, result, resPc, donePc, outcome,
                 culprits>>

\* baseStart: time.Sleep(1 minute); dispatcher.timeout = true.  The minute
\* is taken to outlast the start of the party.Start() goroutine.
TimerFire ==
  /\ Live /\ timerPc = "armed" /\ engStart = "done"
  /\ timeout' = TRUE /\ timerPc' = "signal"
  /\ UNCHANGED <<kind, phase, keystore, party, engStart, outQ, pump, delivered, wire,
                 sent, stopsAt, err, tssErr, result, resPc, donePc, outcome,
                 culprits>>

\* `dispatcher.done <- struct{}{}` of the result goroutine meets `<-done`.
DoneReceiveResult ==
  /\ Live /\ donePc = "waiting" /\ resPc = "signal"
  /\ donePc' = "received" /\ resPc' = "exited"
  /\ UNCHANGED <<kind, phase, keystore, party, engStart, outQ, pump, delivered, wire,
                 sent, stopsAt, err, tssErr, timeout, result, timerPc, outcome,
                 culprits>>

\* The timer's send meets `<-done`.
DoneReceiveTimeout ==
  /\ Live /\ donePc = "waiting" /\ timerPc = "signal"
  /\ donePc' = "received" /\ timerPc' = "exited"
  /\ UNCHANGED <<kind, phase, keystore, party, engStart, outQ, pump, delivered, wire,
                 sent, stopsAt, err, tssErr, timeout, result, resPc, outcome,
                 culprits>>

\* The four resolutions of Done, in the order the code tests the fields.
DoneResolveTimeout ==
  /\ Live /\ donePc = "received" /\ timeout
  /\ outcome' = "timeout" /\ culprits' = WaitingFor(party)
  /\ donePc' = "resolved"
  /\ UNCHANGED <<kind, phase, keystore, party, engStart, outQ, pump, delivered, wire,
                 sent, stopsAt, err, tssErr, timeout, result, resPc, timerPc>>

DoneResolveError ==
  /\ Live /\ donePc = "received" /\ ~timeout /\ tssErr # NONE
  /\ outcome' = "error" /\ donePc' = "resolved"
  /\ UNCHANGED <<kind, phase, keystore, party, engStart, outQ, pump, delivered, wire,
                 sent, stopsAt, err, tssErr, timeout, result, resPc, timerPc,
                 culprits>>

DoneReject ==
  /\ Live /\ donePc = "received" /\ ~timeout /\ tssErr = NONE /\ err
  /\ outcome' = "rejected" /\ donePc' = "resolved"
  /\ UNCHANGED <<kind, phase, keystore, party, engStart, outQ, pump, delivered, wire,
                 sent, stopsAt, err, tssErr, timeout, result, resPc, timerPc,
                 culprits>>

\* resolve(*dispatcher.result)
DoneResolveResult ==
  /\ Live /\ donePc = "received" /\ ~timeout /\ tssErr = NONE /\ ~err
  /\ outcome' = kind /\ donePc' = "resolved"
  /\ UNCHANGED <<kind, phase, keystore, party, engStart, outQ, pump, delivered, wire,
                 sent, stopsAt, err, tssErr, timeout, result, resPc, timerPc,
                 culprits>>

-----------------------------------------------------------------------------

Next ==
  \/ KeyGenStart \/ SignStart \/ SignStartNoKey \/ StartSettle \/ CallDone
  \/ EngineStart \/ PumpTake
  \/ \E p \in Others : PumpSendOk(p) \/ PumpSendFail(p)
  \/ \E p \in Others, r \in 1..Rounds : PeerSend(p, r)
  \/ \E p \in Others : PeerSendBad(p)
  \/ \E a \in {Self} \cup Strangers, r \in 1..Rounds : ForeignSend(a, r)
  \/ \E m \in wire : \/ HandleP2PUnknown(m) \/ HandleP2PSelf(m)
                     \/ HandleP2PFeed(m) \/ HandleP2PFeedError(m)
  \/ KeyGenCollect \/ SignCollect \/ TimerFire
  \/ DoneReceiveResult \/ DoneReceiveTimeout
  \/ DoneResolveTimeout \/ DoneResolveError \/ DoneReject \/ DoneResolveResult

\* Every goroutine of the dispatcher, and the caller, keeps running; the
\* other participants and the transport are not fair.
Fairness ==
  /\ WF_vars(KeyGenStart) /\ WF_vars(SignStart) /\ WF_vars(SignStartNoKey)
  /\ WF_vars(StartSettle) /\ WF_vars(CallDone) /\ WF_vars(EngineStart)
  /\ WF_vars(PumpTake)
  /\ WF_vars(\E p \in Others : PumpSendOk(p) \/ PumpSendFail(p))
  /\ WF_vars(KeyGenCollect) /\ WF_vars(SignCollect) /\ WF_vars(TimerFire)
  /\ WF_vars(DoneReceiveResult) /\ WF_vars(DoneReceiveTimeout)
  /\ WF_vars(DoneResolveTimeout) /\ WF_vars(DoneResolveError)
  /\ WF_vars(DoneReject) /\ WF_vars(DoneResolveResult)

Spec == Init /\ [][Next]_vars /\ Fairness

-----------------------------------------------------------------------------
(* Properties.                                                             *)

\* The caller's view of the session: Start has returned nil once the settle
\* delay is over, and the promise of Done holds `outcome`.
Promise == INSTANCE SessionPromise
             WITH Outcomes <- Outcomes \ {"none"}, NONE <- "none",
                  st <- CASE phase \in {"created", "settling"} -> "created"
                          [] phase = "running" -> "running"
                          [] phase = "failed" -> "failed"
                          [] phase = "crashed" -> "crashed",
                  out <- outcome

\* spec.md 8: "exactly one Outcome is produced, and Done never resolves
\* twice"; a running session settles.  The goroutines of Start, the pump,
\* HandleP2P, the result goroutine, the timer and Done together implement
\* SessionPromise.
ImplementsPromise == Promise!Spec

\* spec.md 5: the unit that first reaches a terminal condition decides the
\* outcome.  A keygen session whose result goroutine has persisted the new
\* key share settles as that KeyGenResult and not as a blame.
PersistedKeyMeansSuccess ==
  (kind = "keygen" /\ keystore = "ok" /\ outcome # "none") => outcome = "keygen"

\* spec.md 4.2: feed failures "do not crash the session": no HandleP2P
\* call makes the process panic.
NoPanic == phase # "crashed"

\* spec.md 7: a protocol feed error "surfaces as an ErrorResult only if no
\* success arrives before timeout".  Done never resolves the sticky tssErr
\* of HandleP2P when the result goroutine has produced its result.
FeedErrorOnlyWithoutSuccess == outcome = "error" => ~result

\* spec.md 7: callers receive a terminated session.  Each goroutine that
\* signals `done` (the result goroutine and the baseStart timer) eventually
\* gets past its send and exits.
DoneSendersReturn ==
  /\ resPc = "signal" ~> (resPc = "exited" \/ phase = "crashed")
  /\ timerPc = "signal" ~> (timerPc = "exited" \/ phase = "crashed")

=============================================================================
