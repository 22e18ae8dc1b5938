------------------------------ MODULE Reshare ------------------------------
(***************************************************************************)
(* A resharing run of src/modules/tss/dispatcher.go (ReshareDispatcher):   *)
(* two engines in one session, the old-committee view `party` and the      *)
(* new-committee view `newParty`, share one outbound channel p2pMsg, one   *)
(* message pump (reshareMsgs), one `end` channel read by one result loop,  *)
(* the timer of baseStart and Done.                                        *)
(*                                                                         *)
(* The resharing engine is abstracted to the exchange the dispatcher       *)
(* routes: each old member's party sends a "share" to the new committee;   *)
(* each new member's party, once it holds every share, sends an "ack" to   *)
(* both committees; an old party finishes with every new member's ack, a   *)
(* new party with every other new member's ack.                            *)
(*                                                                         *)
(* This node is in both committees, so messages between its two parties    *)
(* go through the transport back to itself.  The other members are the     *)
(* environment; a `mute` member sends nothing.                             *)
(***************************************************************************)
EXTENDS Naturals, Sequences, FiniteSets, TssParty, PartyIds

CONSTANTS
  OldCommittee,    \* dispatcher.participants (accounts as byte strings)
  NewCommittee,    \* dispatcher.newParticipants
  Self,            \* config HiveUsername
  Strangers,       \* accounts outside both committees
  EpochIdx,        \* makeEpochIdx(newEpoch)
  GetThreshold(_), \* tss_helpers.GetThreshold
  MaxMute,         \* bound: most members that stay silent in one run
  NONE

ASSUME Self \in OldCommittee \cap NewCommittee
ASSUME Strangers \cap (OldCommittee \cup NewCommittee) = {}
ASSUME EpochIdx \in Nat

Peers == (OldCommittee \cup NewCommittee) \ {Self}

OldId(a) == <<"old", a>>
NewId(a) == <<"new", a>>
OldIds == {OldId(a) : a \in OldCommittee}
NewIds == {NewId(a) : a \in NewCommittee}

\* PartyID.Key of an identity.
KeyOf(id) == IF id[1] = "old" THEN OldKey(id[2]) ELSE NewKey(id[2], EpochIdx)

\* Mutation: the origin tag compares accounts instead of keys.
FromTagByAccount(id) ==
  IF id[2] \in NewCommittee THEN "new"
  ELSE IF id[2] \in OldCommittee THEN "old"
  ELSE ""

\* reshareMsgs' cmtFrom: "old" when the sender's key is an old party's key,
\* overwritten by "new" when it is a new party's key, "" otherwise.
FromTag(id) ==
  IF \E n \in NewCommittee : NewKey(n, EpochIdx) = KeyOf(id) THEN "new"
  ELSE IF \E o \in OldCommittee : OldKey(o) = KeyOf(id) THEN "old"
  ELSE ""

\* The origin tag of every identity (a constant, computed once).
Origin == [id \in OldIds \cup NewIds |-> FromTag(id)]

OldSchedule ==
  << [need |-> {<<id, "ack">> : id \in NewIds},
      emit |-> [kind |-> "share", to |-> "new", from |-> OldId(Self)]] >>

NewSchedule ==
  << [need |-> {<<id, "share">> : id \in OldIds}, emit |-> NoEmit],
     [need |-> {<<id, "ack">> : id \in NewIds \ {NewId(Self)}},
      emit |-> [kind |-> "ack", to |-> "both", from |-> NewId(Self)]] >>

Kinds == {"share", "ack"}
Tags == {"old", "new", "both"}
OutMsg == [kind : Kinds, to : Tags, from : OldIds \cup NewIds]
WireMsg == [from : OldCommittee \cup NewCommittee \cup Strangers, kind : Kinds,
            cmt : Tags, fromCmt : {"old", "new", ""}]

VARIABLES
  phase,       \* created, settling, running, failed
  keystore,    \* entries "key"|keyId|epoch and |newEpoch
  params,      \* thresholds given to NewReSharingParameters
  party,       \* old-committee view
  newParty,    \* new-committee view
  engStart,    \* the two party.Start() goroutines
  outQ,        \* dispatcher.p2pMsg
  pump,        \* message being fanned out by reshareMsgs, recipients left
  delivered,   \* delivered[p]: our messages that reached peer p
  wire,        \* inbound messages not yet handed to HandleP2P
  sent,        \* every inbound message ever sent
  handled,     \* every inbound message handed to HandleP2P
  mute,        \* members that never send
  err, tssErr, timeout, result,
  ended,       \* views whose output waits on `end`
  resPc,       \* result loop: wait, signal (blocked on done <-)
  timerPc, donePc, outcome, culprits

vars == <<phase, keystore, params, party, newParty, engStart, outQ, pump,
          delivered, wire, sent, handled, mute, err, tssErr, timeout, result,
          ended, resPc, timerPc, donePc, outcome, culprits>>

TypeOK ==
  /\ phase \in {"created", "settling", "running", "failed"}
  /\ keystore \in [old : {"absent", "ok"}, new : {"absent", "old", "new"}]
  /\ params \in [old : Nat, new : Nat] \cup {NONE}
  /\ party.st \in PartyStates /\ newParty.st \in PartyStates
  /\ engStart \in [{"old", "new"} -> {"none", "pending", "done"}]
  /\ outQ \in Seq(OutMsg)
  /\ pump \in [msg : OutMsg \cup {NONE}, todo : SUBSET (OldIds \cup NewIds)]
  /\ delivered \in [Peers -> SUBSET WireMsg]
  /\ wire \subseteq sent /\ sent \subseteq WireMsg /\ handled \subseteq sent
  /\ mute \subseteq Peers
  /\ err \in BOOLEAN /\ tssErr \in BOOLEAN /\ timeout \in BOOLEAN
  /\ result \in BOOLEAN /\ ended \subseteq {"old", "new"}
  /\ resPc \in {"none", "wait", "signal"}
  /\ timerPc \in {"none", "armed", "signal", "exited"}
  /\ donePc \in {"idle", "waiting", "received", "resolved"}
  /\ outcome \in {"none", "reshare", "timeout", "error", "rejected"}
  /\ culprits \subseteq OldCommittee \cup NewCommittee

Init ==
  /\ phase = "created"
  /\ keystore \in [old : {"absent", "ok"}, new : {"absent"}]
  /\ params = NONE
  /\ party = NewParty(OldSchedule) /\ newParty = NewParty(NewSchedule)
  /\ engStart = [v \in {"old", "new"} |-> "none"]
  /\ outQ = <<>> /\ pump = [msg |-> NONE, todo |-> {}]
  /\ delivered = [p \in Peers |-> {}]
  /\ wire = {} /\ sent = {} /\ handled = {}
  /\ mute \in {M \in SUBSET Peers : Cardinality(M) <= MaxMute}
  /\ err = FALSE /\ tssErr = FALSE /\ timeout = FALSE /\ result = FALSE
  /\ ended = {} /\ resPc = "none" /\ timerPc = "none" /\ donePc = "idle"
  /\ outcome = "none" /\ culprits = {}

-----------------------------------------------------------------------------
(* Caller: Start and Done.                                                 *)

\* keystore.Get("key"|keyId|epoch) fails: Start returns the error.
ReshareStartNoKey ==
  /\ phase = "created" /\ keystore.old = "absent"
  /\ phase' = "failed"
  /\ UNCHANGED <<keystore, params, party, newParty, engStart, outQ, pump,
                 delivered, wire, sent, handled, mute, err, tssErr, timeout,
                 result, ended, resPc, timerPc, donePc, outcome, culprits>>

\* Start up to the settle delay: new identities, thresholds, the saved
\* share, both parties, `go reshareMsgs()`.
ReshareStart ==
  /\ phase = "created" /\ keystore.old = "ok"
  /\ phase' = "settling"
  /\ params' = [old |-> GetThreshold(Cardinality(OldCommittee)) + 1,
                new |-> GetThreshold(Cardinality(NewCommittee))]
  /\ party' = NewParty(OldSchedule) /\ newParty' = NewParty(NewSchedule)
  /\ UNCHANGED <<keystore, engStart, outQ, pump, delivered, wire, sent,
                 handled, mute, err, tssErr, timeout, result, ended, resPc,
                 timerPc, donePc, outcome, culprits>>

\* Mutation: Start returns without baseStart().
StartSettleNoTimer ==
  /\ phase = "settling"
  /\ phase' = "running"
  /\ engStart' = [v \in {"old", "new"} |-> "pending"]
  /\ resPc' = "wait" /\ timerPc' = "none"
  /\ UNCHANGED <<keystore, params, party, newParty, outQ, pump, delivered,
                 wire, sent, handled, mute, err, tssErr, timeout, result, ended,
                 donePc, outcome, culprits>>

\* After the 15 s sleep: both party.Start() goroutines, the result loop,
\* baseStart(); Start returns nil.
StartSettle ==
  /\ phase = "settling"
  /\ phase' = "running"
  /\ engStart' = [v \in {"old", "new"} |-> "pending"]
  /\ resPc' = "wait" /\ timerPc' = "armed"
  /\ UNCHANGED <<keystore, params, party, newParty, outQ, pump, delivered,
                 wire, sent, handled, mute, err, tssErr, timeout, result, ended,
                 donePc, outcome, culprits>>

CallDone ==
  /\ phase = "running" /\ donePc = "idle"
  /\ donePc' = "waiting"
  /\ UNCHANGED <<phase, keystore, params, party, newParty, engStart, outQ,
                 pump, delivered, wire, sent, handled, mute, err, tssErr,
                 timeout, result, ended, resPc, timerPc, outcome, culprits>>

-----------------------------------------------------------------------------
(* Engines.  A party that finishes blocks on `end <- save` until the       *)
(* result loop takes its output.                                           *)

Finishing(old, new) == IF old.st # "finished" /\ new.st = "finished"
                       THEN {TRUE} ELSE {}

\* go dispatcher.party.Start()
EngineStartOld ==
  /\ engStart.old = "pending"
  /\ LET r == PartyStart(party) IN
       /\ party' = r[1] /\ outQ' = outQ \o r[2]
       /\ ended' = ended \cup {"old" : x \in Finishing(party, r[1])}
  /\ engStart' = [engStart EXCEPT !.old = "done"]
  /\ UNCHANGED <<phase, keystore, params, newParty, pump, delivered, wire, sent,
                 handled, mute, err, tssErr, timeout, result, resPc, timerPc,
                 donePc, outcome, culprits>>

\* go dispatcher.newParty.Start()
EngineStartNew ==
  /\ engStart.new = "pending"
  /\ LET r == PartyStart(newParty) IN
       /\ newParty' = r[1] /\ outQ' = outQ \o r[2]
       /\ ended' = ended \cup {"new" : x \in Finishing(newParty, r[1])}
  /\ engStart' = [engStart EXCEPT !.new = "done"]
  /\ UNCHANGED <<phase, keystore, params, party, pump, delivered, wire, sent,
                 handled, mute, err, tssErr, timeout, result, resPc, timerPc,
                 donePc, outcome, culprits>>

-----------------------------------------------------------------------------
(* Pump: reshareMsgs.                                                      *)

\* msg.GetTo(): the parties of the addressed committees but the sender.
ToIds(m) ==
  (CASE m.to = "new" -> NewIds [] m.to = "old" -> OldIds
     [] m.to = "both" -> OldIds \cup NewIds) \ {m.from}

\* What the receiver's HandleP2P gets: sender account, committee tag
\* (IsToOldAndNewCommittees / IsToOldCommittee) and origin tag.
OnWire(m) == [from |-> m.from[2], kind |-> m.kind, cmt |-> m.to,
              fromCmt |-> Origin[m.from]]

PumpTake ==
  /\ phase \in {"settling", "running"}
  /\ pump.msg = NONE /\ outQ # <<>>
  /\ pump' = [msg |-> Head(outQ), todo |-> ToIds(Head(outQ))]
  /\ outQ' = Tail(outQ)
  /\ UNCHANGED <<phase, keystore, params, party, newParty, engStart, delivered,
                 wire, sent, handled, mute, err, tssErr, timeout, result, ended,
                 resPc, timerPc, donePc, outcome, culprits>>

PumpAfter(id) ==
  IF pump.todo = {id} THEN [msg |-> NONE, todo |-> {}]
  ELSE [pump EXCEPT !.todo = @ \ {id}]

\* SendMsg to the account of `to` succeeds, to another member.
PumpSendOk(id) ==
  /\ id \in pump.todo /\ id[2] # Self
  /\ delivered' = [delivered EXCEPT ![id[2]] = @ \cup {OnWire(pump.msg)}]
  /\ pump' = PumpAfter(id)
  /\ UNCHANGED <<phase, keystore, params, party, newParty, engStart, outQ,
                 wire, sent, handled, mute, err, tssErr, timeout, result, ended,
                 resPc, timerPc, donePc, outcome, culprits>>

\* SendMsg to this node's own account: the message comes back as input.
PumpLoopback(id) ==
  /\ id \in pump.todo /\ id[2] = Self
  /\ wire' = wire \cup {OnWire(pump.msg)}
  /\ sent' = sent \cup {OnWire(pump.msg)}
  /\ pump' = PumpAfter(id)
  /\ UNCHANGED <<phase, keystore, params, party, newParty, engStart, outQ,
                 delivered, handled, mute, err, tssErr, timeout, result, ended,
                 resPc, timerPc, donePc, outcome, culprits>>

\* SendMsg fails: dispatcher.err = err, the loop goes on.
PumpSendFail(id) ==
  /\ id \in pump.todo
  /\ err' = TRUE
  /\ pump' = PumpAfter(id)
  /\ UNCHANGED <<phase, keystore, params, party, newParty, engStart, outQ,
                 delivered, wire, sent, handled, mute, tssErr, timeout, result,
                 ended, resPc, timerPc, donePc, outcome, culprits>>


-----------------------------------------------------------------------------
(* The other members.  An old member's party sends its share to the new    *)
(* committee; a new member acks to both committees once it holds every     *)
(* share, ours (which it got from our pump) included.  What they put on    *)
(* the wire carries the tags their own reshareMsgs computes.               *)

PeerMsg(q, k, to, id) ==
  [from |-> q, kind |-> k, cmt |-> to, fromCmt |-> Origin[id]]

PeerShare(q) ==
  /\ phase \in {"settling", "running"}
  /\ q \in OldCommittee \ {Self} /\ q \notin mute
  /\ LET m == PeerMsg(q, "share", "new", OldId(q)) IN
       /\ m \notin sent
       /\ wire' = wire \cup {m} /\ sent' = sent \cup {m}
  /\ UNCHANGED <<phase, keystore, params, party, newParty, engStart, outQ, pump,
                 delivered, handled, mute, err, tssErr, timeout, result, ended,
                 resPc, timerPc, donePc, outcome, culprits>>

\* q holds every old member's share: ours reached it, no old member is mute,
\* and every share is attributed to the old committee by its origin tag.
PeerHoldsShares(q) ==
  /\ \E m \in delivered[q] : m.kind = "share" /\ m.fromCmt = "old"
  /\ (OldCommittee \ {Self}) \cap mute = {}
  /\ \A o \in OldCommittee : Origin[OldId(o)] = "old"

PeerAck(q) ==
  /\ phase \in {"settling", "running"}
  /\ q \in NewCommittee \ {Self} /\ q \notin mute
  /\ PeerHoldsShares(q)
  /\ LET m == PeerMsg(q, "ack", "both", NewId(q)) IN
       /\ m \notin sent
       /\ wire' = wire \cup {m} /\ sent' = sent \cup {m}
  /\ UNCHANGED <<phase, keystore, params, party, newParty, engStart, outQ, pump,
                 delivered, handled, mute, err, tssErr, timeout, result, ended,
                 resPc, timerPc, donePc, outcome, culprits>>

\* An account outside both committees addresses this session.
StrangerSend(x) ==
  /\ phase \in {"settling", "running"}
  /\ LET m == [from |-> x, kind |-> "share", cmt |-> "new", fromCmt |-> "old"] IN
       /\ m \notin sent
       /\ wire' = wire \cup {m} /\ sent' = sent \cup {m}
  /\ UNCHANGED <<phase, keystore, params, party, newParty, engStart, outQ, pump,
                 delivered, handled, mute, err, tssErr, timeout, result, ended,
                 resPc, timerPc, donePc, outcome, culprits>>

-----------------------------------------------------------------------------
(* ReshareDispatcher.HandleP2P.                                            *)

\* `from`: looked up by account among the old parties when fromCmt = "old",
\* among the new parties when fromCmt = "new"; nil otherwise.
Sender(m) ==
  CASE m.fromCmt = "old" /\ m.from \in OldCommittee -> OldId(m.from)
    [] m.fromCmt = "new" /\ m.from \in NewCommittee -> NewId(m.from)
    [] OTHER -> NONE

\* The views a committee tag routes a message to.
Views(m) == (IF m.cmt \in {"both", "old"} THEN {"old"} ELSE {})
              \cup (IF m.cmt \in {"both", "new"} THEN {"new"} ELSE {})

\* The views the update finished that had not finished before.
NewlyEnded(r1, r2) ==
  {v \in {"old", "new"} :
     (v = "old" /\ party.st # "finished" /\ r1[1].st = "finished")
     \/ (v = "new" /\ newParty.st # "finished" /\ r2[1].st = "finished")}

HandleP2PFeed(m) ==
  /\ m \in wire /\ Sender(m) # NONE
  /\ LET r1 == IF "old" \in Views(m) THEN PartyUpdate(party, Sender(m), m.kind)
               ELSE <<party, <<>>>>
         r2 == IF "new" \in Views(m) THEN PartyUpdate(newParty, Sender(m), m.kind)
               ELSE <<newParty, <<>>>>
     IN  /\ party' = r1[1] /\ newParty' = r2[1]
         /\ outQ' = outQ \o r1[2] \o r2[2]
         /\ ended' = ended \cup NewlyEnded(r1, r2)
  /\ wire' = wire \ {m} /\ handled' = handled \cup {m}
  /\ UNCHANGED <<phase, keystore, params, engStart, pump, delivered, sent, mute,
                 err, tssErr, timeout, result, resPc, timerPc, donePc, outcome,
                 culprits>>

\* UpdateFromBytes with a nil sender (no member of the tagged committee has
\* the account): assumed to return an error, so dispatcher.tssErr = err.
\* What tss-lib really does with a nil PartyID is outside the repository.
HandleP2PNoSender(m) ==
  /\ m \in wire /\ Sender(m) = NONE
  /\ tssErr' = TRUE
  /\ wire' = wire \ {m} /\ handled' = handled \cup {m}
  /\ UNCHANGED <<phase, keystore, params, party, newParty, engStart, outQ, pump,
                 delivered, sent, mute, err, timeout, result, ended, resPc,
                 timerPc, donePc, outcome, culprits>>

-----------------------------------------------------------------------------
(* The result loop: for { out := <-end; if out has a public key { Put      *)
(* under newEpoch; result = ...; done <- } }.                              *)

\* An assumption about tss-lib (outside the repository): the resharing
\* party of the old committee ends with a save that has no public key, and
\* the new committee's party ends with the new share.  Line 160 persists any
\* output that has a key, so an old-view output with one would be stored
\* under the new epoch; the model does not reach that case.
HasPub(v) == v = "new"

ReshareCollectKey(v) ==
  /\ resPc = "wait" /\ v \in ended /\ HasPub(v)
  /\ ended' = ended \ {v}
  /\ keystore' = [keystore EXCEPT !.new = v]
  /\ result' = TRUE /\ resPc' = "signal"
  /\ UNCHANGED <<phase, params, party, newParty, engStart, outQ, pump, delivered,
                 wire, sent, handled, mute, err, tssErr, timeout, timerPc,
                 donePc, outcome, culprits>>

ReshareCollectSkip(v) ==
  /\ resPc = "wait" /\ v \in ended /\ ~HasPub(v)
  /\ ended' = ended \ {v}
  /\ UNCHANGED <<phase, keystore, params, party, newParty, engStart, outQ, pump,
                 delivered, wire, sent, handled, mute, err, tssErr, timeout,
                 result, resPc, timerPc, donePc, outcome, culprits>>

\* Done's <-done takes the loop's signal; the loop goes round again.
DoneReceiveResult ==
  /\ donePc = "waiting" /\ resPc = "signal"
  /\ donePc' = "received" /\ resPc' = "wait"
  /\ UNCHANGED <<phase, keystore, params, party, newParty, engStart, outQ, pump,
                 delivered, wire, sent, handled, mute, err, tssErr, timeout,
                 result, ended, timerPc, outcome, culprits>>

\* baseStart: the minute is up.  Both engines have long been started.
TimerFire ==
  /\ timerPc = "armed" /\ engStart = [v \in {"old", "new"} |-> "done"]
  /\ timeout' = TRUE /\ timerPc' = "signal"
  /\ UNCHANGED <<phase, keystore, params, party, newParty, engStart, outQ, pump,
                 delivered, wire, sent, handled, mute, err, tssErr, result,
                 ended, resPc, donePc, outcome, culprits>>

DoneReceiveTimeout ==
  /\ donePc = "waiting" /\ timerPc = "signal"
  /\ donePc' = "received" /\ timerPc' = "exited"
  /\ UNCHANGED <<phase, keystore, params, party, newParty, engStart, outQ, pump,
                 delivered, wire, sent, handled, mute, err, tssErr, timeout,
                 result, ended, resPc, outcome, culprits>>

-----------------------------------------------------------------------------
(* Done after <-done: timeout, then tssErr, then err, then the result.     *)

\* The parties both views' WaitingFor() return.
Waiting == WaitingFor(party) \cup WaitingFor(newParty)

\* Mutation: culprits are taken as string(p.Key), as KeyGenDispatcher.Done
\* does, instead of p.Id.
DoneResolveTimeoutByKey ==
  /\ donePc = "received" /\ timeout
  /\ culprits' = {KeyBytes(KeyOf(id)) : id \in Waiting}
  /\ outcome' = "timeout" /\ donePc' = "resolved"
  /\ UNCHANGED <<phase, keystore, params, party, newParty, engStart, outQ, pump,
                 delivered, wire, sent, handled, mute, err, tssErr, timeout,
                 result, ended, resPc, timerPc>>

\* TimeoutResult.Culprits: the Ids of both views' WaitingFor().
DoneResolveTimeout ==
  /\ donePc = "received" /\ timeout
  /\ culprits' = {id[2] : id \in Waiting}
  /\ outcome' = "timeout" /\ donePc' = "resolved"
  /\ UNCHANGED <<phase, keystore, params, party, newParty, engStart, outQ, pump,
                 delivered, wire, sent, handled, mute, err, tssErr, timeout,
                 result, ended, resPc, timerPc>>

DoneResolveError ==
  /\ donePc = "received" /\ ~timeout /\ tssErr
  /\ outcome' = "error" /\ donePc' = "resolved"
  /\ UNCHANGED <<phase, keystore, params, party, newParty, engStart, outQ, pump,
                 delivered, wire, sent, handled, mute, err, tssErr, timeout,
                 result, ended, resPc, timerPc, culprits>>

DoneReject ==
  /\ donePc = "received" /\ ~timeout /\ ~tssErr /\ err
  /\ outcome' = "rejected" /\ donePc' = "resolved"
  /\ UNCHANGED <<phase, keystore, params, party, newParty, engStart, outQ, pump,
                 delivered, wire, sent, handled, mute, err, tssErr, timeout,
                 result, ended, resPc, timerPc, culprits>>

DoneResolveResult ==
  /\ donePc = "received" /\ ~timeout /\ ~tssErr /\ ~err
  /\ outcome' = "reshare" /\ donePc' = "resolved"
  /\ UNCHANGED <<phase, keystore, params, party, newParty, engStart, outQ, pump,
                 delivered, wire, sent, handled, mute, err, tssErr, timeout,
                 result, ended, resPc, timerPc, culprits>>

-----------------------------------------------------------------------------
Next ==
  \/ ReshareStartNoKey \/ ReshareStart \/ StartSettle \/ CallDone
  \/ EngineStartOld \/ EngineStartNew
  \/ PumpTake
  \/ \E id \in OldIds \cup NewIds :
       PumpSendOk(id) \/ PumpLoopback(id) \/ PumpSendFail(id)
  \/ \E q \in Peers : PeerShare(q) \/ PeerAck(q)
  \/ \E x \in Strangers : StrangerSend(x)
  \/ \E m \in wire : HandleP2PFeed(m) \/ HandleP2PNoSender(m)
  \/ \E v \in {"old", "new"} : ReshareCollectKey(v) \/ ReshareCollectSkip(v)
  \/ DoneReceiveResult \/ TimerFire \/ DoneReceiveTimeout
  \/ DoneResolveTimeout \/ DoneResolveError \/ DoneReject \/ DoneResolveResult

(***************************************************************************)
(* Every goroutine of the node is fairly scheduled; the transport delivers *)
(* what reaches the node (HandleP2P is called for it) and a send returns,  *)
(* with success or an error.  The other members are not: they may never    *)
(* send.                                                                   *)
(***************************************************************************)
Fairness ==
  /\ WF_vars(ReshareStart) /\ WF_vars(ReshareStartNoKey)
  /\ WF_vars(StartSettle) /\ WF_vars(CallDone)
  /\ WF_vars(EngineStartOld) /\ WF_vars(EngineStartNew)
  /\ WF_vars(PumpTake)
  /\ \A id \in OldIds \cup NewIds :
       WF_vars(PumpSendOk(id) \/ PumpLoopback(id) \/ PumpSendFail(id))
  /\ \A v \in {"old", "new"} :
       WF_vars(ReshareCollectKey(v) \/ ReshareCollectSkip(v))
  /\ WF_vars(DoneReceiveResult) /\ WF_vars(TimerFire)
  /\ WF_vars(DoneReceiveTimeout)
  /\ WF_vars(DoneResolveTimeout) /\ WF_vars(DoneResolveError)
  /\ WF_vars(DoneReject) /\ WF_vars(DoneResolveResult)

Spec == Init /\ [][Next]_vars /\ Fairness

-----------------------------------------------------------------------------
(* Properties.                                                             *)

\* Identity id still owes this node a message: the old party of an account
\* its share, the new party of an account its ack, and HandleP2P has not
\* been given it from that account.
OwesMessage(id) ==
  LET k == IF id[1] = "old" THEN "share" ELSE "ack"
  IN  ~\E m \in handled : m.from = id[2] /\ m.kind = k

(***************************************************************************)
(* Blame is sound: when Done resolves a TimeoutResult, every party whose   *)
(* message a view still waits for, and whose account is named a culprit,  *)
(* owes this node that message.  It depends on reshareMsgs' origin tag and *)
(* HandleP2P's sender lookup attributing each share and ack to the party   *)
(* that sent it.                                                           *)
(***************************************************************************)
BlameSound ==
  [][outcome' = "timeout" /\ outcome = "none"
       => \A id \in Waiting : OwesMessage(id)]_vars

\* The caller's view of the session: Start has returned nil once the settle
\* delay is over, and the promise of Done holds `outcome`.
Promise == INSTANCE SessionPromise
             WITH Outcomes <- {"reshare", "timeout", "error", "rejected"},
                  NONE <- "none",
                  st <- IF phase = "settling" THEN "created" ELSE phase,
                  out <- outcome

(***************************************************************************)
(* spec.md 8: exactly one outcome per session, and Done never resolves     *)
(* twice; every started session settles whatever the other members do,     *)
(* through the result loop or the baseStart timer racing on the unbuffered *)
(* done channel.  ReshareDispatcher implements SessionPromise.             *)
(***************************************************************************)
ImplementsPromise == Promise!Spec

(***************************************************************************)
(* spec.md 4.1 and 8: the engine-facing threshold of every committee, old  *)
(* and new, is GetThreshold(n) + 1 (ReshareDispatcher.Start).              *)
(***************************************************************************)
ThresholdRule ==
  params # NONE =>
    /\ params.old = GetThreshold(Cardinality(OldCommittee)) + 1
    /\ params.new = GetThreshold(Cardinality(NewCommittee)) + 1

(***************************************************************************)
(* spec.md 8: a message whose sender is the receiving party itself is      *)
(* never fed to the engine (ReshareDispatcher.HandleP2P has no self        *)
(* filter; reshareMsgs sends the "both" ack to this node's own account).   *)
(***************************************************************************)
SelfNeverFed ==
  /\ \A x \in party.recv : x[1] # OldId(Self)
  /\ \A x \in newParty.recv : x[1] # NewId(Self)

=============================================================================
