----------------------------- MODULE Commitment -----------------------------
(***************************************************************************)
(* What Done resolves and how it is projected for the chain: the result    *)
(* values each dispatcher's Done builds (KeyGenResult, KeySignResult,      *)
(* ReshareResult, TimeoutResult, ErrorResult, dispatcher.go) and their     *)
(* Serialize() into a tss_helpers.BaseCommitment.                          *)
(*                                                                         *)
(* A result is a record of every field a result struct can have; a field  *)
(* the constructor leaves out keeps Go's zero value ("" or 0).             *)
(* setToCommitment, a TssManager method outside this repository, is the   *)
(* opaque digest SetToCommitment of an account set and an epoch.           *)
(***************************************************************************)
EXTENDS Naturals, FiniteSets

CONSTANTS
  Participants,    \* dispatcher.participants (accounts)
  NewParticipants, \* ReshareDispatcher.newParticipants
  SessionId, KeyId,
  Epoch,           \* dispatcher.epoch
  NewEpoch,        \* ReshareDispatcher.newEpoch
  BlockHeight,     \* dispatcher.blockHeight
  NONE

ASSUME SessionId # "" /\ KeyId # ""
ASSUME {Epoch, NewEpoch, BlockHeight} \subseteq Nat \ {0}

Kinds == {"keygen", "sign", "reshare"}

\* tssMgr.setToCommitment(participants, epoch)
SetToCommitment(accts, epoch) == [accounts |-> accts, epoch |-> epoch]

\* A result struct; culprits and tssErr (its Culprits(), or NONE) are used
\* by the blame results only.
Result(rtype, pub, sid, kid, height, epoch, commit, culprits, tssErr) ==
  [rtype |-> rtype, PublicKey |-> pub, SessionId |-> sid, KeyId |-> kid,
   BlockHeight |-> height, Epoch |-> epoch, Commitment |-> commit,
   Culprits |-> culprits, tssErr |-> tssErr]

\* KeyGenDispatcher's result goroutine: &KeyGenResult{PublicKey, Commitment,
\* SavedSecret, SessionId, KeyId}.
KeyGenResultOf ==
  Result("keygen_result", "pub", SessionId, KeyId, 0, 0,
         SetToCommitment(Participants, Epoch), {}, NONE)

\* SignDispatcher's result goroutine: &KeySignResult{Msg, Signature, KeyId}.
KeySignResultOf == Result("sign_result", "", "", KeyId, 0, 0, "", {}, NONE)

\* Mutation: the result is bound to the old epoch.
ReshareResultOldEpoch ==
  Result("reshare_result", "", SessionId, KeyId, BlockHeight, Epoch,
         SetToCommitment(NewParticipants, Epoch), {}, NONE)

\* ReshareDispatcher's result loop: &ReshareResult{Commitment, KeyId,
\* SessionId, NewEpoch, BlockHeight}.
ReshareResultOf ==
  Result("reshare_result", "", SessionId, KeyId, BlockHeight, NewEpoch,
         SetToCommitment(NewParticipants, NewEpoch), {}, NONE)

\* Done: TimeoutResult{tssMgr, Culprits}.
TimeoutResultOf(c) == Result("timeout_result", "", "", "", 0, 0, "", c, NONE)

\* Done: ErrorResult{tssErr}.
ErrorResultOf(c) == Result("error_result", "", "", "", 0, 0, "", {}, c)

SuccessOf(kind) ==
  CASE kind = "keygen" -> KeyGenResultOf
    [] kind = "sign" -> KeySignResultOf
    [] kind = "reshare" -> ReshareResultOf

\* The accounts a session's blame can name.
Blamable(kind) ==
  IF kind = "reshare" THEN Participants \cup NewParticipants ELSE Participants

\* The Serialize() methods.  An ErrorResult without tssErr carries err.
Serialize(r) ==
  LET base(type, commit, pub, meta, epoch) ==
        [Type |-> type, SessionId |-> r.SessionId, KeyId |-> r.KeyId,
         Commitment |-> commit, PublicKey |-> pub, Metadata |-> meta,
         BlockHeight |-> r.BlockHeight, Epoch |-> epoch]
  IN CASE r.rtype = "keygen_result" ->
            base("keygen", r.Commitment, <<"hex", r.PublicKey>>, NONE, r.Epoch)
       [] r.rtype = "sign_result" -> base("sign_result", "", NONE, NONE, r.Epoch)
       [] r.rtype = "reshare_result" ->
            base("reshare", r.Commitment, NONE, NONE, r.Epoch)
       [] r.rtype = "error_result" /\ r.tssErr # NONE ->
            base("blame", SetToCommitment(r.tssErr, r.Epoch), NONE, "error",
                 r.Epoch)
       [] r.rtype = "error_result" -> base("blame", "", NONE, "error", r.Epoch)
       [] r.rtype = "timeout_result" ->
            base("blame", SetToCommitment(r.Culprits, r.Epoch), NONE, NONE,
                 r.Epoch)

VARIABLES kind, res, com
vars == <<kind, res, com>>

TypeOK ==
  /\ kind \in Kinds
  /\ res = NONE \/ res.rtype \in {"keygen_result", "sign_result",
                                  "reshare_result", "timeout_result",
                                  "error_result"}
  /\ com = NONE \/ com.Type \in {"keygen", "sign_result", "reshare", "blame"}

Init == kind \in Kinds /\ res = NONE /\ com = NONE

\* The result goroutine's value reaches resolve(*dispatcher.result).
DoneResolveResult ==
  /\ res = NONE /\ res' = SuccessOf(kind) /\ UNCHANGED <<kind, com>>

\* Done, timeout set: culprits from WaitingFor().
DoneResolveTimeout(c) ==
  /\ res = NONE /\ res' = TimeoutResultOf(c) /\ UNCHANGED <<kind, com>>

\* Done, tssErr set: the engine error names its culprits.
DoneResolveError(c) ==
  /\ res = NONE /\ res' = ErrorResultOf(c) /\ UNCHANGED <<kind, com>>

\* The caller projects the resolved value for the chain.
SerializeResult ==
  /\ res # NONE /\ com = NONE
  /\ com' = Serialize(res) /\ UNCHANGED <<kind, res>>

Next ==
  \/ DoneResolveResult
  \/ \E c \in SUBSET Blamable(kind) : DoneResolveTimeout(c) \/ DoneResolveError(c)
  \/ SerializeResult

Spec == Init /\ [][Next]_vars

(***************************************************************************)
(* spec.md 4.6: the projection table.  Keygen is typed "keygen" and is the *)
(* only one with a public key; sign is "sign_result" with an empty         *)
(* commitment; reshare is "reshare" and commits to the new participants at *)
(* the new epoch, with that epoch; timeout and error are "blame" and       *)
(* commit to exactly their culprits.                                       *)
(***************************************************************************)
ProjectionTable ==
  com # NONE =>
    /\ (com.PublicKey # NONE) <=> (res.rtype = "keygen_result")
    /\ res.rtype = "keygen_result" =>
         com.Type = "keygen" /\ com.Commitment = SetToCommitment(Participants, Epoch)
    /\ res.rtype = "sign_result" => com.Type = "sign_result" /\ com.Commitment = ""
    /\ res.rtype = "reshare_result" =>
         /\ com.Type = "reshare" /\ com.Epoch = NewEpoch
         /\ com.Commitment = SetToCommitment(NewParticipants, NewEpoch)
    /\ res.rtype = "timeout_result" =>
         com.Type = "blame" /\ com.Commitment.accounts = res.Culprits
    /\ res.rtype = "error_result" =>
         com.Type = "blame" /\ com.Commitment.accounts = res.tssErr

(***************************************************************************)
(* spec.md 6: every commitment names the session, the key and the epoch it *)
(* is about (the new epoch for a reshare), whatever the outcome kind.      *)
(***************************************************************************)
CommitmentIdentifiesSession ==
  com # NONE =>
    /\ com.SessionId = SessionId /\ com.KeyId = KeyId
    /\ com.Epoch = IF kind = "reshare" THEN NewEpoch ELSE Epoch
=============================================================================
