------------------------------ MODULE PartyIds ------------------------------
(***************************************************************************)
(* Party identities of dispatcher.go.  An account is its byte string; its  *)
(* key is the unsigned big-endian integer of those bytes                    *)
(* (big.Int.SetBytes([]byte(account))).  In a resharing session the new    *)
(* committee's key of an account is multiplied by epochIdx + 1 when        *)
(* epochIdx, the value makeEpochIdx derives from the new epoch, is not 0.  *)
(* tss-lib tells parties apart, and the dispatcher tags message origins,   *)
(* by these keys.                                                          *)
(***************************************************************************)
EXTENDS Naturals, Sequences
LOCAL INSTANCE SequencesExt

\* big.NewInt(0).SetBytes([]byte(account))
AccountKey(a) == FoldLeft(LAMBDA acc, b : acc * 256 + b, 0, a)

\* The key of the old committee's party of account a (baseInfo).
OldKey(a) == AccountKey(a)

\* The key of the new committee's party of account a (ReshareDispatcher.Start).
NewKey(a, epochIdx) ==
  IF epochIdx # 0 THEN AccountKey(a) * (epochIdx + 1) ELSE AccountKey(a)

\* big.Int.Bytes(): the big-endian bytes of a key, without leading zeros.
RECURSIVE KeyBytes(_)
KeyBytes(k) == IF k = 0 THEN <<>> ELSE KeyBytes(k \div 256) \o <<k % 256>>


=============================================================================
