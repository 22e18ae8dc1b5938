--------------------------- MODULE ContractSession ---------------------------
(***************************************************************************)
(* ContractSession of src/modules/state-processing/contract_session.go     *)
(* with the StateStore it hands out: its own `cache`, `metadata` and       *)
(* `stateMerkle`, and the operations that move them into and out of a      *)
(* TempOutput.  GetStateStore builds a new StateStore over the DataBin of  *)
(* the state merkle each time it is called.                                *)
(***************************************************************************)
EXTENDS StateStore

CONSTANTS
  Merkles,  \* state merkle cids, "" among them
  Metas     \* metadata maps

VARIABLES
  bins,     \* bins[m]: what the DataBin of merkle m holds (fixed)
  csCache,  \* cs.cache
  csMerkle, \* cs.stateMerkle
  csMeta,   \* cs.metadata
  output    \* the TempOutput the last ToOutput returned, or NIL

csVars == <<bins, csCache, csMerkle, csMeta, output>>
allVars == <<vars, csVars>>

Output == [cache : [Keys -> Bytes], cid : Merkles, meta : Metas]

SessionTypeOK ==
  /\ TypeOK
  /\ bins \in [Merkles -> [Keys -> Vals \cup {ABSENT}]]
  /\ csCache \in [Keys -> Bytes]
  /\ csMerkle \in Merkles /\ csMeta \in Metas
  /\ output \in Output \cup {NIL}

\* A session of some merkle; no store has been handed out yet.
SessionInit ==
  /\ bins \in [Merkles -> [Keys -> Vals \cup {ABSENT}]]
  /\ bins[""] = [k \in Keys |-> ABSENT]
  /\ csCache = [k \in Keys |-> NIL] /\ csMerkle \in Merkles /\ csMeta \in Metas
  /\ output = NIL
  /\ stored = bins[csMerkle] /\ cache = [k \in Keys |-> NIL]
  /\ got = EMPTY /\ committed = FALSE /\ crashed = FALSE

\* GetStateStore: NewStateStore(da, cs.stateMerkle), an empty cache over the
\* DataBin of the merkle (a new, empty DataBin for "").
GetStateStore ==
  /\ ~crashed
  /\ stored' = bins[csMerkle] /\ cache' = [k \in Keys |-> NIL]
  /\ got' = EMPTY /\ committed' = FALSE
  /\ UNCHANGED <<crashed, csVars>>

SetMetadata(m) ==
  /\ ~crashed
  /\ csMeta' = m
  /\ UNCHANGED <<vars, bins, csCache, csMerkle, output>>

ToOutput ==
  /\ ~crashed
  /\ output' = [cache |-> csCache, cid |-> csMerkle, meta |-> csMeta]
  /\ UNCHANGED <<vars, bins, csCache, csMerkle, csMeta>>

\* FromOutput of a TempOutput the session produced.
FromOutput(o) ==
  /\ ~crashed
  /\ csCache' = o.cache /\ csMeta' = o.meta /\ csMerkle' = o.cid
  /\ UNCHANGED <<vars, bins, output>>

\* The store's operations, on the store last handed out.
StoreStep == Next /\ UNCHANGED csVars

SessionNext ==
  \/ GetStateStore \/ ToOutput \/ StoreStep
  \/ \E m \in Metas : SetMetadata(m)
  \/ output # NIL /\ FromOutput(output)

SessionSpec == SessionInit /\ [][SessionNext]_allVars

=============================================================================
