------------------------------ MODULE StateStore ------------------------------
(***************************************************************************)
(* StateStore of src/modules/state-processing/contract_session.go: a map   *)
(* `cache` in front of the DataBin of one state merkle.  Get fills the     *)
(* cache from the DataBin and the datalayer on a miss; Set and Delete work *)
(* on the cache only; Commit hands the cache back.                         *)
(*                                                                         *)
(* DataBin.Get and DataLayer.GetRaw are in lib/datalayer, outside src/:    *)
(* DataBin.Get succeeds for a key the bin holds and fails for any other;   *)
(* the pointer it returns with an error is nil or not, and GetRaw succeeds *)
(* or fails, as the build may do.                                          *)
(***************************************************************************)
CONSTANTS
  Keys,    \* state keys
  Vals,    \* non-empty byte strings
  EMPTY,   \* make([]byte, 0)
  NIL,     \* a nil slice, or a key the map does not hold
  ABSENT   \* a key the DataBin does not hold

VARIABLES
  stored,    \* the DataBin's contents: Keys -> Vals \cup {ABSENT}
  cache,     \* ss.cache
  got,       \* what the last Get returned
  committed, \* a Commit has handed out the cache map itself (an alias)
  crashed    \* a nil pointer was dereferenced

vars == <<stored, cache, got, committed, crashed>>

Bytes == Vals \cup {EMPTY, NIL}

TypeOK ==
  /\ stored \in [Keys -> Vals \cup {ABSENT}]
  /\ cache \in [Keys -> Bytes]
  /\ got \in Bytes
  /\ committed \in BOOLEAN
  /\ crashed \in BOOLEAN

\* NewStateStore: an empty cache over the DataBin of the state merkle (an
\* empty DataBin when the merkle is "").
Init ==
  /\ stored \in [Keys -> Vals \cup {ABSENT}]
  /\ cache = [k \in Keys |-> NIL]
  /\ got = EMPTY /\ committed = FALSE /\ crashed = FALSE

\* The outcomes of a Get that misses the cache, in the order the code tests
\* them: databin.Get fails and the nil cid is dereferenced; it fails and
\* GetRaw(*cidz) fails (rawBytes is nil) or succeeds; it succeeds.
MissOutcomes(k) ==
  IF stored[k] = ABSENT THEN {"panic", NIL, EMPTY} ELSE {EMPTY}

\* StateStore.Get: a hit returns the cached bytes; a miss fills the cache
\* as above and returns what it stored.
Get(k) ==
  /\ ~crashed
  /\ IF cache[k] # NIL
       THEN got' = cache[k] /\ UNCHANGED <<cache, crashed>>
       ELSE \E o \in MissOutcomes(k) :
              IF o = "panic" THEN crashed' = TRUE /\ UNCHANGED <<cache, got>>
              ELSE /\ cache' = [cache EXCEPT ![k] = o]
                   /\ got' = o /\ UNCHANGED crashed
  /\ UNCHANGED <<stored, committed>>

\* StateStore.Set
Set(k, v) ==
  /\ ~crashed
  /\ cache' = [cache EXCEPT ![k] = v]
  /\ UNCHANGED <<stored, got, committed, crashed>>

\* StateStore.Delete: delete(ss.cache, key)
Delete(k) ==
  /\ ~crashed
  /\ cache' = [cache EXCEPT ![k] = NIL]
  /\ UNCHANGED <<stored, got, committed, crashed>>

\* StateStore.Commit returns ss.cache, the map itself: the caller holds an
\* alias whose contents are `cache` from then on, later Set, Delete and Get
\* included.  Nothing is written to the DataBin.
Commit ==
  /\ ~crashed
  /\ committed' = TRUE
  /\ UNCHANGED <<stored, cache, got, crashed>>

Next ==
  \/ Commit
  \/ \E k \in Keys : Get(k) \/ Delete(k) \/ \E v \in Vals : Set(k, v)

Spec == Init /\ [][Next]_vars

-----------------------------------------------------------------------------
(***************************************************************************)
(* StateStore.Get of a key the cache lacks and the DataBin holds returns   *)
(* the value stored under it.  contract_session.go:82 caches               *)
(* make([]byte, 0) on the branch where databin.Get succeeds, so a contract *)
(* reads every stored key as empty.                                        *)
(***************************************************************************)
GetReturnsStored ==
  [][\A k \in Keys :
       (cache[k] = NIL /\ stored[k] # ABSENT /\ Get(k)) => got' = stored[k]]_vars

=============================================================================
