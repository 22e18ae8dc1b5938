----------------------------- MODULE BridgeActions -----------------------------
(***************************************************************************)
(* The ledger_actions collection of src/modules/db/vsc/ledger/ledger.go    *)
(* (actionsDb): bridge actions such as withdrawals are stored "pending",   *)
(* listed by block height or by election epoch, and marked "complete" once *)
(* executed.  Each call is one database request, so each is one step.      *)
(*                                                                         *)
(* Ids are numbers whose order stands for the order of the id strings.    *)
(***************************************************************************)
EXTENDS Naturals, Sequences, FiniteSets, TLC
LOCAL INSTANCE SequencesExt

CONSTANTS
  Ids,      \* action ids
  Heights,  \* block heights
  Epochs,   \* election epochs
  Types,    \* action types
  NONE

Action == [status : {"pending", "complete"}, height : Heights,
           epoch : Epochs \cup {NONE}, type : Types]

VARIABLES
  actions,  \* actions[id]: the record with that id, or NONE
  fetched   \* the list a query step returned (which query, its arguments,
            \* its rows); NONE after a write

vars == <<actions, fetched>>

Query == [by : {"height", "epoch"}, arg : Heights \cup Epochs,
          types : SUBSET Types, res : Seq(Ids)]

TypeOK ==
  /\ actions \in [Ids -> Action \cup {NONE}]
  /\ fetched \in Query \cup {NONE}

Init == actions = [i \in Ids |-> NONE] /\ fetched = NONE

\* StoreAction: FindOneAndUpdate({"id"}, {"$set": withdraw}, upsert).  The
\* caller builds a pending action; every field of it is set.
StoreAction(i, h, e, t) ==
  /\ actions' = [actions EXCEPT ![i] = [status |-> "pending", height |-> h,
                                        epoch |-> e, type |-> t]]
  /\ fetched' = NONE

\* Mutation: the status string is misspelt.
ExecuteCompleteMisspelt(ids) ==
  /\ ids # {}
  /\ actions' = [i \in Ids |-> IF i \in ids /\ actions[i] # NONE
                                 THEN [actions[i] EXCEPT !.status = "completed"]
                                 ELSE actions[i]]
  /\ fetched' = NONE

\* ExecuteComplete(ids...): nothing for no ids, else UpdateMany of every
\* action whose id is listed to "complete".
ExecuteComplete(ids) ==
  /\ ids # {}
  /\ actions' = [i \in Ids |-> IF i \in ids /\ actions[i] # NONE
                                 THEN [actions[i] EXCEPT !.status = "complete"]
                                 ELSE actions[i]]
  /\ fetched' = NONE

\* SetStatus(id, status) has an empty body.
SetStatus(i, s) == UNCHANGED vars

\* The filter on type: `$in t` when types are given, none otherwise.
TypeOk(a, ts) == ts = {} \/ a.type \in ts

\* The sort {block_height: 1, id: 1}.
Before(i, j) ==
  \/ actions[i].height < actions[j].height
  \/ actions[i].height = actions[j].height /\ i < j

\* The rows a find returns, in the order of the sort.
Rows(S) == SetToSortSeq(S, Before)

\* Mutation: the height bound is exclusive.
PendingBelowHeight(bh, ts) ==
  {i \in Ids : actions[i] # NONE /\ actions[i].status = "pending"
              /\ actions[i].height < bh /\ TypeOk(actions[i], ts)}

\* GetPendingActions' filter: {status: "pending", block_height: {$lte: bh}}.
PendingAtHeight(bh, ts) ==
  {i \in Ids : actions[i] # NONE /\ actions[i].status = "pending"
              /\ actions[i].height <= bh /\ TypeOk(actions[i], ts)}

\* GetPendingActionsByEpoch's filter: {"params.epoch": {$lte: epoch,
\* $exists: true}, status: "pending"}.
PendingAtEpoch(e, ts) ==
  {i \in Ids : actions[i] # NONE /\ actions[i].status = "pending"
              /\ actions[i].epoch # NONE /\ actions[i].epoch <= e
              /\ TypeOk(actions[i], ts)}

\* The rows an `if cursor.Next` reads: the first, if any.
FirstRow(rows) == IF rows = <<>> THEN <<>> ELSE <<Head(rows)>>

\* GetPendingActions(bh, t...): every row of the cursor.
GetPendingActions(bh, ts) ==
  /\ fetched' = [by |-> "height", arg |-> bh, types |-> ts,
                 res |-> Rows(PendingAtHeight(bh, ts))]
  /\ UNCHANGED actions

\* GetPendingActionsByEpoch(epoch, t...): `if cursor.Next(...)` decodes the
\* first row only.
GetPendingActionsByEpoch(e, ts) ==
  /\ fetched' = [by |-> "epoch", arg |-> e, types |-> ts,
                 res |-> FirstRow(Rows(PendingAtEpoch(e, ts)))]
  /\ UNCHANGED actions

Next ==
  \/ \E i \in Ids, h \in Heights, e \in Epochs \cup {NONE}, t \in Types :
       StoreAction(i, h, e, t)
  \/ \E ids \in SUBSET Ids : ExecuteComplete(ids)
  \/ \E i \in Ids : SetStatus(i, "complete")
  \/ \E ts \in SUBSET Types :
       \/ \E bh \in Heights : GetPendingActions(bh, ts)
       \/ \E e \in Epochs : GetPendingActionsByEpoch(e, ts)

Spec == Init /\ [][Next]_vars

-----------------------------------------------------------------------------
(* Reference: the actions with a property P, least (by height, then id)    *)
(* first, built by taking the least remaining one each time.               *)

RECURSIVE InOrder(_)
InOrder(S) ==
  IF S = {} THEN <<>>
  ELSE LET m == CHOOSE i \in S : \A j \in S \ {i} : Before(i, j)
       IN <<m>> \o InOrder(S \ {m})

\* The pending actions of the given types at or below a height, and at or
\* below an epoch (of those that carry one).
DuePending(q) ==
  {i \in Ids : /\ actions[i] # NONE /\ actions[i].status = "pending"
              /\ (q.types = {} \/ actions[i].type \in q.types)
              /\ IF q.by = "height" THEN actions[i].height <= q.arg
                 ELSE actions[i].epoch \in Epochs /\ actions[i].epoch <= q.arg}

\* GetPendingActions lists every pending action at or below the height, of
\* the requested types, each once and in (block_height, id) order: the
\* order every node executes the bridge actions of a block in.
PendingListExact ==
  [][fetched' # NONE /\ fetched'.by = "height"
       => fetched'.res = InOrder(DuePending(fetched'))]_vars

\* "Gets list of actions equal or less than the supplied epoch":
\* GetPendingActionsByEpoch lists every pending action of the requested
\* types whose epoch is at or below the given one, in order.
ByEpochListsAll ==
  [][fetched' # NONE /\ fetched'.by = "epoch"
       => fetched'.res = InOrder(DuePending(fetched'))]_vars

=============================================================================
