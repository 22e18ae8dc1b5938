---------------------------- MODULE TransactionPool ----------------------------
(***************************************************************************)
(* The transaction_pool collection of                                      *)
(* src/modules/db/vsc/transactions/transactionsDb.go as Ingest, SetOutput  *)
(* and SetStatus change it.  Each call runs on a caller of the node.  The  *)
(* FindOne and the update of Ingest are two steps, between which other     *)
(* callers' steps may run.  Each SetStatus iteration (its FindOne and its  *)
(* UpdateMany) is one step: other callers interleave between iterations,   *)
(* not inside one.                                                         *)
(*                                                                         *)
(* A record keeps what the properties tell apart: status, first_seen (the  *)
(* number of the call that wrote it), the anchor (block height, index of   *)
(* the transaction in the block, index of the operation), output, ledger.  *)
(***************************************************************************)
EXTENDS Naturals, FiniteSets

CONSTANTS
  Ids,         \* transaction ids
  AnchorOf,    \* AnchorOf[id]: anchors an Ingest of id may carry
  TypeOf,      \* TypeOf[id]: the type ("vsc" or "hive") of transaction id
  FindMayFail, \* whether a FindOne request may fail (a fault, not a miss)
  Statuses,    \* statuses callers pass to Ingest ("" for none) and SetStatus
  Callers,     \* goroutines that call into the collection
  Heights,     \* block heights a caller of FindUnconfirmedTransactions passes
  MaxCalls,    \* bound: calls started in one behaviour
  NONE

\* An anchor <<anchr_height, anchr_index, anchr_opidx>>, or NONE when the
\* transaction is not anchored (the pointers are nil and Mongo stores null).
Anchors == UNION {AnchorOf[i] : i \in Ids}

Record == [status : Statuses \cup {"UNCONFIRMED"}, seen : 0..MaxCalls,
           type : {"vsc", "hive"},
           anchor : Anchors, output : BOOLEAN, ledger : BOOLEAN]

Idle == [op |-> "idle"]

VARIABLES
  db,     \* db[id]: the record with that id, or NONE
  pc,     \* pc[c]: the call caller c is in, with its inputs and progress
  calls   \* calls started so far (first_seen is the number of its call)

vars == <<db, pc, calls>>

TypeOK ==
  /\ db \in [Ids -> Record \cup {NONE}]
  /\ calls \in 0..MaxCalls
  /\ \A c \in Callers :
       \/ pc[c] = Idle
       \/ /\ pc[c].op = "ingest" /\ pc[c].id \in Ids
          /\ pc[c].status \in Statuses /\ pc[c].anchor \in Anchors
          /\ pc[c].found \in BOOLEAN \cup {NONE}
       \/ /\ pc[c].op = "setstatus" /\ pc[c].todo \subseteq Ids
          /\ pc[c].status \in Statuses \ {""} /\ pc[c].done \subseteq Ids

Init ==
  /\ db = [i \in Ids |-> NONE]
  /\ pc = [c \in Callers |-> Idle]
  /\ calls = 0

-----------------------------------------------------------------------------
(* Ingest(offTx)                                                           *)

IngestCall(c, i, s, a) ==
  /\ pc[c] = Idle /\ calls < MaxCalls
  /\ pc' = [pc EXCEPT ![c] = [op |-> "ingest", id |-> i, status |-> s,
                              anchor |-> a, found |-> NONE]]
  /\ calls' = calls + 1
  /\ UNCHANGED db

\* What findResult.Err() == nil tells Ingest: TRUE for a record that
\* exists and the request succeeded; "no documents" and a failed request
\* both give an error.
FindOneFound(i) ==
  IF db[i] = NONE THEN {FALSE}
  ELSE {TRUE} \cup (IF FindMayFail THEN {FALSE} ELSE {})

\* findResult := e.FindOne(ctx, {"id": offTx.Id})
IngestFind(c) ==
  /\ pc[c].op = "ingest" /\ pc[c].found = NONE
  /\ \E f \in FindOneFound(pc[c].id) : pc' = [pc EXCEPT ![c].found = f]
  /\ UNCHANGED <<db, calls>>

\* Mutation: the status of a found record is overwritten as for a new one.
IngestUpdateIgnoringFind(c) ==
  LET x == pc[c]
      old == db[x.id]
      st == IF x.status # "" THEN x.status ELSE "UNCONFIRMED"
  IN /\ x.op = "ingest" /\ x.found \in BOOLEAN
     /\ db' = [db EXCEPT ![x.id] =
                 [status |-> st,
                  seen |-> IF ~x.found THEN calls ELSE old.seen,
                  anchor |-> x.anchor, type |-> TypeOf[x.id],
                  output |-> old # NONE /\ old.output,
                  ledger |-> old # NONE /\ old.ledger]]
     /\ pc' = [pc EXCEPT ![c] = Idle]
     /\ UNCHANGED calls

\* UpdateOne(..., {"$set": setOp}, upsert): the anchor fields and type
\* always; on a record FindOne did not find (or failed to read), first_seen and the given status or
\* "UNCONFIRMED"; on a found one, the status only when one is given.
\* Fields outside setOp keep their value; an upsert starts without them.
IngestUpdate(c) ==
  LET x == pc[c]
      old == db[x.id]
      st == IF x.status # "" THEN x.status
            ELSE IF ~x.found THEN "UNCONFIRMED"
            ELSE old.status
  IN /\ x.op = "ingest" /\ x.found \in BOOLEAN
     /\ db' = [db EXCEPT ![x.id] =
                 [status |-> st,
                  seen |-> IF ~x.found THEN calls ELSE old.seen,
                  anchor |-> x.anchor, type |-> TypeOf[x.id],
                  output |-> old # NONE /\ old.output,
                  ledger |-> old # NONE /\ old.ledger]]
     /\ pc' = [pc EXCEPT ![c] = Idle]
     /\ UNCHANGED calls

-----------------------------------------------------------------------------
(* SetOutput(sOut): FindOneAndUpdate({"id"}, {"$set": update}) sets the    *)
(* fields that are not nil.  It is one request; an empty $set is refused   *)
(* by the server and the error is dropped.                                 *)

\* Mutation: the update upserts, creating a record that has only these
\* fields.
SetOutputUpsert(c, i, out, led) ==
  /\ pc[c] = Idle /\ calls < MaxCalls
  /\ calls' = calls + 1
  /\ db' = IF db[i] = NONE THEN [db EXCEPT ![i] = [output |-> out, ledger |-> led]]
           ELSE [db EXCEPT ![i].output = @ \/ out, ![i].ledger = @ \/ led]
  /\ UNCHANGED pc

SetOutput(c, i, out, led) ==
  /\ pc[c] = Idle /\ calls < MaxCalls
  /\ calls' = calls + 1
  /\ db' = IF db[i] = NONE THEN db
           ELSE [db EXCEPT ![i].output = @ \/ out, ![i].ledger = @ \/ led]
  /\ UNCHANGED pc

-----------------------------------------------------------------------------
(* SetStatus(ids, status): for each id, FindOne and Decode it (skip it if  *)
(* that fails), then UpdateMany every record with the decoded anchr_height *)
(* and anchr_opidx.                                                        *)

SetStatusCall(c, ids, s) ==
  /\ pc[c] = Idle /\ calls < MaxCalls
  /\ pc' = [pc EXCEPT ![c] = [op |-> "setstatus", todo |-> ids, status |-> s,
                              done |-> {}]]
  /\ calls' = calls + 1
  /\ UNCHANGED db

\* Decode of a null anchr_height or anchr_opidx gives the zero value.
Decoded(a) == IF a = NONE THEN <<0, 0>> ELSE <<a[1], a[3]>>

\* The filter {anchr_height, anchr_opidx}: null never equals 0.
Matches(r, key) == r.anchor # NONE /\ <<r.anchor[1], r.anchor[3]>> = key

\* One iteration of the loop, on the record as FindOne returns it.
SetStatusOne(c, i) ==
  /\ pc[c].op = "setstatus" /\ i \in pc[c].todo
  /\ db' = IF db[i] = NONE THEN db
           ELSE LET key == Decoded(db[i].anchor) IN
                [j \in Ids |-> IF db[j] # NONE /\ Matches(db[j], key)
                                 THEN [db[j] EXCEPT !.status = pc[c].status]
                                 ELSE db[j]]
  /\ pc' = [pc EXCEPT ![c].todo = @ \ {i}, ![c].done = @ \cup {i}]
  /\ UNCHANGED calls

SetStatusReturn(c) ==
  /\ pc[c].op = "setstatus" /\ pc[c].todo = {}
  /\ pc' = [pc EXCEPT ![c] = Idle]
  /\ UNCHANGED <<db, calls>>

-----------------------------------------------------------------------------

Next ==
  \E c \in Callers :
    \/ \E i \in Ids, s \in Statuses, a \in Anchors :
         a \in AnchorOf[i] /\ IngestCall(c, i, s, a)
    \/ IngestFind(c) \/ IngestUpdate(c)
    \/ \E i \in Ids, out, led \in BOOLEAN : (out \/ led) /\ SetOutput(c, i, out, led)
    \/ \E ids \in SUBSET Ids, s \in Statuses \ {""} :
         ids # {} /\ SetStatusCall(c, ids, s)
    \/ \E i \in Ids : SetStatusOne(c, i)
    \/ SetStatusReturn(c)

Spec == Init /\ [][Next]_vars

\* FindUnconfirmedTransactions(height): the records with status
\* "UNCONFIRMED" and type "vsc" whose expire_block is missing, null or
\* above the height.  No call of this store writes expire_block, so the
\* height filters nothing.  (A failed Find leaves a nil cursor that the
\* loop dereferences; the error path is not part of the result.)
FindUnconfirmedTransactions(h) ==
  {i \in Ids : db[i] # NONE /\ db[i].status = "UNCONFIRMED" /\ db[i].type = "vsc"}

-----------------------------------------------------------------------------
(* Properties.                                                             *)

\* A step that changes the status of record j runs an Ingest of j or a
\* SetStatus whose ids hold j.
StatusWriter(j) ==
  \E c \in Callers :
    \/ pc[c].op = "ingest" /\ pc[c].id = j
    \/ pc[c].op = "setstatus" /\ j \in pc[c].todo \cup pc[c].done

\* "SetStatus of all IDs ... to a specific status": a SetStatus call sets
\* the status of exactly the transactions it lists.  No step changes the
\* status of a transaction that no running call names, and every listed
\* transaction that is indexed holds the status while the call that listed
\* it runs on.
SetStatusSetsExactlyListed ==
  /\ [][\A j \in Ids : db[j] # NONE /\ db'[j] # NONE /\ db'[j].status # db[j].status
                       => StatusWriter(j)]_vars
  /\ [](\A c \in Callers :
         pc[c].op = "setstatus" =>
           \A i \in pc[c].done : db[i] # NONE => db[i].status = pc[c].status)

\* Ingest: "If it already exists do nothing" / "Prevents case of
\* reprocessing/reindexing": once a record exists its first_seen never
\* changes, and once it has left "UNCONFIRMED" no call puts it back into the
\* pool FindUnconfirmedTransactions returns for processing.
ReprocessingSafe ==
  [][\A j \in Ids :
       db[j] # NONE =>
         /\ db'[j].seen = db[j].seen
         /\ \A h \in Heights :
              j \notin FindUnconfirmedTransactions(h) => j \notin FindUnconfirmedTransactions(h)']_vars

=============================================================================
