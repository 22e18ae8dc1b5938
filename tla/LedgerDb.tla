------------------------------- MODULE LedgerDb -------------------------------
(***************************************************************************)
(* The ledger and ledger_balances collections of                           *)
(* src/modules/db/vsc/ledger/ledger.go.  Every write is one upsert request *)
(* and one step.  A query of one request is an operator of the state: the  *)
(* set of row lists the server may return (rows of equal block_height come *)
(* in any order, as a sort on block_height alone leaves them).  GetAll     *)
(* issues one request per account, so it is a reader with a program        *)
(* counter whose steps interleave with the writes.  A request of GetAll    *)
(* may fail; GetAll drops the error.                                       *)
(***************************************************************************)
EXTENDS Naturals, Sequences, FiniteSets
LOCAL INSTANCE SequencesExt
LOCAL INSTANCE FiniteSetsExt

CONSTANTS
  Accounts,   \* account names (ledger owner, balance account)
  LIds,       \* ledger record ids
  Heights,    \* block heights
  Assets,     \* asset names ("tk"); "" is not one of them
  LTypes,     \* ledger op types ("t")
  Vals,       \* balance and claim record contents
  Limits,     \* the limits a caller of GetLedgerAfterHeight passes, NONE for nil
  MaxWrites,  \* bound: upserts in one behaviour
  NONE

LedgerRecord == [owner : Accounts, height : Heights, asset : Assets, type : LTypes]

VARIABLES
  ledger,    \* ledger[id]: the ledger record with that id, or NONE
  balances,  \* balances[a][h]: the balance record of a at height h, or NONE
  claims,    \* claims[h]: the interest claim recorded at height h, or NONE
  reader,    \* the GetAll call in progress, or [op |-> "idle"]
  writes     \* upserts so far

vars == <<ledger, balances, claims, reader, writes>>

Idle == [op |-> "idle"]

\* What GetBalanceRecord returns: the record of the greatest height, or NONE.
BalanceRow == [height : Heights, val : Vals] \cup {NONE}

TypeOK ==
  /\ ledger \in [LIds -> LedgerRecord \cup {NONE}]
  /\ balances \in [Accounts -> [Heights -> Vals \cup {NONE}]]
  /\ claims \in [Heights -> Vals \cup {NONE}]
  /\ writes \in 0..MaxWrites
  /\ \/ reader = Idle
     \/ /\ reader.op = "getall" /\ reader.h \in Heights
        /\ reader.todo \subseteq Accounts /\ reader.failed \subseteq Accounts
        /\ reader.rows \subseteq Accounts \X [height : Heights, val : Vals]
        /\ reader.start \in [Accounts -> BalanceRow]

Init ==
  /\ ledger = [i \in LIds |-> NONE]
  /\ balances = [a \in Accounts |-> [h \in Heights |-> NONE]]
  /\ claims = [h \in Heights |-> NONE]
  /\ reader = Idle
  /\ writes = 0

-----------------------------------------------------------------------------
(* The ledger collection.                                                  *)

\* One iteration of StoreLedger's loop: FindOneAndUpdate({"id"}, {"$set":
\* record}, upsert).  A batch is that many consecutive steps.
StoreLedger(i, r) ==
  /\ writes < MaxWrites
  /\ ledger' = [ledger EXCEPT ![i] = r]
  /\ writes' = writes + 1
  /\ UNCHANGED <<balances, claims, reader>>

\* The ids of a find's result in the orders the sort {"block_height": 1}
\* allows.
SortedOrders(S) ==
  {r \in SetToSeqs(S) :
     \A k \in 1..Len(r) - 1 : ledger[r[k]].height <= ledger[r[k + 1]].height}

\* SetLimit(*limit) when limit is not nil.
Limited(r, lim) == IF lim = NONE \/ lim >= Len(r) THEN r ELSE SubSeq(r, 1, lim)

\* Mutation: the filter is {"$gt": blockHeight}.
LedgerAfterHeightGt(a, h, lim) ==
  LET S == {i \in LIds : ledger[i] # NONE /\ ledger[i].owner = a
                         /\ ledger[i].height > h}
  IN  {Limited(r, lim) : r \in SortedOrders(S)}

\* GetLedgerAfterHeight(account, blockHeight, asset, limit): the filter
\* {"owner": account, "block_height": {$gte}}; asset is not used.
GetLedgerAfterHeight(a, h, lim) ==
  LET S == {i \in LIds : ledger[i] # NONE /\ ledger[i].owner = a
                         /\ ledger[i].height >= h}
  IN  {Limited(r, lim) : r \in SortedOrders(S)}

\* The type filter of GetLedgerRange: each option with a non-empty OpType
\* sets query["t"], so the last such option wins.
TypeFilter(ops) ==
  FoldLeft(LAMBDA acc, op : IF op # {} THEN op ELSE acc, NONE, ops)

\* GetLedgerRange(account, start, end, asset, searchOps...).
GetLedgerRange(a, s, e, asset, ops) ==
  LET t == TypeFilter(ops)
      S == {i \in LIds : /\ ledger[i] # NONE /\ ledger[i].owner = a
                         /\ s <= ledger[i].height /\ ledger[i].height <= e
                         /\ (asset = "" \/ ledger[i].asset = asset)
                         /\ (t = NONE \/ ledger[i].type \in t)}
  IN  SortedOrders(S)

\* Mutation: the lower bound of the range is exclusive.
DistinctAccountsAbove(s, e) ==
  {ledger[i].owner : i \in {j \in LIds : ledger[j] # NONE
                              /\ s < ledger[j].height /\ ledger[j].height <= e}}

\* GetDistinctAccountsRange(startHeight, endHeight): Distinct("owner") over
\* {"block_height": {$gte, $lte}}.
GetDistinctAccountsRange(s, e) ==
  {ledger[i].owner : i \in {j \in LIds : ledger[j] # NONE
                              /\ s <= ledger[j].height /\ ledger[j].height <= e}}

-----------------------------------------------------------------------------
(* The ledger_balances collection.                                         *)

\* PutBalanceRecord: FindOneAndUpdate({account, block_height}, {"$set"},
\* upsert).
PutBalanceRecord(a, h, v) ==
  /\ writes < MaxWrites
  /\ balances' = [balances EXCEPT ![a][h] = v]
  /\ writes' = writes + 1
  /\ UNCHANGED <<ledger, claims, reader>>

\* UpdateBalanceRecord: the same request as PutBalanceRecord; it returns nil.
UpdateBalanceRecord(a, h, v) ==
  /\ writes < MaxWrites
  /\ balances' = [balances EXCEPT ![a][h] = v]
  /\ writes' = writes + 1
  /\ UNCHANGED <<ledger, claims, reader>>

\* Mutation: the sort is {"block_height": 1}, the oldest record first.
BalanceOldest(a, h) ==
  LET hs == {x \in Heights : x <= h /\ balances[a][x] # NONE}
  IN  IF hs = {} THEN NONE ELSE [height |-> Min(hs), val |-> balances[a][Min(hs)]]

\* GetBalanceRecord(account, blockHeight): FindOne of {account,
\* block_height: {$lte}} sorted {"block_height": -1}; "no documents" is
\* (nil, nil).
GetBalanceRecord(a, h) ==
  LET hs == {x \in Heights : x <= h /\ balances[a][x] # NONE}
  IN  IF hs = {} THEN NONE ELSE [height |-> Max(hs), val |-> balances[a][Max(hs)]]

\* The accounts the balance collection holds a record of, any height.
HeldAccounts == {a \in Accounts : \E x \in Heights : balances[a][x] # NONE}

\* GetAll(blockHeight), first request: Distinct("account", {}).  On an
\* error the list is empty and the loop does nothing.  `start` records what
\* GetBalanceRecord would give for each account at this point.
GetAllDistinct(h) ==
  /\ reader = Idle
  /\ \E ok \in BOOLEAN :
       reader' = [op |-> "getall", h |-> h,
                  todo |-> IF ok THEN HeldAccounts ELSE {},
                  failed |-> IF ok THEN {} ELSE HeldAccounts,
                  rows |-> {},
                  start |-> [a \in Accounts |-> GetBalanceRecord(a, h)]]
  /\ UNCHANGED <<ledger, balances, claims, writes>>

\* Mutation: the row is appended without the nil check.
GetAllReadNoNilCheck(a) ==
  /\ reader.op = "getall" /\ a \in reader.todo
  /\ reader' = [reader EXCEPT !.todo = @ \ {a},
                              !.rows = @ \cup {<<a, GetBalanceRecord(a, reader.h)>>}]
  /\ UNCHANGED <<ledger, balances, claims, writes>>

\* One iteration: br, _ := GetBalanceRecord(act, h); append it if not nil.
\* The request may fail, and the account is skipped.
GetAllRead(a) ==
  /\ reader.op = "getall" /\ a \in reader.todo
  /\ \/ LET br == GetBalanceRecord(a, reader.h) IN
          reader' = [reader EXCEPT !.todo = @ \ {a},
                                   !.rows = IF br = NONE THEN @ ELSE @ \cup {<<a, br>>}]
     \/ reader' = [reader EXCEPT !.todo = @ \ {a}, !.failed = @ \cup {a}]
  /\ UNCHANGED <<ledger, balances, claims, writes>>

GetAllReturn ==
  /\ reader.op = "getall" /\ reader.todo = {}
  /\ reader' = Idle
  /\ UNCHANGED <<ledger, balances, claims, writes>>

-----------------------------------------------------------------------------
(* The ledger_claims collection.                                           *)

\* SaveClaim: FindOneAndUpdate({"block_height"}, {"$set": claim}, upsert).
SaveClaim(h, v) ==
  /\ writes < MaxWrites
  /\ claims' = [claims EXCEPT ![h] = v]
  /\ writes' = writes + 1
  /\ UNCHANGED <<ledger, balances, reader>>

\* Mutation: the filter is {"$lte": blockHeight}.
LastClaimAtOrBelow(h) ==
  LET hs == {x \in Heights : x <= h /\ claims[x] # NONE}
  IN  IF hs = {} THEN NONE ELSE [height |-> Max(hs), val |-> claims[Max(hs)]]

\* GetLastClaim(blockHeight): FindOne of {"block_height": {"$lt"}} sorted
\* {"block_height": -1}; any error, "no documents" included, is nil.
GetLastClaim(h) ==
  LET hs == {x \in Heights : x < h /\ claims[x] # NONE}
  IN  IF hs = {} THEN NONE ELSE [height |-> Max(hs), val |-> claims[Max(hs)]]

Next ==
  \/ \E i \in LIds, r \in LedgerRecord : StoreLedger(i, r)
  \/ \E a \in Accounts, h \in Heights, v \in Vals :
       PutBalanceRecord(a, h, v) \/ UpdateBalanceRecord(a, h, v)
  \/ \E h \in Heights, v \in Vals : SaveClaim(h, v)
  \/ \E h \in Heights : GetAllDistinct(h)
  \/ \E a \in Accounts : GetAllRead(a)
  \/ GetAllReturn

Spec == Init /\ [][Next]_vars

-----------------------------------------------------------------------------
(* Properties.                                                             *)

\* "Get ledger ops after height inclusive": every list GetLedgerAfterHeight
\* may return holds the account's records at or above the height, each
\* once, in block-height order; with a limit n it holds n of them and
\* leaves out none that is lower than one it holds.
LedgerAfterHeightExact ==
  \A a \in Accounts, h \in Heights, lim \in Limits :
    LET due == {i \in LIds : ledger[i] # NONE /\ ledger[i].owner = a
                            /\ ledger[i].height >= h}
        want == IF lim = NONE THEN Cardinality(due)
                ELSE IF lim < Cardinality(due) THEN lim ELSE Cardinality(due)
    IN \A r \in GetLedgerAfterHeight(a, h, lim) :
         /\ Len(r) = want
         /\ \A k \in 1..Len(r) : r[k] \in due
         /\ \A k, m \in 1..Len(r) : k < m => r[k] # r[m] /\ ledger[r[k]].height <= ledger[r[m]].height
         /\ \A i \in due, k \in 1..Len(r) :
              ledger[i].height < ledger[r[k]].height => \E m \in 1..Len(r) : r[m] = i

\* The three ledger queries agree: an account is among the distinct owners
\* of a height range exactly when GetLedgerRange of that range without
\* asset or type filter lists a record of it, and that range up to the
\* greatest height lists the same records as GetLedgerAfterHeight.
LedgerQueriesAgree ==
  /\ \A s, e \in Heights :
       GetDistinctAccountsRange(s, e) =
         {a \in Accounts : \E r \in GetLedgerRange(a, s, e, "", <<>>) : r # <<>>}
  /\ \A a \in Accounts, h \in Heights :
       LET top == CHOOSE x \in Heights : \A y \in Heights : y <= x
       IN  GetLedgerRange(a, h, top, "", <<>>) = GetLedgerAfterHeight(a, h, NONE)

\* GetLastClaim(h) is the claim of the block before h: the one saved at the
\* greatest height strictly below h, so the interest of a block is counted
\* from the previous claim and never from a claim saved at the block itself;
\* nil only when no such claim exists.
LastClaimIsPrevious ==
  \A h \in Heights :
    LET c == GetLastClaim(h)
    IN  /\ c = NONE <=> \A x \in Heights : x < h => claims[x] = NONE
        /\ c # NONE => /\ c.height < h /\ claims[c.height] = c.val
                      /\ \A x \in Heights : c.height < x /\ x < h => claims[x] = NONE

\* GetAll(h) as of the moment it started: when it returns, it holds one row
\* per account it read, each row is the account's record at or below h
\* and no older than the one GetBalanceRecord gave when GetAll began, and
\* every account that had such a record then is in the rows unless a
\* request for it failed.  Writes may interleave with every request.
GetAllAsOfStart ==
  [][GetAllReturn =>
       /\ \A x, y \in reader.rows : x[1] = y[1] => x = y
       /\ \A x \in reader.rows :
            /\ x[2].height <= reader.h
            /\ reader.start[x[1]] # NONE => x[2].height >= reader.start[x[1]].height
       /\ \A a \in Accounts :
            reader.start[a] # NONE => a \in {x[1] : x \in reader.rows} \cup reader.failed]_vars

=============================================================================
