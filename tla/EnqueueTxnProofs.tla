-------------------------- MODULE EnqueueTxnProofs --------------------------
(***************************************************************************)
(* Theorems about enqueue and replay inside callers' transactions: an      *)
(* idempotency key names one job, replays are well founded, and the jobs   *)
(* of a transaction stay in it as long as no statement fails.              *)
(***************************************************************************)
EXTENDS EnqueueTxn, FiniteSetTheorems, TLAPS

-----------------------------------------------------------------------------
(* What each step does, field by field *)

\* Only the transaction of c changes.
OnlyTxn(c) == txn' \in [Callers -> Txn] /\ \A d \in Callers \ {c} : txn'[d] = txn[d]

Types ==
    /\ row \in [Ids -> Row]
    /\ txn \in [Callers -> Txn]
    /\ answers \subseteq [key : AnyKey, id : Ids]

LEMMA TxnBecomes ==
    ASSUME Types, NEW c \in Callers, NEW r \in Txn, txn' = [txn EXCEPT ![c] = r]
    PROVE  txn'[c] = r /\ OnlyTxn(c)
  BY DEF Types, OnlyTxn

LEMMA TxnTypes ==
    ASSUME Types, NEW c \in Callers
    PROVE  /\ txn[c] \in Txn /\ txn[c].key \in AnyKey /\ txn[c].source \in Ids \cup {NoId}
           /\ txn[c].wrote \subseteq Ids /\ txn[c].told \subseteq Ids
           /\ txn[c].seen \subseteq [key : AnyKey, id : Ids]
           /\ txn[c].ops \in 0..MaxOps
  <1>1. txn[c] \in Txn
    BY DEF Types
  <1> QED
    BY <1>1 DEF Txn

LEMMA RowTypes ==
    ASSUME Types, NEW i \in Ids
    PROVE  /\ row[i] \in Row /\ row[i].status \in Statuses /\ row[i].key \in AnyKey
           /\ row[i].source \in Ids \cup {NoId}
  <1>1. row[i] \in Row
    BY DEF Types
  <1> QED
    BY <1>1 DEF Row

\* A request: its key, and for a replay the source and the key made from it.
LEMMA RequestEffect ==
    ASSUME Types, NEW c \in Callers, Enqueue(c) \/ Replay(c)
    PROVE  \E k \in AnyKey, s \in Ids \cup {NoId} :
            /\ OnlyTxn(c) /\ UNCHANGED <<row, answers>>
            /\ s # NoId => k = ReplayKey(s) /\ row[s].status \in {"dead", "done"}
            /\ txn'[c].at = "inserting" /\ txn'[c].key = k /\ txn'[c].source = s
            /\ txn'[c].wrote = txn[c].wrote /\ txn'[c].told = txn[c].told
            /\ txn'[c].seen = txn[c].seen /\ txn'[c].undone = txn[c].undone
  <1>0. txn[c] \in Txn /\ txn \in [Callers -> Txn]
    BY DEF Types
  <1>1. PICK k \in AnyKey, s \in Ids \cup {NoId} :
          /\ s # NoId => k = ReplayKey(s) /\ row[s].status \in {"dead", "done"}
          /\ txn' = [txn EXCEPT ![c].at = "inserting", ![c].key = k, ![c].source = s,
                                ![c].ops = @ + 1]
    <2>1. CASE Enqueue(c)
      BY <2>1 DEF Enqueue, AnyKey
    <2>2. CASE Replay(c)
      BY <2>2 DEF Replay, AnyKey, Replayable
    <2> QED
      BY <2>1, <2>2
  <1>2. txn[c].ops + 1 \in 0..MaxOps
    <2>1. txn[c].ops < MaxOps
      BY DEF Enqueue, Replay, MayRequest
    <2>2. txn[c].ops \in 0..MaxOps
      BY TxnTypes
    <2> QED
      BY <2>1, <2>2, OpsAssumption
  <1> DEFINE n == txn[c].ops + 1
             r == [txn[c] EXCEPT !.at = "inserting", !.key = k, !.source = s, !.ops = n]
  <1>3. txn' = [txn EXCEPT ![c] = r]
    BY <1>0, <1>1
  <1>4. /\ r \in Txn /\ r.at = "inserting" /\ r.key = k /\ r.source = s
        /\ r.wrote = txn[c].wrote /\ r.told = txn[c].told /\ r.seen = txn[c].seen
        /\ r.undone = txn[c].undone
    <2> HIDE DEF n
    <2>1. n \in 0..MaxOps
      BY <1>2 DEF n
    <2> QED
      BY <1>0, <2>1 DEF Txn
  <1> HIDE DEF r
  <1>5. txn'[c] = r /\ OnlyTxn(c)
    BY <1>3, <1>4, TxnBecomes
  <1> QED
    BY <1>1, <1>4, <1>5 DEF Enqueue, Replay

\* The steps that read, or hand an error to the caller.
LEMMA ReadEffect ==
    ASSUME Types, NEW c \in Callers, Conflict(c) \/ SelectExisting(c) \/ Catch(c)
    PROVE  /\ OnlyTxn(c) /\ UNCHANGED <<row, answers>>
           /\ txn'[c].at # "inserting"
           /\ txn'[c].wrote = txn[c].wrote /\ txn'[c].told = txn[c].told
           /\ txn'[c].undone = txn[c].undone
           /\ txn'[c].seen \subseteq
                txn[c].seen \cup {[key |-> txn[c].key, id |-> i] : i \in Existing(c)}
  <1>0. txn[c] \in Txn /\ txn \in [Callers -> Txn]
    BY DEF Types
  <1>1. PICK at \in {"open", "selecting", "raised"},
             seen \in SUBSET [key : AnyKey, id : Ids] :
          /\ seen \subseteq
                txn[c].seen \cup {[key |-> txn[c].key, id |-> i] : i \in Existing(c)}
          /\ txn' = [txn EXCEPT ![c] = [txn[c] EXCEPT !.at = at, !.seen = seen]]
    <2>0. txn[c].seen \in SUBSET [key : AnyKey, id : Ids]
      BY TxnTypes
    <2>1. ASSUME NEW at \in {"open", "selecting", "raised"}, txn' = [txn EXCEPT ![c].at = at]
          PROVE  txn' = [txn EXCEPT ![c] = [txn[c] EXCEPT !.at = at, !.seen = txn[c].seen]]
      BY <1>0, <2>1 DEF Txn
    <2>2. CASE Conflict(c) \/ Catch(c)
      BY <2>0, <2>1, <2>2 DEF Conflict, Catch
    <2>3. CASE SelectExisting(c)
      <3>1. CASE Existing(c) = {}
        BY <2>0, <2>1, <2>3, <3>1 DEF SelectExisting
      <3>2. CASE Existing(c) # {}
        <4>1. PICK i \in Existing(c) :
                txn' = [txn EXCEPT ![c].at = "open",
                                   ![c].seen = @ \cup {[key |-> txn[c].key, id |-> i]}]
          BY <2>3, <3>2 DEF SelectExisting
        <4> DEFINE s == txn[c].seen \cup {[key |-> txn[c].key, id |-> i]}
        <4>2. txn' = [txn EXCEPT ![c] = [txn[c] EXCEPT !.at = "open", !.seen = s]]
          BY <1>0, <4>1
        <4>3. s \in SUBSET [key : AnyKey, id : Ids]
          BY <2>0, <4>1, TxnTypes DEF Existing
        <4>4. s \subseteq txn[c].seen \cup {[key |-> txn[c].key, id |-> x] : x \in Existing(c)}
          BY <4>1
        <4> HIDE DEF s
        <4> QED
          BY <4>2, <4>3, <4>4
      <3> QED
        BY <3>1, <3>2
    <2> QED
      BY <2>2, <2>3
  <1> DEFINE r == [txn[c] EXCEPT !.at = at, !.seen = seen]
  <1>2. /\ r \in Txn /\ r.at = at /\ r.seen = seen /\ r.wrote = txn[c].wrote
        /\ r.told = txn[c].told /\ r.undone = txn[c].undone
    BY <1>0, <1>1 DEF Txn
  <1> HIDE DEF r
  <1>3. txn'[c] = r /\ OnlyTxn(c)
    BY <1>1, <1>2, TxnBecomes DEF r
  <1> QED
    BY <1>1, <1>2, <1>3 DEF Conflict, SelectExisting, Catch

LEMMA InsertEffect ==
    ASSUME Types, NEW c \in Callers, Insert(c)
    PROVE  \E i \in Ids :
            /\ OnlyTxn(c) /\ answers' = answers /\ txn[c].at = "inserting"
            /\ ~ Blocked(c) /\ Existing(c) = {} /\ SourceThere(c)
            /\ row[i].status = "unused" /\ row' \in [Ids -> Row]
            /\ \A j \in Ids \ {i} : row'[j] = row[j]
            /\ row'[i] = [status |-> "inserted", key |-> txn[c].key, source |-> txn[c].source]
            /\ txn'[c].at = "open" /\ txn'[c].seen = txn[c].seen
            /\ txn'[c].undone = txn[c].undone
            /\ txn'[c].wrote = txn[c].wrote \cup {i} /\ txn'[c].told = txn[c].told \cup {i}
  <1>0. /\ txn[c] \in Txn /\ txn \in [Callers -> Txn] /\ row \in [Ids -> Row]
        /\ txn[c].wrote \subseteq Ids /\ txn[c].told \subseteq Ids
        /\ txn[c].key \in AnyKey /\ txn[c].source \in Ids \cup {NoId}
    BY TxnTypes DEF Types
  <1>1. PICK i \in Ids :
          /\ row[i].status = "unused"
          /\ row' = [row EXCEPT ![i] = [status |-> "inserted", key |-> txn[c].key,
                                        source |-> txn[c].source]]
          /\ txn' = [txn EXCEPT ![c].at = "open", ![c].wrote = @ \cup {i},
                                ![c].told = @ \cup {i}]
    BY DEF Insert
  <1> DEFINE W == txn[c].wrote \cup {i}
             T == txn[c].told \cup {i}
             r == [txn[c] EXCEPT !.at = "open", !.wrote = W, !.told = T]
             n == [status |-> "inserted", key |-> txn[c].key, source |-> txn[c].source]
  <1>2. txn' = [txn EXCEPT ![c] = r]
    BY <1>0, <1>1
  <1>3. /\ r \in Txn /\ r.at = "open" /\ r.seen = txn[c].seen /\ r.undone = txn[c].undone
        /\ r.wrote = W /\ r.told = T
    <2>1. W \subseteq Ids /\ T \subseteq Ids
      BY <1>0
    <2> HIDE DEF W, T
    <2> QED
      BY <1>0, <2>1 DEF Txn
  <1>4. n \in Row
    BY <1>0 DEF Row, Statuses
  <1> HIDE DEF r, n
  <1>5. txn'[c] = r /\ OnlyTxn(c)
    BY <1>2, <1>3, TxnBecomes
  <1>6. row' = [row EXCEPT ![i] = n]
    BY <1>1 DEF n
  <1>7. row' \in [Ids -> Row] /\ row'[i] = n /\ \A j \in Ids \ {i} : row'[j] = row[j]
    BY <1>0, <1>4, <1>6
  <1> QED
    BY <1>1, <1>3, <1>5, <1>7 DEF Insert, n

\* A rollback, by insert_job or by the caller.
LEMMA UndoEffect ==
    ASSUME Types, NEW c \in Callers, StatementFails(c) \/ Abandon(c)
    PROVE  /\ OnlyTxn(c) /\ answers' = answers /\ row' \in [Ids -> Row]
           /\ \A i \in Ids : row'[i] = IF i \in txn[c].wrote THEN NoRow("gone") ELSE row[i]
           /\ txn'[c].at # "inserting" /\ txn'[c].wrote = {}
           /\ txn'[c].seen \subseteq txn[c].seen
           /\ txn'[c].undone \/ txn'[c].told = {}
  <1>0. txn[c] \in Txn /\ txn \in [Callers -> Txn] /\ row \in [Ids -> Row]
    BY DEF Types
  <1>1. NoRow("gone") \in Row
    BY DEF NoRow, Row, Statuses, AnyKey
  <1>2. row' = Undone(c) /\ answers' = answers
    BY DEF StatementFails, Abandon
  <1>3. /\ row' \in [Ids -> Row]
        /\ \A i \in Ids : row'[i] = IF i \in txn[c].wrote THEN NoRow("gone") ELSE row[i]
    BY <1>0, <1>1, <1>2 DEF Undone
  <1>4. CASE StatementFails(c)
    <2> DEFINE r == [txn[c] EXCEPT !.at = "raised", !.wrote = {}, !.undone = TRUE]
    <2>1. r \in Txn /\ r.at = "raised" /\ r.wrote = {} /\ r.undone = TRUE /\ r.seen = txn[c].seen
      BY <1>0 DEF Txn
    <2>2. txn' = [txn EXCEPT ![c] = r]
      BY <1>0, <1>4 DEF StatementFails
    <2> HIDE DEF r
    <2>3. txn'[c] = r /\ OnlyTxn(c)
      BY <2>1, <2>2, TxnBecomes
    <2> QED
      BY <1>2, <1>3, <2>1, <2>3
  <1>5. CASE Abandon(c)
    <2>1. NoTxn \in Txn
      BY OpsAssumption DEF NoTxn, Txn, AnyKey
    <2>2. txn'[c] = NoTxn /\ OnlyTxn(c)
      BY <1>5, <2>1, TxnBecomes DEF Abandon
    <2> QED
      BY <1>2, <1>3, <2>2 DEF NoTxn
  <1> QED
    BY <1>4, <1>5

LEMMA CommitEffect ==
    ASSUME Types, NEW c \in Callers, Commit(c)
    PROVE  /\ OnlyTxn(c) /\ txn'[c] = NoTxn /\ row' \in [Ids -> Row]
           /\ answers' = answers \cup txn[c].seen
                                 \cup {[key |-> row[i].key, id |-> i] : i \in txn[c].wrote}
           /\ answers' \subseteq [key : AnyKey, id : Ids]
           /\ \A i \in Ids \ txn[c].wrote : row'[i] = row[i]
           /\ \A i \in txn[c].wrote : /\ row'[i].status = "active" /\ row'[i].key = row[i].key
                                      /\ row'[i].source = row[i].source
  <1>0. /\ txn[c] \in Txn /\ txn \in [Callers -> Txn] /\ row \in [Ids -> Row]
        /\ txn[c].wrote \subseteq Ids
    BY TxnTypes DEF Types
  <1>1. NoTxn \in Txn
    BY OpsAssumption DEF NoTxn, Txn, AnyKey
  <1>2. txn'[c] = NoTxn /\ OnlyTxn(c)
    BY <1>1, TxnBecomes DEF Commit
  <1>3. \A i \in Ids : /\ [row[i] EXCEPT !.status = "active"] \in Row
                       /\ [row[i] EXCEPT !.status = "active"].status = "active"
                       /\ [row[i] EXCEPT !.status = "active"].key = row[i].key
                       /\ [row[i] EXCEPT !.status = "active"].source = row[i].source
    BY <1>0 DEF Row, Statuses
  <1>4. row' = [i \in Ids |-> IF i \in txn[c].wrote THEN [row[i] EXCEPT !.status = "active"]
                              ELSE row[i]]
    BY DEF Commit
  <1>5. row' \in [Ids -> Row]
    BY <1>0, <1>3, <1>4
  <1>6. \A i \in txn[c].wrote : row[i].key \in AnyKey
    BY <1>0, RowTypes
  <1>7. answers' \subseteq [key : AnyKey, id : Ids]
    BY <1>0, <1>6, TxnTypes DEF Commit, Types
  <1> QED
    BY <1>0, <1>2, <1>3, <1>4, <1>5, <1>7 DEF Commit

\* Everybody else moves a committed row on, or deletes it.
LEMMA SettleEffect ==
    ASSUME Types, NEW i \in Ids, Settle(i)
    PROVE  /\ UNCHANGED <<txn, answers>> /\ row' \in [Ids -> Row]
           /\ row[i].status = "active" /\ row'[i].status \in {"dead", "done"}
           /\ row'[i].key = row[i].key /\ row'[i].source = row[i].source
           /\ \A j \in Ids \ {i} : row'[j] = row[j]
  <1>0. row \in [Ids -> Row] /\ row[i] \in Row
    BY DEF Types
  <1>1. PICK s \in {"dead", "done"} : row' = [row EXCEPT ![i].status = s]
    BY DEF Settle
  <1> DEFINE r == [row[i] EXCEPT !.status = s]
  <1>2. r \in Row /\ r.status = s /\ r.key = row[i].key /\ r.source = row[i].source
    BY <1>0 DEF Row, Statuses
  <1>3. row' = [row EXCEPT ![i] = r]
    BY <1>0, <1>1
  <1> HIDE DEF r
  <1> QED
    BY <1>0, <1>2, <1>3 DEF Settle

LEMMA PurgeEffect ==
    ASSUME Types, NEW i \in Ids, Purge(i)
    PROVE  /\ UNCHANGED <<txn, answers>> /\ row' \in [Ids -> Row]
           /\ row[i].status \in {"dead", "done"} /\ row'[i] = NoRow("gone")
           /\ \A j \in Ids \ {i} :
                /\ row'[j].status = row[j].status /\ row'[j].key = row[j].key
                /\ row'[j].source = IF row[j].source = i THEN NoId ELSE row[j].source
  <1>0. row \in [Ids -> Row]
    BY DEF Types
  <1>1. NoRow("gone") \in Row
    BY DEF NoRow, Row, Statuses, AnyKey
  <1>2. \A j \in Ids : /\ [row[j] EXCEPT !.source = NoId] \in Row
                       /\ [row[j] EXCEPT !.source = NoId].status = row[j].status
                       /\ [row[j] EXCEPT !.source = NoId].key = row[j].key
                       /\ [row[j] EXCEPT !.source = NoId].source = NoId
    BY <1>0 DEF Row
  <1>3. row' = [j \in Ids |-> IF j = i THEN NoRow("gone")
                              ELSE IF row[j].source = i THEN [row[j] EXCEPT !.source = NoId]
                              ELSE row[j]]
    BY DEF Purge
  <1>4. row' \in [Ids -> Row]
    BY <1>0, <1>1, <1>2, <1>3
  <1> QED
    BY <1>2, <1>3, <1>4 DEF Purge

-----------------------------------------------------------------------------
(* The invariant.  A row that is in the table or in an open transaction    *)
(* holds its key; what callers have been told stays true until the row is  *)
(* gone; a source is a finished row for as long as it is named.            *)

Live(i) == row[i].status \in {"inserted", "active", "dead", "done"}

\* An uncommitted row belongs to one open transaction.
RowsOwned ==
    /\ \A c \in Callers : \A i \in txn[c].wrote : row[i].status = "inserted"
    /\ \A c, d \in Callers : c # d => txn[c].wrote \cap txn[d].wrote = {}
    /\ \A i \in Ids : row[i].status = "inserted" => \E c \in Callers : i \in txn[c].wrote

KeysUnique ==
    \A i, j \in Ids :
        i # j /\ row[i].key = row[j].key /\ row[i].key # NoKey => ~ (Live(i) /\ Live(j))

AnswersHold ==
    \A a \in answers :
        row[a.id].status = "gone" \/ (Committed(a.id) /\ row[a.id].key = a.key)

SeenHolds ==
    \A c \in Callers : \A s \in txn[c].seen :
        \/ row[s.id].status = "gone"
        \/ row[s.id].key = s.key /\ (Committed(s.id) \/ s.id \in txn[c].wrote)

SourcesFinished ==
    \A j \in Ids :
        row[j].source # NoId =>
            /\ row[j].key = ReplayKey(row[j].source) /\ Live(j)
            /\ row[row[j].source].status \in {"dead", "done"}

RequestsChecked ==
    \A c \in Callers :
        txn[c].at = "inserting" /\ txn[c].source # NoId =>
            /\ txn[c].key = ReplayKey(txn[c].source)
            /\ row[txn[c].source].status \in {"dead", "done", "gone"}

EnqueueInv ==
    /\ Types /\ RowsOwned /\ KeysUnique /\ AnswersHold /\ SeenHolds
    /\ SourcesFinished /\ RequestsChecked

LEMMA InitEnqueue == Init => EnqueueInv
  <1> SUFFICES ASSUME Init PROVE EnqueueInv
    OBVIOUS
  <1>1. NoRow("unused") \in Row /\ NoTxn \in Txn
    BY OpsAssumption DEF NoRow, Row, Statuses, NoTxn, Txn, AnyKey
  <1>2. /\ \A i \in Ids : row[i] = NoRow("unused")
        /\ \A c \in Callers : txn[c] = NoTxn
        /\ answers = {}
    BY DEF Init
  <1>3. Types
    BY <1>1 DEF Init, Types
  <1>4. /\ NoRow("unused").status = "unused" /\ NoRow("unused").source = NoId
        /\ NoTxn.at = "idle" /\ NoTxn.wrote = {} /\ NoTxn.seen = {}
    BY DEF NoRow, NoTxn
  <1> QED
    BY <1>2, <1>3, <1>4 DEF EnqueueInv, RowsOwned, KeysUnique, AnswersHold, SeenHolds,
                            SourcesFinished, RequestsChecked, Live

\* Answers, keys and sources depend on the rows alone.
LEMMA SameRows ==
    ASSUME EnqueueInv, UNCHANGED <<row, answers>>
    PROVE  KeysUnique' /\ AnswersHold' /\ SourcesFinished'
  BY DEF EnqueueInv, KeysUnique, AnswersHold, SourcesFinished, Live, Committed

LEMMA RequestKeeps ==
    ASSUME EnqueueInv, NEW c \in Callers, Enqueue(c) \/ Replay(c)
    PROVE  EnqueueInv'
  <1>1. PICK k \in AnyKey, s \in Ids \cup {NoId} :
          /\ OnlyTxn(c) /\ UNCHANGED <<row, answers>>
          /\ s # NoId => k = ReplayKey(s) /\ row[s].status \in {"dead", "done"}
          /\ txn'[c].at = "inserting" /\ txn'[c].key = k /\ txn'[c].source = s
          /\ txn'[c].wrote = txn[c].wrote /\ txn'[c].told = txn[c].told
          /\ txn'[c].seen = txn[c].seen /\ txn'[c].undone = txn[c].undone
    BY RequestEffect DEF EnqueueInv
  <1>2. \A d \in Callers : txn'[d].wrote = txn[d].wrote /\ txn'[d].seen = txn[d].seen
    BY <1>1 DEF OnlyTxn
  <1>3. Types'
    BY <1>1 DEF EnqueueInv, Types, OnlyTxn
  <1>4. RowsOwned'
    BY <1>1, <1>2 DEF EnqueueInv, RowsOwned
  <1>5. SeenHolds'
    BY <1>1, <1>2 DEF EnqueueInv, SeenHolds, Committed
  <1>6. RequestsChecked'
    BY <1>1 DEF EnqueueInv, RequestsChecked, OnlyTxn
  <1> QED
    BY <1>1, <1>3, <1>4, <1>5, <1>6, SameRows DEF EnqueueInv

LEMMA ReadKeeps ==
    ASSUME EnqueueInv, NEW c \in Callers, Conflict(c) \/ SelectExisting(c) \/ Catch(c)
    PROVE  EnqueueInv'
  <1>1. /\ OnlyTxn(c) /\ UNCHANGED <<row, answers>> /\ txn'[c].at # "inserting"
        /\ txn'[c].wrote = txn[c].wrote
        /\ txn'[c].seen \subseteq
             txn[c].seen \cup {[key |-> txn[c].key, id |-> i] : i \in Existing(c)}
    BY ReadEffect DEF EnqueueInv
  <1>2. \A d \in Callers : txn'[d].wrote = txn[d].wrote
    BY <1>1 DEF OnlyTxn
  <1>3. Types'
    BY <1>1 DEF EnqueueInv, Types, OnlyTxn
  <1>4. RowsOwned'
    BY <1>1, <1>2 DEF EnqueueInv, RowsOwned
  <1>5. SeenHolds'
    <2> SUFFICES ASSUME NEW d \in Callers, NEW s \in txn'[d].seen
                 PROVE  \/ row[s.id].status = "gone"
                        \/ row[s.id].key = s.key /\ (Committed(s.id) \/ s.id \in txn[d].wrote)
      BY <1>1, <1>2 DEF SeenHolds, Committed
    <2>1. CASE s \in txn[d].seen
      BY <2>1 DEF EnqueueInv, SeenHolds
    <2>2. CASE s \notin txn[d].seen
      <3>1. d = c
        BY <1>1, <2>2 DEF OnlyTxn
      <3>2. PICK i \in Existing(c) : s = [key |-> txn[c].key, id |-> i]
        BY <1>1, <2>2, <3>1
      <3> QED
        BY <3>1, <3>2 DEF Existing
    <2> QED
      BY <2>1, <2>2
  <1>6. RequestsChecked'
    BY <1>1 DEF EnqueueInv, RequestsChecked, OnlyTxn
  <1> QED
    BY <1>1, <1>3, <1>4, <1>5, <1>6, SameRows DEF EnqueueInv

LEMMA InsertKeeps ==
    ASSUME EnqueueInv, NEW c \in Callers, Insert(c)
    PROVE  EnqueueInv'
  <1>0. Types /\ row \in [Ids -> Row] /\ txn \in [Callers -> Txn]
    BY DEF EnqueueInv, Types
  <1>1. PICK i \in Ids :
          /\ OnlyTxn(c) /\ answers' = answers /\ txn[c].at = "inserting"
          /\ ~ Blocked(c) /\ Existing(c) = {} /\ SourceThere(c)
          /\ row[i].status = "unused" /\ row' \in [Ids -> Row]
          /\ \A j \in Ids \ {i} : row'[j] = row[j]
          /\ row'[i] = [status |-> "inserted", key |-> txn[c].key, source |-> txn[c].source]
          /\ txn'[c].at = "open" /\ txn'[c].seen = txn[c].seen
          /\ txn'[c].undone = txn[c].undone
          /\ txn'[c].wrote = txn[c].wrote \cup {i} /\ txn'[c].told = txn[c].told \cup {i}
    BY <1>0, InsertEffect
  <1>2. /\ row'[i].status = "inserted" /\ row'[i].key = txn[c].key
        /\ row'[i].source = txn[c].source
    BY <1>1
  <1>3. Types'
    BY <1>1 DEF EnqueueInv, Types, OnlyTxn
  <1>4. RowsOwned'
    <2>1. \A d \in Callers : i \notin txn[d].wrote
      BY <1>1 DEF EnqueueInv, RowsOwned
    <2>2. \A d \in Callers : txn'[d].wrote = IF d = c THEN txn[c].wrote \cup {i} ELSE txn[d].wrote
      BY <1>1 DEF OnlyTxn
    <2>3. \A d \in Callers : \A j \in txn'[d].wrote : row'[j].status = "inserted"
      BY <1>0, <1>1, <1>2, <2>2, TxnTypes DEF EnqueueInv, RowsOwned
    <2>4. \A d, e \in Callers : d # e => txn'[d].wrote \cap txn'[e].wrote = {}
      BY <2>1, <2>2 DEF EnqueueInv, RowsOwned
    <2>5. \A j \in Ids : row'[j].status = "inserted" => \E d \in Callers : j \in txn'[d].wrote
      BY <1>1, <2>2 DEF EnqueueInv, RowsOwned
    <2> QED
      BY <2>3, <2>4, <2>5 DEF RowsOwned
  <1>5. KeysUnique'
    <2>1. ASSUME NEW j \in Ids \ {i}, txn[c].key # NoKey, row[j].key = txn[c].key PROVE ~ Live(j)
      <3>1. ~ Committed(j) /\ j \notin txn[c].wrote
        BY <1>1, <2>1 DEF Existing
      <3>2. \A d \in Callers \ {c} : j \notin txn[d].wrote
        BY <1>1, <2>1 DEF Blocked
      <3>3. row[j].status # "inserted"
        BY <3>1, <3>2 DEF EnqueueInv, RowsOwned
      <3> QED
        BY <3>1, <3>3 DEF Live, Committed
    <2> QED
      BY <1>1, <1>2, <2>1 DEF EnqueueInv, KeysUnique, Live
  <1>6. AnswersHold'
    <2> SUFFICES ASSUME NEW a \in answers
                 PROVE  \/ row'[a.id].status = "gone"
                        \/ Committed(a.id)' /\ row'[a.id].key = a.key
      BY <1>1 DEF AnswersHold
    <2>1. a.id \in Ids /\ a.id # i
      BY <1>0, <1>1 DEF EnqueueInv, AnswersHold, Types, Committed
    <2> QED
      BY <1>1, <2>1 DEF EnqueueInv, AnswersHold, Committed
  <1>7. SeenHolds'
    <2> SUFFICES ASSUME NEW d \in Callers, NEW s \in txn'[d].seen
                 PROVE  \/ row'[s.id].status = "gone"
                        \/ /\ row'[s.id].key = s.key
                           /\ Committed(s.id)' \/ s.id \in txn'[d].wrote
      BY DEF SeenHolds
    <2>1. s \in txn[d].seen /\ txn[d].wrote \subseteq txn'[d].wrote
      BY <1>1 DEF OnlyTxn
    <2>2. s.id \in Ids /\ s.id # i
      <3>1. s.id \in Ids
        BY <1>0, <2>1, TxnTypes
      <3>2. \/ row[s.id].status = "gone" \/ Committed(s.id) \/ s.id \in txn[d].wrote
        BY <2>1 DEF EnqueueInv, SeenHolds
      <3> QED
        BY <1>1, <3>1, <3>2 DEF EnqueueInv, RowsOwned, Committed
    <2> QED
      BY <1>1, <2>1, <2>2 DEF EnqueueInv, SeenHolds, Committed
  <1>8. SourcesFinished'
    <2> SUFFICES ASSUME NEW j \in Ids, row'[j].source # NoId
                 PROVE  /\ row'[j].key = ReplayKey(row'[j].source) /\ Live(j)'
                        /\ row'[row'[j].source].status \in {"dead", "done"}
      BY DEF SourcesFinished
    <2>1. CASE j = i
      <3>1. /\ txn[c].source # NoId /\ txn[c].source \in Ids
            /\ txn[c].key = ReplayKey(txn[c].source)
            /\ row[txn[c].source].status \in {"dead", "done", "gone"}
        BY <1>0, <1>1, <1>2, <2>1, TxnTypes DEF EnqueueInv, RequestsChecked
      <3>2. row[txn[c].source].status \in {"dead", "done"} /\ txn[c].source # i
        BY <1>1, <3>1 DEF SourceThere, Committed
      <3> QED
        BY <1>1, <1>2, <2>1, <3>1, <3>2 DEF Live
    <2>2. CASE j # i
      <3>1. row'[j] = row[j] /\ row[j].source \in Ids
        BY <1>0, <1>1, <2>2, RowTypes
      <3>2. row[row[j].source].status \in {"dead", "done"} /\ Live(j)
            /\ row[j].key = ReplayKey(row[j].source)
        BY <3>1 DEF EnqueueInv, SourcesFinished
      <3>3. row[j].source # i
        BY <1>1, <3>2
      <3> QED
        BY <1>1, <3>1, <3>2, <3>3 DEF Live
    <2> QED
      BY <2>1, <2>2
  <1>9. RequestsChecked'
    <2> SUFFICES ASSUME NEW d \in Callers, txn'[d].at = "inserting", txn'[d].source # NoId
                 PROVE  /\ txn'[d].key = ReplayKey(txn'[d].source)
                        /\ row'[txn'[d].source].status \in {"dead", "done", "gone"}
      BY DEF RequestsChecked
    <2>1. txn'[d] = txn[d]
      BY <1>1 DEF OnlyTxn
    <2>2. /\ txn[d].source \in Ids /\ txn[d].key = ReplayKey(txn[d].source)
          /\ row[txn[d].source].status \in {"dead", "done", "gone"}
      BY <1>0, <2>1, TxnTypes DEF EnqueueInv, RequestsChecked
    <2> QED
      BY <1>1, <2>1, <2>2
  <1> QED
    BY <1>3, <1>4, <1>5, <1>6, <1>7, <1>8, <1>9 DEF EnqueueInv

LEMMA UndoKeeps ==
    ASSUME EnqueueInv, NEW c \in Callers, StatementFails(c) \/ Abandon(c)
    PROVE  EnqueueInv'
  <1>0. Types /\ row \in [Ids -> Row] /\ txn[c].wrote \subseteq Ids
    BY TxnTypes DEF EnqueueInv, Types
  <1>1. /\ OnlyTxn(c) /\ answers' = answers /\ row' \in [Ids -> Row]
        /\ \A i \in Ids : row'[i] = IF i \in txn[c].wrote THEN NoRow("gone") ELSE row[i]
        /\ txn'[c].at # "inserting" /\ txn'[c].wrote = {}
        /\ txn'[c].seen \subseteq txn[c].seen
    BY <1>0, UndoEffect
  <1>2. /\ NoRow("gone").status = "gone" /\ NoRow("gone").source = NoId
        /\ \A i \in txn[c].wrote : row[i].status = "inserted"
    BY DEF NoRow, EnqueueInv, RowsOwned
  <1>3. Types'
    BY <1>1 DEF EnqueueInv, Types, OnlyTxn
  <1>4. RowsOwned'
    <2>1. \A d \in Callers : txn'[d].wrote = IF d = c THEN {} ELSE txn[d].wrote
      BY <1>1 DEF OnlyTxn
    <2>2. \A d \in Callers : \A j \in txn'[d].wrote : row'[j].status = "inserted"
      <3> SUFFICES ASSUME NEW d \in Callers, NEW j \in txn'[d].wrote
                   PROVE  row'[j].status = "inserted"
        OBVIOUS
      <3>1. d # c /\ j \in txn[d].wrote /\ j \in Ids
        BY <1>0, <2>1, TxnTypes
      <3>2. j \notin txn[c].wrote /\ row[j].status = "inserted"
        BY <3>1 DEF EnqueueInv, RowsOwned
      <3> QED
        BY <1>1, <3>1, <3>2
    <2>3. \A d, e \in Callers : d # e => txn'[d].wrote \cap txn'[e].wrote = {}
      BY <2>1 DEF EnqueueInv, RowsOwned
    <2>4. \A j \in Ids : row'[j].status = "inserted" => \E d \in Callers : j \in txn'[d].wrote
      BY <1>1, <1>2, <2>1 DEF EnqueueInv, RowsOwned
    <2> QED
      BY <2>2, <2>3, <2>4 DEF RowsOwned
  <1>5. KeysUnique'
    BY <1>1, <1>2 DEF EnqueueInv, KeysUnique, Live
  <1>6. AnswersHold'
    <2>1. \A a \in answers : a.id \in Ids
      BY <1>0 DEF Types
    <2> QED
      BY <1>1, <1>2, <2>1 DEF EnqueueInv, AnswersHold, Committed
  <1>7. SeenHolds'
    <2> SUFFICES ASSUME NEW d \in Callers, NEW s \in txn'[d].seen
                 PROVE  \/ row'[s.id].status = "gone"
                        \/ /\ row'[s.id].key = s.key
                           /\ Committed(s.id)' \/ s.id \in txn'[d].wrote
      BY DEF SeenHolds
    <2>1. s \in txn[d].seen /\ s.id \in Ids
      BY <1>0, <1>1, TxnTypes DEF OnlyTxn
    <2>2. CASE s.id \in txn[c].wrote
      BY <1>1, <1>2, <2>1, <2>2
    <2>3. CASE s.id \notin txn[c].wrote
      <3>1. row'[s.id] = row[s.id] /\ (s.id \in txn[d].wrote => s.id \in txn'[d].wrote)
        BY <1>1, <2>1, <2>3 DEF OnlyTxn
      <3> QED
        BY <2>1, <3>1 DEF EnqueueInv, SeenHolds, Committed
    <2> QED
      BY <2>2, <2>3
  <1>8. SourcesFinished'
    <2> SUFFICES ASSUME NEW j \in Ids, row'[j].source # NoId
                 PROVE  /\ row'[j].key = ReplayKey(row'[j].source) /\ Live(j)'
                        /\ row'[row'[j].source].status \in {"dead", "done"}
      BY DEF SourcesFinished
    <2>1. row'[j] = row[j] /\ row[j].source \in Ids
      BY <1>0, <1>1, <1>2, RowTypes
    <2>2. /\ row[row[j].source].status \in {"dead", "done"} /\ Live(j)
          /\ row[j].key = ReplayKey(row[j].source)
      BY <2>1 DEF EnqueueInv, SourcesFinished
    <2>3. row[j].source \notin txn[c].wrote
      BY <1>2, <2>2
    <2> QED
      BY <1>1, <2>1, <2>2, <2>3 DEF Live
  <1>9. RequestsChecked'
    <2> SUFFICES ASSUME NEW d \in Callers, txn'[d].at = "inserting", txn'[d].source # NoId
                 PROVE  /\ txn'[d].key = ReplayKey(txn'[d].source)
                        /\ row'[txn'[d].source].status \in {"dead", "done", "gone"}
      BY DEF RequestsChecked
    <2>1. txn'[d] = txn[d]
      BY <1>1 DEF OnlyTxn
    <2>2. /\ txn[d].source \in Ids /\ txn[d].key = ReplayKey(txn[d].source)
          /\ row[txn[d].source].status \in {"dead", "done", "gone"}
      BY <1>0, <2>1, TxnTypes DEF EnqueueInv, RequestsChecked
    <2> QED
      BY <1>1, <1>2, <2>1, <2>2
  <1> QED
    BY <1>3, <1>4, <1>5, <1>6, <1>7, <1>8, <1>9 DEF EnqueueInv

LEMMA CommitKeeps ==
    ASSUME EnqueueInv, NEW c \in Callers, Commit(c)
    PROVE  EnqueueInv'
  <1>0. Types /\ row \in [Ids -> Row] /\ txn[c].wrote \subseteq Ids
    BY TxnTypes DEF EnqueueInv, Types
  <1>1. /\ OnlyTxn(c) /\ txn'[c] = NoTxn /\ row' \in [Ids -> Row]
        /\ answers' = answers \cup txn[c].seen
                              \cup {[key |-> row[i].key, id |-> i] : i \in txn[c].wrote}
        /\ answers' \subseteq [key : AnyKey, id : Ids]
        /\ \A i \in Ids \ txn[c].wrote : row'[i] = row[i]
        /\ \A i \in txn[c].wrote : /\ row'[i].status = "active" /\ row'[i].key = row[i].key
                                   /\ row'[i].source = row[i].source
    BY <1>0, CommitEffect
  <1>2. /\ NoTxn.at = "idle" /\ NoTxn.wrote = {} /\ NoTxn.seen = {}
        /\ \A i \in txn[c].wrote : row[i].status = "inserted"
    BY DEF NoTxn, EnqueueInv, RowsOwned
  <1>3. Types'
    BY <1>1 DEF Types, OnlyTxn
  <1>4. RowsOwned'
    <2>1. \A d \in Callers : txn'[d].wrote = IF d = c THEN {} ELSE txn[d].wrote
      BY <1>1, <1>2 DEF OnlyTxn
    <2>2. \A d \in Callers : \A j \in txn'[d].wrote : row'[j].status = "inserted"
      <3> SUFFICES ASSUME NEW d \in Callers, NEW j \in txn'[d].wrote
                   PROVE  row'[j].status = "inserted"
        OBVIOUS
      <3>1. d # c /\ j \in txn[d].wrote /\ j \in Ids
        BY <1>0, <2>1, TxnTypes
      <3>2. j \notin txn[c].wrote /\ row[j].status = "inserted"
        BY <3>1 DEF EnqueueInv, RowsOwned
      <3> QED
        BY <1>1, <3>1, <3>2
    <2>3. \A d, e \in Callers : d # e => txn'[d].wrote \cap txn'[e].wrote = {}
      BY <2>1 DEF EnqueueInv, RowsOwned
    <2>4. \A j \in Ids : row'[j].status = "inserted" => \E d \in Callers : j \in txn'[d].wrote
      BY <1>1, <1>2, <2>1 DEF EnqueueInv, RowsOwned
    <2> QED
      BY <2>2, <2>3, <2>4 DEF RowsOwned
  <1>5. \A i \in Ids : row'[i].key = row[i].key /\ (Live(i)' => Live(i))
    BY <1>1, <1>2 DEF Live
  <1>6. KeysUnique'
    BY <1>5 DEF EnqueueInv, KeysUnique
  <1>7. \A i \in Ids : /\ Committed(i) => Committed(i)'
                       /\ row[i].status = "gone" => row'[i].status = "gone"
                       /\ i \in txn[c].wrote => Committed(i)'
    BY <1>1, <1>2 DEF Committed
  <1>8. AnswersHold'
    <2> SUFFICES ASSUME NEW a \in answers'
                 PROVE  \/ row'[a.id].status = "gone"
                        \/ Committed(a.id)' /\ row'[a.id].key = a.key
      BY DEF AnswersHold
    <2>0. a.id \in Ids
      BY <1>1
    <2>1. CASE a \in answers
      BY <1>5, <1>7, <2>0, <2>1 DEF EnqueueInv, AnswersHold
    <2>2. CASE a \in txn[c].seen
      BY <1>5, <1>7, <2>0, <2>2 DEF EnqueueInv, SeenHolds
    <2>3. ASSUME NEW i \in txn[c].wrote, a = [key |-> row[i].key, id |-> i]
          PROVE  Committed(a.id)' /\ row'[a.id].key = a.key
      BY <1>0, <1>5, <1>7, <2>3
    <2> QED
      BY <1>1, <2>1, <2>2, <2>3
  <1>9. SeenHolds'
    <2> SUFFICES ASSUME NEW d \in Callers, NEW s \in txn'[d].seen
                 PROVE  \/ row'[s.id].status = "gone"
                        \/ /\ row'[s.id].key = s.key
                           /\ Committed(s.id)' \/ s.id \in txn'[d].wrote
      BY DEF SeenHolds
    <2>1. txn'[d] = txn[d] /\ s \in txn[d].seen /\ s.id \in Ids
      BY <1>0, <1>1, <1>2, TxnTypes DEF OnlyTxn
    <2> QED
      BY <1>5, <1>7, <2>1 DEF EnqueueInv, SeenHolds
  <1>10. SourcesFinished'
    <2> SUFFICES ASSUME NEW j \in Ids, row'[j].source # NoId
                 PROVE  /\ row'[j].key = ReplayKey(row'[j].source) /\ Live(j)'
                        /\ row'[row'[j].source].status \in {"dead", "done"}
      BY DEF SourcesFinished
    <2>1. row'[j].source = row[j].source /\ row[j].source \in Ids
      BY <1>0, <1>1, RowTypes
    <2>2. /\ row[row[j].source].status \in {"dead", "done"} /\ Live(j)
          /\ row[j].key = ReplayKey(row[j].source)
      BY <2>1 DEF EnqueueInv, SourcesFinished
    <2>3. row[j].source \notin txn[c].wrote
      BY <1>2, <2>2
    <2>4. Live(j)'
      BY <1>1, <2>2 DEF Live
    <2> QED
      BY <1>1, <1>5, <2>1, <2>2, <2>3, <2>4
  <1>11. RequestsChecked'
    <2> SUFFICES ASSUME NEW d \in Callers, txn'[d].at = "inserting", txn'[d].source # NoId
                 PROVE  /\ txn'[d].key = ReplayKey(txn'[d].source)
                        /\ row'[txn'[d].source].status \in {"dead", "done", "gone"}
      BY DEF RequestsChecked
    <2>1. txn'[d] = txn[d]
      BY <1>1, <1>2 DEF OnlyTxn
    <2>2. /\ txn[d].source \in Ids /\ txn[d].key = ReplayKey(txn[d].source)
          /\ row[txn[d].source].status \in {"dead", "done", "gone"}
      BY <1>0, <2>1, TxnTypes DEF EnqueueInv, RequestsChecked
    <2> QED
      BY <1>1, <1>2, <2>1, <2>2
  <1> QED
    BY <1>3, <1>4, <1>6, <1>8, <1>9, <1>10, <1>11 DEF EnqueueInv

\* A row that settles, or is deleted, keeps its promises or is gone.
LEMMA OthersKeep ==
    ASSUME EnqueueInv, NEW i \in Ids, Settle(i) \/ Purge(i)
    PROVE  EnqueueInv'
  <1>0. Types /\ row \in [Ids -> Row] /\ row[i] \in Row
    BY DEF EnqueueInv, Types
  <1>1. /\ UNCHANGED <<txn, answers>> /\ row' \in [Ids -> Row]
        /\ row[i].status \in {"active", "dead", "done"}
        /\ \/ /\ row'[i].status \in {"dead", "done"} /\ row'[i].key = row[i].key
              /\ row'[i].source = row[i].source
              /\ \A j \in Ids \ {i} : row'[j] = row[j]
           \/ /\ row'[i].status = "gone" /\ row'[i].source = NoId
              /\ \A j \in Ids \ {i} :
                   /\ row'[j].status = row[j].status /\ row'[j].key = row[j].key
                   /\ row'[j].source = IF row[j].source = i THEN NoId ELSE row[j].source
    <2>1. CASE Settle(i)
      BY <1>0, <2>1, SettleEffect
    <2>2. CASE Purge(i)
      <3>1. NoRow("gone").status = "gone" /\ NoRow("gone").source = NoId
        BY DEF NoRow
      <3> QED
        BY <1>0, <2>2, <3>1, PurgeEffect
    <2> QED
      BY <2>1, <2>2
  <1>2. Types'
    BY <1>0, <1>1 DEF Types
  <1>3. \A j \in Ids : /\ row'[j].status = "inserted" <=> row[j].status = "inserted"
                       /\ Live(j)' => Live(j) /\ row'[j].key = row[j].key
                       /\ row[j].status = "gone" => row'[j].status = "gone"
                       /\ Committed(j) => Committed(j)' \/ row'[j].status = "gone"
                       /\ row'[j].status = "gone" \/ row'[j].key = row[j].key
    BY <1>1 DEF Live, Committed
  <1>4. RowsOwned'
    <2>1. \A d \in Callers : txn[d].wrote \subseteq Ids
      BY <1>0, TxnTypes
    <2> QED
      BY <1>1, <1>3, <2>1 DEF EnqueueInv, RowsOwned
  <1>5. KeysUnique'
    BY <1>3 DEF EnqueueInv, KeysUnique
  <1>6. AnswersHold'
    <2>1. \A a \in answers : a.id \in Ids
      BY <1>0 DEF Types
    <2> QED
      BY <1>1, <1>3, <2>1 DEF EnqueueInv, AnswersHold
  <1>7. SeenHolds'
    <2>1. \A d \in Callers : \A s \in txn[d].seen : s.id \in Ids
      BY <1>0, TxnTypes
    <2> QED
      BY <1>1, <1>3, <2>1 DEF EnqueueInv, SeenHolds
  <1>8. SourcesFinished'
    <2> SUFFICES ASSUME NEW j \in Ids, row'[j].source # NoId
                 PROVE  /\ row'[j].key = ReplayKey(row'[j].source) /\ Live(j)'
                        /\ row'[row'[j].source].status \in {"dead", "done"}
      BY DEF SourcesFinished
    <2>1. row'[j].source = row[j].source /\ row[j].source \in Ids /\ row'[j].key = row[j].key
      BY <1>0, <1>1, RowTypes
    <2>2. /\ row[row[j].source].status \in {"dead", "done"} /\ Live(j)
          /\ row[j].key = ReplayKey(row[j].source)
      BY <2>1 DEF EnqueueInv, SourcesFinished
    <2>3. row'[row[j].source].status \in {"dead", "done"}
      BY <1>1, <2>1, <2>2
    <2>4. Live(j)'
      BY <1>1, <2>2 DEF Live
    <2> QED
      BY <2>1, <2>2, <2>3, <2>4
  <1>9. RequestsChecked'
    <2> SUFFICES ASSUME NEW d \in Callers, txn[d].at = "inserting", txn[d].source # NoId
                 PROVE  /\ txn[d].key = ReplayKey(txn[d].source)
                        /\ row'[txn[d].source].status \in {"dead", "done", "gone"}
      BY <1>1 DEF RequestsChecked
    <2>1. /\ txn[d].source \in Ids /\ txn[d].key = ReplayKey(txn[d].source)
          /\ row[txn[d].source].status \in {"dead", "done", "gone"}
      BY <1>0, TxnTypes DEF EnqueueInv, RequestsChecked
    <2> QED
      BY <1>1, <2>1
  <1> QED
    BY <1>2, <1>4, <1>5, <1>6, <1>7, <1>8, <1>9 DEF EnqueueInv

LEMMA EnqueueInvariant == Spec => []EnqueueInv
  <1>1. ASSUME EnqueueInv, [Next]_vars PROVE EnqueueInv'
    <2>1. ASSUME NEW c \in Callers, CallerNext(c) PROVE EnqueueInv'
      BY <1>1, <2>1, RequestKeeps, ReadKeeps, InsertKeeps, UndoKeeps, CommitKeeps DEF CallerNext
    <2>2. ASSUME NEW i \in Ids, Settle(i) \/ Purge(i) PROVE EnqueueInv'
      BY <1>1, <2>2, OthersKeep
    <2>3. CASE UNCHANGED vars
      BY <1>1, <2>3 DEF vars, EnqueueInv, Types, RowsOwned, KeysUnique, AnswersHold, SeenHolds,
                        SourcesFinished, RequestsChecked, Live, Committed
    <2> QED
      BY <1>1, <2>1, <2>2, <2>3 DEF Next
  <1> QED
    BY <1>1, InitEnqueue, PTL DEF Spec

-----------------------------------------------------------------------------
(* The properties *)

\* Every variable keeps its type, and every uncommitted row belongs to exactly
\* one open transaction.
THEOREM EnqueueTypeCorrect == Spec => []TypeOK
  <1>1. ASSUME EnqueueInv PROVE TypeOK
    <2> SUFFICES ASSUME NEW i \in Ids
                 PROVE  row[i].status = "inserted" <=>
                            Cardinality({c \in Callers : i \in txn[c].wrote}) = 1
      BY <1>1 DEF EnqueueInv, Types, TypeOK
    <2> DEFINE S == {c \in Callers : i \in txn[c].wrote}
    <2>1. CASE row[i].status = "inserted"
      <3>1. PICK c \in Callers : i \in txn[c].wrote
        BY <1>1, <2>1 DEF EnqueueInv, RowsOwned
      <3>2. S = {c}
        BY <1>1, <3>1 DEF EnqueueInv, RowsOwned
      <3> QED
        BY <2>1, <3>2, FS_Singleton
    <2>2. CASE row[i].status # "inserted"
      <3>1. S = {}
        BY <1>1, <2>2 DEF EnqueueInv, RowsOwned
      <3> QED
        BY <2>2, <3>1, FS_EmptySet
    <2> QED
      BY <2>1, <2>2
  <1> QED
    BY <1>1, EnqueueInvariant, PTL

\* Enqueue is idempotent: committed callers that used one key were given one
\* job, as long as it has not been purged.
THEOREM KeyNamesOneJob == Spec => []SameKeySameJob
  <1>1. ASSUME EnqueueInv, NEW a \in answers, NEW b \in answers,
               a.key = b.key, a.key # NoKey, a.id # b.id
        PROVE  row[a.id].status = "gone" \/ row[b.id].status = "gone"
    <2>1. a.id \in Ids /\ b.id \in Ids
      BY <1>1 DEF EnqueueInv, Types
    <2>2. \A x \in answers : row[x.id].status = "gone" \/ (Live(x.id) /\ row[x.id].key = x.key)
      BY <1>1 DEF EnqueueInv, AnswersHold, Committed, Live
    <2> QED
      BY <1>1, <2>1, <2>2 DEF EnqueueInv, KeysUnique
  <1>2. EnqueueInv => SameKeySameJob
    BY <1>1 DEF SameKeySameJob
  <1> QED
    BY <1>2, EnqueueInvariant, PTL

\* A job has at most one replay, and only a finished job that is still in the
\* table is the source of one.
THEOREM ReplaysFounded == Spec => []ReplaysWellFounded
  <1>1. ASSUME EnqueueInv, NEW i \in Ids
        PROVE  LET replays == {j \in Ids : row[j].source = i} IN
               /\ Cardinality(replays) <= 1
               /\ replays # {} => row[i].status \in {"dead", "done"}
    <2> DEFINE replays == {j \in Ids : row[j].source = i}
    <2>0. i # NoId /\ ReplayKey(i) # NoKey
      BY NullAssumption DEF ReplayKey
    <2>1. \A j \in replays : /\ row[j].key = ReplayKey(i) /\ Live(j)
                             /\ row[i].status \in {"dead", "done"}
      BY <1>1, <2>0 DEF EnqueueInv, SourcesFinished
    <2>2. \A j, k \in replays : j = k
      BY <1>1, <2>0, <2>1 DEF EnqueueInv, KeysUnique
    <2>3. replays = {} \/ \E j : replays = {j}
      BY <2>2
    <2>4. Cardinality(replays) <= 1
      <3>1. CASE replays = {}
        BY <3>1, FS_EmptySet
      <3>2. ASSUME NEW j, replays = {j} PROVE Cardinality(replays) <= 1
        <4>1. Cardinality({j}) = 1
          BY FS_Singleton
        <4>2. Cardinality(replays) = 1
          BY <3>2, <4>1
        <4> HIDE DEF replays
        <4> QED
          BY <4>2
      <3> QED
        BY <2>3, <3>1, <3>2
    <2> QED
      BY <2>1, <2>4
  <1>2. EnqueueInv => ReplaysWellFounded
    BY <1>1 DEF ReplaysWellFounded
  <1> QED
    BY <1>2, EnqueueInvariant, PTL

\* As long as no statement has failed the transaction holds what its caller
\* was told, between requests and in the middle of one.
ToldIsWritten == \A c \in Callers : txn[c].undone \/ txn[c].told = txn[c].wrote

\* Jobs reported to a caller leave its transaction only when a statement fails.
THEOREM OutboxHolds == Spec => []OutboxKept
  <1>1. Init => ToldIsWritten
    BY DEF Init, NoTxn, ToldIsWritten
  <1>2. ASSUME EnqueueInv, ToldIsWritten, [Next]_vars PROVE ToldIsWritten'
    <2>0. Types
      BY <1>2 DEF EnqueueInv
    <2>1. ASSUME NEW c \in Callers, CallerNext(c)
          PROVE  OnlyTxn(c) /\ (txn'[c].undone \/ txn'[c].told = txn'[c].wrote)
      <3>0. txn[c].undone \/ txn[c].told = txn[c].wrote
        BY <1>2 DEF ToldIsWritten
      <3>1. CASE Enqueue(c) \/ Replay(c)
        BY <2>0, <3>0, <3>1, RequestEffect
      <3>2. CASE Conflict(c) \/ SelectExisting(c) \/ Catch(c)
        BY <2>0, <3>0, <3>2, ReadEffect
      <3>3. CASE Insert(c)
        <4>1. PICK i \in Ids :
                /\ OnlyTxn(c) /\ txn'[c].undone = txn[c].undone
                /\ txn'[c].wrote = txn[c].wrote \cup {i}
                /\ txn'[c].told = txn[c].told \cup {i}
          BY <2>0, <3>3, InsertEffect
        <4> QED
          BY <3>0, <4>1
      <3>4. CASE StatementFails(c) \/ Abandon(c)
        BY <2>0, <3>4, UndoEffect
      <3>5. CASE Commit(c)
        <4>1. NoTxn.told = NoTxn.wrote
          BY DEF NoTxn
        <4> QED
          BY <2>0, <3>5, <4>1, CommitEffect
      <3> QED
        BY <2>1, <3>1, <3>2, <3>3, <3>4, <3>5 DEF CallerNext
    <2>2. ASSUME NEW i \in Ids, Settle(i) \/ Purge(i) PROVE txn' = txn
      BY <2>2 DEF Settle, Purge
    <2>3. ASSUME NEW c \in Callers, CallerNext(c) PROVE ToldIsWritten'
      BY <1>2, <2>1, <2>3 DEF ToldIsWritten, OnlyTxn
    <2> QED
      BY <1>2, <2>2, <2>3 DEF Next, vars, ToldIsWritten
  <1>3. ToldIsWritten => OutboxKept
    BY DEF ToldIsWritten, OutboxKept
  <1> QED
    BY <1>1, <1>2, <1>3, EnqueueInvariant, PTL DEF Spec

=============================================================================
