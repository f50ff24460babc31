-------------------------- MODULE BudgetLocksProofs --------------------------
(***************************************************************************)
(* What the row locks of the budget transactions guarantee, for any number *)
(* of requests, users, tasks and policy versions, any limits, estimates,   *)
(* fees and margin: transactions never wait for each other in a circle,    *)
(* what a reservation commits is within the limit, the statements of a     *)
(* transaction amount to one step of SponsorshipLedger, and the books      *)
(* balance.                                                                *)
(***************************************************************************)
EXTENDS BudgetLocks, FiniteSetTheorems, WellFoundedInduction, TLAPS

(* Transactions, programs and rows.                                        *)

LEMMA TxFacts ==
  ASSUME NEW t \in Txs
  PROVE  /\ t[1] \in Requests /\ t[2] \in {"api"} \cup Tasks /\ t = <<t[1], t[2]>> /\ t # None
         /\ UserOf[t[1]] \in Users /\ UserOf[t[1]] # GlobalKey /\ t[1] # GlobalKey /\ t[1] # UserOf[t[1]]
BY BudgetAssumption DEF Txs

\* A row is a request or a bucket.
LEMMA RowFacts ==
  /\ \A x \in Rows : (x \in Requests /\ x \notin Buckets) \/ (x \in Buckets /\ x \notin Requests)
  /\ Requests \subseteq Rows /\ Buckets \subseteq Rows /\ GlobalKey \in Buckets
  /\ \A u \in Users : u \in Buckets
BY BudgetAssumption DEF Rows, Buckets

\* A reservation visits the global bucket, the user's, the request; an end the
\* request, the global bucket, the user's.
LEMMA ProgramFacts ==
  ASSUME NEW t \in Txs, trans[t] \in Running
  PROVE  LET n == trans[t].next
         IN  /\ trans[t].to = "HELD" =>
                  /\ Runs(t) <=> n \in 1..5
                  /\ n = 1 => Op(t) = "insert"  /\ Row(t) = GlobalKey
                  /\ n = 2 => Op(t) = "reserve" /\ Row(t) = GlobalKey
                  /\ n = 3 => Op(t) = "insert"  /\ Row(t) = UserOf[t[1]]
                  /\ n = 4 => Op(t) = "reserve" /\ Row(t) = UserOf[t[1]]
                  /\ n = 5 => Op(t) = "move"    /\ Row(t) = t[1]
             /\ trans[t].to # "HELD" =>
                  /\ Runs(t) <=> n \in 1..3
                  /\ n = 1 => Op(t) = "move"   /\ Row(t) = t[1]
                  /\ n = 2 => Op(t) = "adjust" /\ Row(t) = GlobalKey
                  /\ n = 3 => Op(t) = "adjust" /\ Row(t) = UserOf[t[1]]
<1> DEFINE n == trans[t].next
<1>1. n \in 1..6 /\ Active(t)
  BY DEF Running, Active, Idle, Over
<1>2. CASE trans[t].to = "HELD"
  <2> DEFINE p == <<Statement("insert", GlobalKey), Statement("reserve", GlobalKey), Statement("insert", UserOf[t[1]]),
                    Statement("reserve", UserOf[t[1]]), Statement("move", t[1])>>
  <2>1. Program(t) = p
    BY <1>2 DEF Program
  <2>2. Len(p) = 5 /\ p[1] = Statement("insert", GlobalKey) /\ p[2] = Statement("reserve", GlobalKey)
        /\ p[3] = Statement("insert", UserOf[t[1]]) /\ p[4] = Statement("reserve", UserOf[t[1]])
        /\ p[5] = Statement("move", t[1])
    OBVIOUS
  <2> HIDE DEF p
  <2>3. Runs(t) <=> n \in 1..5
    BY <1>1, <2>1, <2>2 DEF Runs
  <2>4. \A op, x : Statement(op, x).op = op /\ Statement(op, x).row = x
    BY DEF Statement
  <2> QED
    BY <1>2, <2>1, <2>2, <2>3, <2>4 DEF Op, Row, Current
<1>3. CASE trans[t].to # "HELD"
  <2> DEFINE p == <<Statement("move", t[1]), Statement("adjust", GlobalKey), Statement("adjust", UserOf[t[1]])>>
  <2>1. Program(t) = p
    BY <1>3 DEF Program
  <2>2. Len(p) = 3 /\ p[1] = Statement("move", t[1]) /\ p[2] = Statement("adjust", GlobalKey)
        /\ p[3] = Statement("adjust", UserOf[t[1]])
    OBVIOUS
  <2> HIDE DEF p
  <2>3. Runs(t) <=> n \in 1..3
    BY <1>1, <2>1, <2>2 DEF Runs
  <2>4. \A op, x : Statement(op, x).op = op /\ Statement(op, x).row = x
    BY DEF Statement
  <2> QED
    BY <1>3, <2>1, <2>2, <2>3, <2>4 DEF Op, Row, Current
<1> QED
  BY <1>2, <1>3

LEMMA AmountType ==
  ASSUME NEW r \in Requests
  PROVE  Amount(r) \in Nat
<1> DEFINE num == Estimated[r] * (Unit + Margin)
<1>1. Estimated[r] \in Nat /\ Unit \in Nat /\ Unit > 0 /\ Margin \in Nat
  BY BudgetAssumption
<1>2. num \in Nat
  BY <1>1
<1> HIDE DEF num
<1>3. num \div Unit \in Nat
  BY <1>1, <1>2
<1> QED
  BY <1>3 DEF Amount, MulCeil, num

LEMMA LimitType ==
  ASSUME NEW p \in Policies, NEW b
  PROVE  LimitOf(p, b) \in Nat
BY BudgetAssumption DEF LimitOf

-----------------------------------------------------------------------------
(* Types.                                                                  *)

\* What has been written and not committed.
DraftOK ==
  /\ draft \in [Rows -> RequestRow \cup BucketRow]
  /\ \A r \in Requests : draft[r] \in RequestRow
  /\ \A b \in Buckets  : draft[b] \in BucketRow

Typed == TypeOK /\ DraftOK

LEMMA ActiveRuns ==
  ASSUME Typed, NEW t \in Txs
  PROVE  /\ Active(t) <=> trans[t] \in Running
         /\ Runs(t) => trans[t] \in Running
BY DEF Typed, TypeOK, Active, Runs, Running, Idle, Over

\* The row of a statement, and which statements there are.
LEMMA StatementFacts ==
  ASSUME Typed, NEW t \in Txs, Runs(t)
  PROVE  /\ Row(t) \in Rows /\ trans[t].next \in 1..5
         /\ Op(t) = "move" => Row(t) = t[1] /\ Row(t) \in Requests
         /\ Op(t) # "move" => Row(t) \in {GlobalKey, UserOf[t[1]]} /\ Row(t) \in Buckets
         /\ Op(t) \in {"insert", "reserve", "adjust", "move"}
         /\ Op(t) \in {"insert", "reserve"} => trans[t].to = "HELD"
         /\ Op(t) = "adjust" => trans[t].to # "HELD"
<1>1. trans[t] \in Running
  BY ActiveRuns
<1>2. trans[t].next \in 1..6
  BY <1>1 DEF Running
<1> QED
  BY <1>1, <1>2, ProgramFacts, TxFacts, RowFacts

LEMMA SeenType ==
  ASSUME Typed, NEW t \in Txs, NEW x \in Rows
  PROVE  /\ x \in Requests => Seen(t, x) \in RequestRow
         /\ x \in Buckets => Seen(t, x) \in BucketRow
BY RowFacts DEF Seen, Committed, Typed, TypeOK, DraftOK

LEMMA WrittenType ==
  ASSUME Typed, NEW t \in Txs, Runs(t)
  PROVE  /\ Row(t) \in Requests => Written(t) \in RequestRow
         /\ Row(t) \in Buckets => Written(t) \in BucketRow
<1>1. trans[t] \in Running /\ trans[t].policy \in Policies /\ trans[t].fee \in Nat /\ trans[t].to \in {"HELD", "FREED", "SETTLED"}
      /\ trans[t].fee \in Fees \cup {0}
  <2>1. trans[t] \in Running
    BY ActiveRuns
  <2>2. trans[t].policy \in Policies /\ trans[t].to \in {"HELD", "FREED", "SETTLED"} /\ trans[t].fee \in Fees \cup {0}
    BY <2>1 DEF Running
  <2>3. Fees \cup {0} \subseteq Nat
    BY BudgetAssumption
  <2> QED
    BY <2>1, <2>2, <2>3
<1>2. Amount(t[1]) \in Nat /\ LimitOf(trans[t].policy, Row(t)) \in Nat
  BY <1>1, AmountType, LimitType, TxFacts
<1>3. CASE Op(t) = "move"
  <2>1. Row(t) \in Requests /\ Row(t) \notin Buckets
    BY <1>3, StatementFacts, RowFacts
  <2>2. Written(t) = [is |-> trans[t].to, fee |-> trans[t].fee]
    BY <1>3 DEF Written
  <2> QED
    BY <1>1, <2>1, <2>2 DEF RequestRow
<1>4. CASE Op(t) # "move"
  <2>1. Row(t) \in Buckets /\ Row(t) \notin Requests /\ Row(t) \in Rows
    BY <1>4, StatementFacts, RowFacts
  <2>2. Seen(t, Row(t)) \in BucketRow
    BY <2>1, SeenType
  <2>3. CASE Op(t) = "insert"
    BY <1>2, <2>1, <2>3 DEF Written, Missing, BucketRow
  <2>4. CASE Op(t) = "reserve"
    <3> DEFINE v == Seen(t, Row(t))
    <3>1. v.reserved + Amount(t[1]) \in Nat
      BY <1>2, <2>2 DEF BucketRow
    <3>2. Written(t) = [v EXCEPT !.reserved = v.reserved + Amount(t[1]), !.limit = LimitOf(trans[t].policy, Row(t))]
      BY <2>4 DEF Written
    <3> HIDE DEF v
    <3> QED
      BY <1>2, <2>1, <2>2, <3>1, <3>2 DEF BucketRow, v
  <2>5. CASE Op(t) = "adjust"
    <3> DEFINE v == Seen(t, Row(t))
    <3>1. v.reserved \in Nat /\ v.settled \in Nat
      BY <2>2 DEF BucketRow
    <3>2. Less(v.reserved, Amount(t[1])) \in Nat /\ v.settled + trans[t].fee \in Nat
      BY <1>1, <1>2, <3>1 DEF Less
    <3>3. Written(t) = [v EXCEPT !.reserved = Less(v.reserved, Amount(t[1])), !.settled = v.settled + trans[t].fee]
      BY <2>5 DEF Written
    <3> HIDE DEF v
    <3> QED
      BY <2>1, <2>2, <3>2, <3>3 DEF BucketRow, v
  <2> QED
    BY <1>4, <2>3, <2>4, <2>5, StatementFacts
<1> QED
  BY <1>3, <1>4

LEMMA InitTyped == Init => Typed
<1> SUFFICES ASSUME Init PROVE Typed
  OBVIOUS
<1>1. status \in [Requests -> RequestRow]
  BY DEF Init, RequestRow
<1>2. bucket \in [Buckets -> BucketRow]
  <2>1. 1 \in Policies
    BY BudgetAssumption DEF Policies
  <2>2. Missing \in BucketRow /\ \A b \in Buckets : Opened(b) \in BucketRow
    BY <2>1, LimitType DEF Missing, Opened, BucketRow
  <2> QED
    BY <2>2 DEF Init
<1>3. policy \in Policies /\ shown \in [Buckets -> Policies \cup {0}] /\ trans \in [Txs -> Running \cup {Idle, Over}]
  BY BudgetAssumption DEF Init, Policies
<1>4. lock \in [Rows -> Txs \cup {None}] /\ \A x \in Rows : lock[x] = None /\ draft[x] = Committed(x)
  BY DEF Init
<1>5. DraftOK
  BY <1>1, <1>2, RowFacts DEF Init, DraftOK, Committed
<1> QED
  BY <1>1, <1>2, <1>3, <1>4, <1>5 DEF Typed, TypeOK

(* What a step does to the transactions, the locks and the drafts.         *)

\* Transaction t begins or waits.
Turns(t) ==
  /\ UNCHANGED <<status, bucket, lock, draft, policy, shown>>
  /\ \E v \in Running : trans' = [trans EXCEPT ![t] = v]

\* A transaction that ends gives its rows back.
LEMMA EndFacts ==
  ASSUME Typed, NEW t \in Txs, Ends(t)
  PROVE  /\ trans' = [trans EXCEPT ![t] = Rest(t)] /\ Rest(t) \in {Idle, Over}
         /\ lock' \in [Rows -> Txs \cup {None}]
         /\ \A x \in Rows : /\ lock[x] = t => lock'[x] = None /\ draft'[x] = Committed(x)'
                            /\ lock[x] # t => lock'[x] = lock[x] /\ draft'[x] = draft[x]
<1>1. lock \in [Rows -> Txs \cup {None}]
  BY DEF Typed, TypeOK
<1> QED
  BY <1>1 DEF Ends, Rest, Mine, Committed

\* The same transaction, elsewhere in its program.
Same(v, w) == v.to = w.to /\ v.fee = w.fee /\ v.policy = w.policy

\* A transaction goes on to its next statement.
LEMMA ContinueFacts ==
  ASSUME Typed, NEW t \in Txs, Runs(t), Continues(t)
  PROVE  \E v \in Running : /\ trans' = [trans EXCEPT ![t] = v]
                            /\ v.next = trans[t].next + 1 /\ Same(v, trans[t]) /\ v.waits = FALSE
<1> DEFINE v == [trans[t] EXCEPT !.next = trans[t].next + 1, !.waits = FALSE]
<1>1. trans[t] \in Running
  BY ActiveRuns
<1>2. trans[t].next \in 1..5
  BY StatementFacts
<1>3. trans[t].next + 1 \in 1..6
  BY <1>2
<1>4. v \in Running /\ v.next = trans[t].next + 1 /\ Same(v, trans[t]) /\ v.waits = FALSE
  BY <1>1, <1>3 DEF Running, Same
<1>5. trans' = [trans EXCEPT ![t] = v]
  BY DEF Continues
<1> QED
  BY <1>4, <1>5

\* A transaction waits for a row.
LEMMA WaitFacts ==
  ASSUME Typed, NEW t \in Txs, Wait(t)
  PROVE  \E v \in Running : /\ trans' = [trans EXCEPT ![t] = v]
                            /\ v.next = trans[t].next /\ Same(v, trans[t]) /\ v.waits = TRUE
<1> DEFINE v == [trans[t] EXCEPT !.waits = TRUE]
<1>1. trans[t] \in Running
  BY ActiveRuns DEF Wait
<1>2. v \in Running /\ v.next = trans[t].next /\ Same(v, trans[t]) /\ v.waits = TRUE
  BY <1>1 DEF Running, Same
<1>3. trans' = [trans EXCEPT ![t] = v]
  BY DEF Wait
<1> QED
  BY <1>2, <1>3

\* Who is active after a step of t.
LEMMA ActiveAfter ==
  ASSUME Typed, NEW t \in Txs, NEW v, trans' = [trans EXCEPT ![t] = v]
  PROVE  /\ trans'[t] = v /\ \A u \in Txs : u # t => trans'[u] = trans[u]
         /\ Active(t)' <=> v \notin {Idle, Over}
         /\ \A u \in Txs : u # t => (Active(u)' <=> Active(u))
BY DEF Typed, TypeOK, Active

LEMMA RunningActive == \A v \in Running : v \notin {Idle, Over}
BY DEF Running, Idle, Over

\* The types after a step that changes no row and no lock.
LEMMA TypedTurn ==
  ASSUME Typed, NEW t \in Txs, Turns(t)
  PROVE  Typed'
<1>1. PICK v \in Running : trans' = [trans EXCEPT ![t] = v]
  BY DEF Turns
<1>2. trans' \in [Txs -> Running \cup {Idle, Over}]
  BY <1>1 DEF Typed, TypeOK
<1>3. \A u \in Txs : Active(u) => Active(u)'
  BY <1>1, ActiveAfter, RunningActive
<1>4. \A x \in Rows : IF lock'[x] = None THEN draft'[x] = Committed(x)' ELSE trans'[lock'[x]] \notin {Idle, Over}
  <2> SUFFICES ASSUME NEW x \in Rows
               PROVE  IF lock'[x] = None THEN draft'[x] = Committed(x)' ELSE trans'[lock'[x]] \notin {Idle, Over}
    OBVIOUS
  <2>1. lock'[x] = lock[x] /\ draft'[x] = draft[x] /\ Committed(x)' = Committed(x) /\ lock[x] \in Txs \cup {None}
    BY DEF Turns, Committed, Typed, TypeOK
  <2>2. CASE lock[x] = None
    BY <2>1, <2>2 DEF Typed, TypeOK
  <2>3. CASE lock[x] \in Txs /\ lock[x] # None
    <3>1. Active(lock[x])
      BY <2>3 DEF Typed, TypeOK
    <3>2. trans'[lock[x]] \notin {Idle, Over}
      BY <2>1, <2>3, <3>1, <1>3 DEF Active
    <3> QED
      BY <2>1, <2>3, <3>2
  <2> QED
    BY <2>1, <2>2, <2>3
<1> QED
  <2>1. UNCHANGED <<status, bucket, lock, draft, policy, shown>>
    BY DEF Turns
  <2>2. DraftOK'
    BY <2>1 DEF Typed, DraftOK
  <2> QED
    BY <1>2, <1>4, <2>1, <2>2 DEF Typed, TypeOK, Active

\* What a statement writes, and where.
LEMMA WriteFacts ==
  ASSUME Typed, NEW t \in Txs, Write(t)
  PROVE  /\ Row(t) \in Rows /\ lock' \in [Rows -> Txs \cup {None}] /\ lock'[Row(t)] = t /\ draft'[Row(t)] = Written(t)
         /\ \A x \in Rows : x # Row(t) => lock'[x] = lock[x] /\ draft'[x] = draft[x]
         /\ lock[Row(t)] \in {t, None}
         /\ UNCHANGED <<status, bucket, policy, shown>> /\ \A x \in Rows : Committed(x)' = Committed(x)
<1>1. Row(t) \in Rows
  BY StatementFacts DEF Write
<1> QED
  BY <1>1 DEF Write, Locked, Committed, Typed, TypeOK, DraftOK

LEMMA TypedWrite ==
  ASSUME Typed, NEW t \in Txs, Write(t)
  PROVE  Typed'
<1>1. PICK v \in Running : trans' = [trans EXCEPT ![t] = v]
  BY ContinueFacts DEF Write
<1>2. trans' \in [Txs -> Running \cup {Idle, Over}]
  BY <1>1 DEF Typed, TypeOK
<1>3. \A u \in Txs : Active(u) => Active(u)'
  BY <1>1, ActiveAfter, RunningActive
<1>4. Active(t)' /\ t # None
  BY <1>1, ActiveAfter, RunningActive, TxFacts
<1> DEFINE y == Row(t)
<1>5. y \in Rows /\ draft' = [draft EXCEPT ![y] = Written(t)]
  BY WriteFacts DEF Write
<1>6. draft'[y] = Written(t) /\ \A x \in Rows : x # y => draft'[x] = draft[x]
  BY WriteFacts
<1>7. (y \in Requests => Written(t) \in RequestRow) /\ (y \in Buckets => Written(t) \in BucketRow)
  BY WrittenType DEF Write
<1> HIDE DEF y
<1>8. DraftOK'
  <2>1. Requests \subseteq Rows /\ Buckets \subseteq Rows /\ y \in Requests \cup Buckets
    BY <1>5, RowFacts
  <2> QED
    BY <1>5, <1>6, <1>7, <2>1 DEF Typed, DraftOK
<1>9. \A x \in Rows : IF lock'[x] = None THEN draft'[x] = Committed(x)' ELSE trans'[lock'[x]] \notin {Idle, Over}
  <2> SUFFICES ASSUME NEW x \in Rows
               PROVE  IF lock'[x] = None THEN draft'[x] = Committed(x)' ELSE trans'[lock'[x]] \notin {Idle, Over}
    OBVIOUS
  <2>1. CASE x = y
    <3>1. lock'[x] = t
      BY <2>1, WriteFacts DEF y
    <3> QED
      BY <1>4, <3>1 DEF Active
  <2>2. CASE x # y
    <3>1. lock'[x] = lock[x] /\ draft'[x] = draft[x] /\ Committed(x)' = Committed(x) /\ lock[x] \in Txs \cup {None}
      BY <2>2, WriteFacts DEF y, Typed, TypeOK
    <3>2. CASE lock[x] = None
      BY <3>1, <3>2 DEF Typed, TypeOK
    <3>3. CASE lock[x] # None
      <4>1. Active(lock[x])
        BY <3>3 DEF Typed, TypeOK
      <4>2. trans'[lock[x]] \notin {Idle, Over}
        BY <3>1, <3>3, <4>1, <1>3 DEF Active
      <4> QED
        BY <3>1, <3>3, <4>2
    <3> QED
      BY <3>2, <3>3
  <2> QED
    BY <2>1, <2>2
<1>10. UNCHANGED <<status, bucket, policy, shown>> /\ lock' \in [Rows -> Txs \cup {None}]
  BY WriteFacts
<1> QED
  BY <1>2, <1>8, <1>9, <1>10 DEF Typed, TypeOK, Active

LEMMA TypedEnds ==
  ASSUME Typed, NEW t \in Txs, Ends(t), status' \in [Requests -> RequestRow], bucket' \in [Buckets -> BucketRow],
         \A x \in Rows : lock[x] # t => Committed(x)' = Committed(x),
         policy' \in Policies, shown' \in [Buckets -> Policies \cup {0}]
  PROVE  Typed'
<1>1. trans' \in [Txs -> Running \cup {Idle, Over}]
  BY EndFacts DEF Typed, TypeOK
<1>2. \A u \in Txs : u # t => trans'[u] = trans[u]
  BY EndFacts, ActiveAfter
<1>3. \A x \in Rows : Committed(x)' \in RequestRow \cup BucketRow /\ (x \in Requests => Committed(x)' \in RequestRow)
                      /\ (x \in Buckets => Committed(x)' \in BucketRow)
  BY RowFacts DEF Committed
<1>4. DraftOK'
  <2>1. draft' = [x \in Rows |-> draft'[x]]
    BY DEF Ends
  <2>2. \A x \in Rows : /\ draft'[x] \in RequestRow \cup BucketRow
                        /\ (x \in Requests => draft'[x] \in RequestRow) /\ (x \in Buckets => draft'[x] \in BucketRow)
    BY <1>3, EndFacts DEF Typed, DraftOK
  <2> QED
    BY <2>1, <2>2, RowFacts DEF DraftOK
<1>5. \A x \in Rows : IF lock'[x] = None THEN draft'[x] = Committed(x)' ELSE trans'[lock'[x]] \notin {Idle, Over}
  <2> SUFFICES ASSUME NEW x \in Rows
               PROVE  IF lock'[x] = None THEN draft'[x] = Committed(x)' ELSE trans'[lock'[x]] \notin {Idle, Over}
    OBVIOUS
  <2>1. CASE lock[x] = t
    BY <2>1, EndFacts
  <2>2. CASE lock[x] # t
    <3>1. lock'[x] = lock[x] /\ draft'[x] = draft[x] /\ Committed(x)' = Committed(x) /\ lock[x] \in Txs \cup {None}
      BY <2>2, EndFacts DEF Typed, TypeOK
    <3>2. CASE lock[x] = None
      BY <3>1, <3>2 DEF Typed, TypeOK
    <3>3. CASE lock[x] # None
      <4>1. Active(lock[x])
        BY <3>3 DEF Typed, TypeOK
      <4> QED
        BY <1>2, <2>2, <3>1, <3>3, <4>1 DEF Active
    <3> QED
      BY <3>2, <3>3
  <2> QED
    BY <2>1, <2>2
<1> QED
  BY <1>1, <1>4, <1>5, EndFacts DEF Typed, TypeOK, Active

\* What a COMMIT makes of the rows.
LEMMA CommitFacts ==
  ASSUME Typed, NEW t \in Txs, Commit(t)
  PROVE  /\ Ends(t) /\ Active(t) /\ UNCHANGED policy
         /\ \A r \in Requests : status'[r] = IF lock[r] = t THEN draft[r] ELSE status[r]
         /\ \A b \in Buckets  : bucket'[b] = IF lock[b] = t THEN draft[b] ELSE bucket[b]
         /\ status' \in [Requests -> RequestRow] /\ bucket' \in [Buckets -> BucketRow]
         /\ \A x \in Rows : lock[x] # t => Committed(x)' = Committed(x)
<1>1. \A x \in Rows : x \in Mine(t) <=> lock[x] = t
  BY DEF Mine
<1>2. /\ \A r \in Requests : status'[r] = IF lock[r] = t THEN draft[r] ELSE status[r]
      /\ \A b \in Buckets  : bucket'[b] = IF lock[b] = t THEN draft[b] ELSE bucket[b]
  BY <1>1, RowFacts DEF Commit
<1>3. status' \in [Requests -> RequestRow]
  <2>1. \A r \in Requests : status'[r] \in RequestRow
    BY <1>2 DEF Typed, TypeOK, DraftOK
  <2> QED
    BY <2>1 DEF Commit
<1>4. bucket' \in [Buckets -> BucketRow]
  <2>1. \A b \in Buckets : bucket'[b] \in BucketRow
    BY <1>2 DEF Typed, TypeOK, DraftOK
  <2> QED
    BY <2>1 DEF Commit
<1>5. \A x \in Rows : lock[x] # t => Committed(x)' = Committed(x)
  BY <1>2, RowFacts DEF Committed
<1> QED
  BY <1>2, <1>3, <1>4, <1>5 DEF Commit

\* Every step begins or turns a transaction, writes a row, or ends one.
Effect ==
  \/ \E t \in Txs : /\ Turns(t) /\ ~Active(t) /\ trans'[t].next = 1 /\ ~trans'[t].waits
                    /\ \/ t[2] = "api" /\ trans'[t].to = "HELD" /\ status[t[1]].is = "RECEIVED"
                       \/ t[2] \in Tasks /\ trans'[t].to # "HELD" /\ status[t[1]].is # "RECEIVED"
                    /\ trans'[t].to = "FREED" => trans'[t].fee = 0
  \/ \E t \in Txs : /\ Turns(t) /\ Active(t) /\ Same(trans'[t], trans[t]) /\ trans'[t].next >= trans[t].next
                    /\ \/ trans'[t].next = trans[t].next
                       \/ trans'[t].next = trans[t].next + 1 /\ InsertNothing(t)
  \/ \E t \in Txs : Write(t)
  \/ \E t \in Txs : Active(t) /\ Ends(t) /\ UNCHANGED <<status, bucket, policy, shown>>
  \/ \E t \in Txs : Commit(t)
  \/ PutPolicy \/ UNCHANGED vars

LEMMA EffectOfStep == Typed /\ [Next]_vars => Effect
<1> SUFFICES ASSUME Typed, [Next]_vars PROVE Effect
  OBVIOUS
<1>1. ASSUME NEW r \in Requests, BeginReserve(r)
      PROVE  Effect
  <2> DEFINE t == <<r, "api">>
             v == [next |-> 1, to |-> "HELD", fee |-> 0, policy |-> policy, waits |-> FALSE]
  <2>1. t \in Txs /\ t[1] = r /\ t[2] = "api"
    BY DEF Txs
  <2>2. v \in Running /\ v.next = 1 /\ ~v.waits /\ v.to = "HELD"
    BY DEF Running, Typed, TypeOK
  <2>3. trans' = [trans EXCEPT ![t] = v] /\ status[r].is = "RECEIVED" /\ ~Active(t)
    BY <1>1 DEF BeginReserve, Starts, Active
  <2>4. Turns(t)
    BY <1>1, <2>2, <2>3 DEF BeginReserve, Turns
  <2> HIDE DEF t, v
  <2>5. trans'[t] = v
    BY <2>1, <2>3, ActiveAfter
  <2> QED
    BY <2>1, <2>2, <2>3, <2>4, <2>5 DEF Effect
<1>2. ASSUME NEW r \in Requests, NEW k \in Tasks, NEW to \in {"FREED", "SETTLED"}, NEW fee \in Fees \cup {0}, BeginEnd(r, k, to, fee)
      PROVE  Effect
  <2> DEFINE t == <<r, k>>
             v == [next |-> 1, to |-> to, fee |-> fee, policy |-> 1, waits |-> FALSE]
  <2>1. t \in Txs /\ t[1] = r /\ t[2] \in Tasks
    BY DEF Txs
  <2>2. v \in Running /\ v.next = 1 /\ ~v.waits /\ v.to # "HELD" /\ (v.to = "FREED" => v.fee = 0)
    BY <1>2, BudgetAssumption DEF Running, Policies, BeginEnd
  <2>3. trans' = [trans EXCEPT ![t] = v] /\ status[r].is # "RECEIVED" /\ ~Active(t)
    BY <1>2 DEF BeginEnd, Starts, Active
  <2>4. Turns(t)
    BY <1>2, <2>2, <2>3 DEF BeginEnd, Turns
  <2> HIDE DEF t, v
  <2>5. trans'[t] = v
    BY <2>1, <2>3, ActiveAfter
  <2> QED
    BY <2>1, <2>2, <2>3, <2>4, <2>5 DEF Effect
<1>3. ASSUME NEW t \in Txs, Wait(t) \/ InsertNothing(t)
      PROVE  Effect
  <2>1. Active(t) /\ Runs(t) /\ UNCHANGED <<status, bucket, lock, draft, policy, shown>>
    BY <1>3 DEF Wait, InsertNothing, Runs
  <2>2. trans[t].next \in Nat
    BY <2>1, StatementFacts
  <2>3. PICK v \in Running : /\ trans' = [trans EXCEPT ![t] = v] /\ Same(v, trans[t])
                             /\ v.next = trans[t].next \/ (v.next = trans[t].next + 1 /\ InsertNothing(t))
    <3>1. CASE Wait(t)
      BY <3>1, WaitFacts
    <3>2. CASE InsertNothing(t)
      BY <2>1, <3>2, ContinueFacts DEF InsertNothing
    <3> QED
      BY <1>3, <3>1, <3>2
  <2>4. v.next >= trans[t].next
    BY <2>2, <2>3
  <2>5. trans' = [trans EXCEPT ![t] = v]
    BY <2>3, Zenon DEF Same
  <2>6. trans'[t] = v
    BY <2>5, ActiveAfter
  <2>7. Turns(t)
    BY <2>1, <2>5 DEF Turns
  <2> QED
    BY <2>1, <2>3, <2>4, <2>6, <2>7 DEF Effect
<1>4. ASSUME NEW t \in Txs, Refuse(t) \/ Abort(t)
      PROVE  Effect
  BY <1>4 DEF Refuse, Abort, Runs, Effect
<1>5. CASE PutPolicy \/ UNCHANGED vars
  BY <1>5 DEF Effect
<1> QED
  BY <1>1, <1>2, <1>3, <1>4, <1>5 DEF Next, Effect

LEMMA TypedStep == Typed /\ [Next]_vars => Typed'
<1> SUFFICES ASSUME Typed, [Next]_vars PROVE Typed'
  OBVIOUS
<1>1. ASSUME NEW t \in Txs, Turns(t)
      PROVE  Typed'
  BY <1>1, TypedTurn
<1>2. ASSUME NEW t \in Txs, Write(t)
      PROVE  Typed'
  BY <1>2, TypedWrite
<1>3. ASSUME NEW t \in Txs, Ends(t), UNCHANGED <<status, bucket, policy, shown>>
      PROVE  Typed'
  <2>1. status' \in [Requests -> RequestRow] /\ bucket' \in [Buckets -> BucketRow] /\ policy' \in Policies
        /\ shown' \in [Buckets -> Policies \cup {0}] /\ \A x \in Rows : Committed(x)' = Committed(x)
    BY <1>3 DEF Typed, TypeOK, Committed
  <2> QED
    BY <1>3, <2>1, TypedEnds
<1>4. ASSUME NEW t \in Txs, Commit(t)
      PROVE  Typed'
  <2>1. trans[t].policy \in Policies
    <3>1. trans[t] \in Running
      BY <1>4, ActiveRuns DEF Commit
    <3> QED
      BY <3>1 DEF Running
  <2>2. shown' \in [Buckets -> Policies \cup {0}] /\ policy' \in Policies
    BY <1>4, <2>1 DEF Commit, Typed, TypeOK
  <2> QED
    BY <1>4, <2>2, CommitFacts, TypedEnds
<1>5. CASE PutPolicy \/ UNCHANGED vars
  BY <1>5 DEF PutPolicy, vars, Typed, TypeOK, DraftOK, Committed, Active
<1>6. Effect
  BY EffectOfStep
<1> QED
  BY <1>1, <1>2, <1>3, <1>4, <1>5, <1>6 DEF Effect, Same

\* A row that nobody holds is as committed, and who holds one is active.
THEOREM TypeCorrect == Spec => []TypeOK
<1>1. Typed => TypeOK
  BY DEF Typed
<1> QED
  BY <1>1, InitTyped, TypedStep, PTL DEF Spec
-----------------------------------------------------------------------------
(* Who holds which rows.                                                   *)

\* Transaction t is past the statements that write row x.
Behind(t, x) ==
  LET n == trans[t].next
  IN  IF trans[t].to = "HELD"
      THEN (x = GlobalKey /\ n >= 2) \/ (x = UserOf[t[1]] /\ n >= 4) \/ (x = t[1] /\ n >= 6)
      ELSE (x = t[1] /\ n >= 2) \/ (x = GlobalKey /\ n >= 3) \/ (x = UserOf[t[1]] /\ n >= 4)

LocksBehind == \A x \in Rows, t \in Txs : lock[x] = t => Behind(t, x)

\* A request is reserved before any task tries to end it.
Roles ==
  \A t \in Txs : Active(t) =>
    IF t[2] = "api" THEN trans[t].to = "HELD" /\ status[t[1]].is = "RECEIVED"
                    ELSE trans[t].to # "HELD" /\ status[t[1]].is # "RECEIVED"

DraftMoves == \A r \in Requests, t \in Txs : lock[r] = t => draft[r].is = trans[t].to

LockInv == LocksBehind /\ Roles /\ DraftMoves

LEMMA HolderActive ==
  ASSUME Typed, NEW x \in Rows, NEW t \in Txs, lock[x] = t
  PROVE  Active(t) /\ trans[t] \in Running
<1>1. t # None
  BY TxFacts
<1>2. Active(t)
  BY <1>1 DEF Typed, TypeOK
<1> QED
  BY <1>2, ActiveRuns

LEMMA InitLocks == Init => LockInv
<1> SUFFICES ASSUME Init PROVE LockInv
  OBVIOUS
<1>1. \A x \in Rows, t \in Txs : lock[x] # t
  BY TxFacts DEF Init
<1>2. \A r \in Requests : r \in Rows
  BY RowFacts
<1>3. \A t \in Txs : ~Active(t)
  BY DEF Init, Active
<1> QED
  BY <1>1, <1>2, <1>3 DEF LockInv, LocksBehind, Roles, DraftMoves

\* Transaction t begins.
LEMMA LocksBegin ==
  ASSUME Typed, LockInv, NEW t \in Txs, Turns(t), ~Active(t),
         \/ t[2] = "api" /\ trans'[t].to = "HELD" /\ status[t[1]].is = "RECEIVED"
         \/ t[2] \in Tasks /\ trans'[t].to # "HELD" /\ status[t[1]].is # "RECEIVED"
  PROVE  LockInv'
<1>1. \A u \in Txs : u # t => trans'[u] = trans[u]
  BY ActiveAfter DEF Turns
<1>2. UNCHANGED <<status, lock, draft>>
  BY DEF Turns
<1>3. \A x \in Rows : lock[x] # t
  BY HolderActive
<1>4. LocksBehind'
  <2> SUFFICES ASSUME NEW x \in Rows, NEW u \in Txs, lock[x] = u
               PROVE  Behind(u, x)'
    BY <1>2 DEF LocksBehind
  <2>1. Behind(u, x) /\ trans'[u] = trans[u]
    BY <1>1, <1>3 DEF LockInv, LocksBehind
  <2> QED
    BY <2>1 DEF Behind
<1>5. DraftMoves'
  BY <1>1, <1>2, <1>3, RowFacts DEF LockInv, DraftMoves
<1>6. Roles'
  <2> SUFFICES ASSUME NEW u \in Txs, Active(u)'
               PROVE  IF u[2] = "api" THEN trans'[u].to = "HELD" /\ status[u[1]].is = "RECEIVED"
                                      ELSE trans'[u].to # "HELD" /\ status[u[1]].is # "RECEIVED"
    BY <1>2 DEF Roles
  <2>1. CASE u = t
    BY <2>1, BudgetAssumption
  <2>2. CASE u # t
    BY <1>1, <2>2 DEF LockInv, Roles, Active
  <2> QED
    BY <2>1, <2>2
<1> QED
  BY <1>4, <1>5, <1>6 DEF LockInv

\* Transaction t is the same and further on.
LEMMA BehindStays ==
  ASSUME Typed, NEW u \in Txs, NEW x, Behind(u, x), trans'[u].to = trans[u].to, trans'[u].next >= trans[u].next,
         trans[u] \in Running, trans'[u].next \in Nat
  PROVE  Behind(u, x)'
<1>1. trans[u].next \in Nat
  BY DEF Running
<1> QED
  BY <1>1 DEF Behind

LEMMA LocksTurn ==
  ASSUME Typed, LockInv, NEW t \in Txs, Turns(t), Active(t), trans'[t].next >= trans[t].next, trans'[t].to = trans[t].to
  PROVE  LockInv'
<1>1. UNCHANGED <<status, lock, draft>> /\ trans'[t] \in Running
  BY ActiveAfter DEF Turns
<1>2. \A u \in Txs : u # t => trans'[u] = trans[u]
  BY ActiveAfter DEF Turns
<1>3. trans'[t].next \in Nat
  BY <1>1 DEF Running
<1>4. LocksBehind'
  <2> SUFFICES ASSUME NEW x \in Rows, NEW u \in Txs, lock[x] = u
               PROVE  Behind(u, x)'
    BY <1>1 DEF LocksBehind
  <2>1. Behind(u, x) /\ trans[u] \in Running
    BY HolderActive DEF LockInv, LocksBehind
  <2>2. CASE u = t
    BY <1>3, <2>1, <2>2, BehindStays
  <2>3. CASE u # t
    BY <1>2, <2>1, <2>3 DEF Behind
  <2> QED
    BY <2>2, <2>3
<1>5. DraftMoves'
  BY <1>1, <1>2, RowFacts DEF LockInv, DraftMoves
<1>6. Roles'
  BY <1>1, <1>2 DEF LockInv, Roles, Active
<1> QED
  BY <1>4, <1>5, <1>6 DEF LockInv

\* Transaction t writes a row.
LEMMA LocksWrite ==
  ASSUME Typed, LockInv, NEW t \in Txs, Write(t)
  PROVE  LockInv'
<1>1. PICK v \in Running : trans' = [trans EXCEPT ![t] = v] /\ v.next = trans[t].next + 1 /\ v.to = trans[t].to
  BY ContinueFacts DEF Write, Same
<1>2. trans'[t] = v /\ \A u \in Txs : u # t => trans'[u] = trans[u]
  BY <1>1, ActiveAfter
<1>3. trans[t] \in Running /\ trans[t].next \in 1..5 /\ Runs(t) /\ Active(t)
  BY ActiveRuns, StatementFacts DEF Write, Runs
<1>4. trans'[t].next \in Nat /\ trans'[t].next >= trans[t].next
  BY <1>1, <1>2, <1>3
<1> DEFINE y == Row(t)
<1>5. \/ v.to = "HELD" /\ y = GlobalKey /\ v.next >= 2
      \/ v.to = "HELD" /\ y = UserOf[t[1]] /\ v.next >= 4
      \/ v.to = "HELD" /\ y = t[1] /\ v.next >= 6
      \/ v.to # "HELD" /\ y = t[1] /\ v.next >= 2
      \/ v.to # "HELD" /\ y = GlobalKey /\ v.next >= 3
      \/ v.to # "HELD" /\ y = UserOf[t[1]] /\ v.next >= 4
  <2>1. trans[t].next \in {1, 2, 3, 4, 5}
    BY <1>3
  <2>2. CASE trans[t].to = "HELD"
    BY <1>1, <1>3, <2>1, <2>2, ProgramFacts
  <2>3. CASE trans[t].to # "HELD"
    <3>1. trans[t].next \in {1, 2, 3}
      BY <1>3, <2>1, <2>3, ProgramFacts
    <3> QED
      BY <1>1, <1>3, <2>3, <3>1, ProgramFacts
  <2> QED
    BY <2>2, <2>3
<1>6. lock'[y] = t /\ draft'[y] = Written(t) /\ y \in Rows
      /\ \A x \in Rows : x # y => lock'[x] = lock[x] /\ draft'[x] = draft[x]
  BY WriteFacts
<1>7. y \in Requests => Written(t).is = trans[t].to
  <2> SUFFICES ASSUME y \in Requests PROVE Written(t).is = trans[t].to
    OBVIOUS
  <2>1. Op(t) = "move"
    BY <1>3, StatementFacts, RowFacts
  <2> QED
    BY <2>1 DEF Written
<1>8. UNCHANGED status
  BY DEF Write
<1> HIDE DEF y
<1>9. LocksBehind'
  <2> SUFFICES ASSUME NEW x \in Rows, NEW u \in Txs, lock'[x] = u
               PROVE  Behind(u, x)'
    BY DEF LocksBehind
  <2>1. CASE x = y
    <3>1. u = t
      BY <1>6, <2>1
    <3> QED
      BY <1>2, <1>5, <2>1, <3>1 DEF Behind
  <2>2. CASE x # y
    <3>1. lock[x] = u
      BY <1>6, <2>2
    <3>2. Behind(u, x) /\ trans[u] \in Running
      BY <3>1, HolderActive DEF LockInv, LocksBehind
    <3>3. CASE u = t
      BY <1>1, <1>2, <1>4, <3>2, <3>3, BehindStays
    <3>4. CASE u # t
      BY <1>2, <3>2, <3>4 DEF Behind
    <3> QED
      BY <3>3, <3>4
  <2> QED
    BY <2>1, <2>2
<1>10. DraftMoves'
  <2> SUFFICES ASSUME NEW r \in Requests, NEW u \in Txs, lock'[r] = u
               PROVE  draft'[r].is = trans'[u].to
    BY DEF DraftMoves
  <2>1. CASE r = y
    BY <1>1, <1>2, <1>6, <1>7, <2>1
  <2>2. CASE r # y
    BY <1>1, <1>2, <1>6, <2>2, RowFacts DEF LockInv, DraftMoves
  <2> QED
    BY <2>1, <2>2
<1>11. Roles'
  BY <1>1, <1>2, <1>3, <1>8 DEF LockInv, Roles, Active
<1> QED
  BY <1>9, <1>10, <1>11 DEF LockInv

\* What a transaction that ends leaves of the others.
LEMMA LocksEnd ==
  ASSUME Typed, LockInv, NEW t \in Txs, Active(t), Ends(t), Roles'
  PROVE  LockInv'
<1>1. \A u \in Txs : u # t => trans'[u] = trans[u]
  BY EndFacts, ActiveAfter
<1>2. \A x \in Rows, u \in Txs : lock'[x] = u => u # t /\ lock[x] = u /\ draft'[x] = draft[x]
  BY EndFacts, TxFacts
<1>3. LocksBehind'
  BY <1>1, <1>2 DEF LockInv, LocksBehind, Behind
<1>4. DraftMoves'
  BY <1>1, <1>2, RowFacts DEF LockInv, DraftMoves
<1> QED
  BY <1>3, <1>4 DEF LockInv

LEMMA LocksStep == Typed /\ LockInv /\ [Next]_vars => LockInv'
<1> SUFFICES ASSUME Typed, LockInv, [Next]_vars PROVE LockInv'
  OBVIOUS
<1>1. ASSUME NEW t \in Txs, Active(t), Ends(t), UNCHANGED <<status, bucket, policy, shown>>
      PROVE  LockInv'
  <2>1. \A u \in Txs : Active(u)' => u # t /\ trans'[u] = trans[u]
    BY <1>1, EndFacts, ActiveAfter
  <2>2. Roles'
    BY <1>1, <2>1 DEF LockInv, Roles, Active
  <2> QED
    BY <1>1, <2>2, LocksEnd
<1>2. ASSUME NEW t \in Txs, Commit(t)
      PROVE  LockInv'
  <2>1. Active(t) /\ Ends(t)
    BY <1>2, CommitFacts
  <2>2. \A u \in Txs : Active(u)' => u # t /\ trans'[u] = trans[u] /\ Active(u)
    BY <2>1, EndFacts, ActiveAfter DEF Active
  <2>3. \A r \in Requests : lock[r] = t => r = t[1]
    <3>1. \A r \in Requests : r \in Rows /\ r # GlobalKey /\ r # UserOf[t[1]]
      BY RowFacts, TxFacts
    <3> QED
      BY <3>1 DEF LockInv, LocksBehind, Behind
  <2>4. \A r \in Requests : status'[r] = status[r] \/ (r = t[1] /\ status'[r].is = trans[t].to)
    BY <1>2, <2>3, CommitFacts DEF LockInv, DraftMoves
  <2>5. Roles'
    <3> SUFFICES ASSUME NEW u \in Txs, Active(u)'
                 PROVE  IF u[2] = "api" THEN trans'[u].to = "HELD" /\ status'[u[1]].is = "RECEIVED"
                                        ELSE trans'[u].to # "HELD" /\ status'[u[1]].is # "RECEIVED"
      BY DEF Roles
    <3>1. u # t /\ trans'[u] = trans[u] /\ Active(u) /\ u[1] \in Requests /\ t[1] \in Requests
      BY <2>2, TxFacts
    <3>2. IF u[2] = "api" THEN trans[u].to = "HELD" /\ status[u[1]].is = "RECEIVED"
                          ELSE trans[u].to # "HELD" /\ status[u[1]].is # "RECEIVED"
      BY <3>1 DEF LockInv, Roles
    <3>3. IF t[2] = "api" THEN trans[t].to = "HELD" /\ status[t[1]].is = "RECEIVED"
                          ELSE trans[t].to # "HELD" /\ status[t[1]].is # "RECEIVED"
      BY <2>1 DEF LockInv, Roles
    <3>4. CASE u[1] # t[1]
      BY <2>4, <3>1, <3>2, <3>4
    <3>5. CASE u[1] = t[1]
      <4>1. u[2] # "api"
        <5> SUFFICES ASSUME u[2] = "api" PROVE FALSE
          OBVIOUS
        <5>1. t[2] = "api"
          BY <3>2, <3>3, <3>5
        <5> QED
          BY <3>1, <3>5, <5>1, TxFacts
      <4>2. t[2] # "api"
        BY <3>2, <3>3, <3>5, <4>1
      <4>3. trans[t].to \in {"FREED", "SETTLED"}
        <5>1. trans[t] \in Running
          BY <2>1, ActiveRuns
        <5> QED
          BY <3>3, <4>2, <5>1 DEF Running
      <4> QED
        BY <2>4, <3>1, <3>2, <4>1, <4>3
    <3> QED
      BY <3>4, <3>5
  <2> QED
    BY <2>1, <2>5, LocksEnd
<1>3. CASE PutPolicy \/ UNCHANGED vars
  BY <1>3 DEF PutPolicy, vars, LockInv, LocksBehind, Behind, Roles, Active, DraftMoves
<1> QED
  BY <1>1, <1>2, <1>3, EffectOfStep, LocksBegin, LocksTurn, LocksWrite DEF Effect, Same

\* Of two rows of a transaction, the one it waits for comes later.
Rank(x) == IF x \in Requests THEN 0 ELSE IF x = GlobalKey THEN 1 ELSE 2

Waits(t) == Runs(t) /\ trans[t].waits /\ lock[Row(t)] \in Txs \ {t}

\* A reservation does not wait for its request: nobody else has it.
LEMMA ApiMovesFirst ==
  ASSUME Typed, LockInv, NEW t \in Txs, Waits(t), trans[t].to = "HELD"
  PROVE  Row(t) \in Buckets
<1>1. Runs(t) /\ Active(t)
  BY DEF Waits, Runs
<1> SUFFICES ASSUME Row(t) \notin Buckets PROVE FALSE
  OBVIOUS
<1>2. Row(t) = t[1] /\ t[1] \in Requests /\ t[1] \in Rows
  BY <1>1, StatementFacts, RowFacts
<1> DEFINE u == lock[t[1]]
<1>3. u \in Txs /\ u # t
  BY <1>2 DEF Waits
<1>4. Active(u)
  BY <1>2, <1>3, HolderActive
<1>5. u[1] = t[1]
  BY <1>2, <1>3, TxFacts, RowFacts DEF LockInv, LocksBehind, Behind
<1>6. t[2] = "api" /\ status[t[1]].is = "RECEIVED"
  BY <1>1 DEF LockInv, Roles
<1>7. u[2] = "api"
  BY <1>3, <1>4, <1>5, <1>6 DEF LockInv, Roles
<1> QED
  BY <1>3, <1>5, <1>6, <1>7, TxFacts

LEMMA WaitsLater ==
  ASSUME Typed, LockInv, NEW t \in Txs, NEW x \in Rows, lock[x] = t, Waits(t)
  PROVE  Rank(x) < Rank(Row(t))
<1>1. Runs(t) /\ trans[t] \in Running /\ Behind(t, x) /\ Row(t) \in Rows /\ trans[t].next \in {1, 2, 3, 4, 5}
  BY ActiveRuns, StatementFacts DEF Waits, LockInv, LocksBehind
<1>2. x # Row(t)
  BY DEF Waits
<1>3. /\ Rank(t[1]) = 0 /\ Rank(GlobalKey) = 1 /\ Rank(UserOf[t[1]]) = 2
  BY TxFacts, RowFacts DEF Rank
<1>4. CASE trans[t].to = "HELD"
  <2>1. Row(t) # t[1]
    BY <1>4, ApiMovesFirst, TxFacts, RowFacts
  <2>2. x = GlobalKey /\ Row(t) = UserOf[t[1]]
    BY <1>1, <1>2, <1>4, <2>1, ProgramFacts DEF Behind
  <2> QED
    BY <1>3, <2>2
<1>5. CASE trans[t].to # "HELD"
  <2>1. trans[t].next \in {1, 2, 3}
    BY <1>1, <1>5, ProgramFacts
  <2>2. \/ x = t[1] /\ Row(t) \in {GlobalKey, UserOf[t[1]]}
        \/ x = GlobalKey /\ Row(t) = UserOf[t[1]]
    BY <1>1, <1>2, <1>5, <2>1, ProgramFacts DEF Behind
  <2> QED
    BY <1>3, <2>2
<1> QED
  BY <1>4, <1>5

\* Rows are waited for in the order request, global bucket, user's bucket: a
\* circle would need a fourth (packages/db/src/budgets.ts:40).
THEOREM NoDeadlockCorrect == Spec => []NoDeadlock
<1>1. Typed /\ LockInv => NoDeadlock
  <2> SUFFICES ASSUME Typed, LockInv PROVE NoDeadlock
    OBVIOUS
  <2> SUFFICES ASSUME NEW S \in (SUBSET Txs) \ {{}}
               PROVE  \E t \in S : ~(Runs(t) /\ trans[t].waits /\ lock[Row(t)] \in S \ {t})
    BY DEF NoDeadlock
  <2> SUFFICES ASSUME \A t \in S : Runs(t) /\ trans[t].waits /\ lock[Row(t)] \in S \ {t}
               PROVE  FALSE
    OBVIOUS
  <2>1. \A t \in S : t \in Txs /\ Waits(t) /\ Row(t) \in Rows /\ lock[Row(t)] \in S
    BY StatementFacts DEF Waits
  <2>2. \A t \in S : Rank(Row(t)) < Rank(Row(lock[Row(t)])) /\ Rank(Row(t)) \in 0..2
    BY <2>1, WaitsLater DEF Rank
  <2>3. PICK t \in S : TRUE
    OBVIOUS
  <2> DEFINE next(u) == lock[Row(u)]
  <2>4. next(t) \in S /\ next(next(t)) \in S /\ next(next(next(t))) \in S
    BY <2>1, <2>3
  <2>5. Rank(Row(t)) < Rank(Row(next(t))) /\ Rank(Row(next(t))) < Rank(Row(next(next(t))))
        /\ Rank(Row(next(next(t)))) < Rank(Row(next(next(next(t)))))
    BY <2>2, <2>3, <2>4
  <2> QED
    BY <2>2, <2>3, <2>4, <2>5
<1> QED
  BY <1>1, InitTyped, TypedStep, InitLocks, LocksStep, PTL DEF Spec
-----------------------------------------------------------------------------
(* What a reservation leaves of the budget.                                *)

\* A draft that reserves more than is committed fits the limit it has.
DraftFits ==
  \A b \in Buckets, t \in Txs : lock[b] = t =>
    \/ draft[b].reserved <= bucket[b].reserved
    \/ trans[t].to = "HELD" /\ draft[b].reserved + draft[b].settled <= draft[b].limit

LEMMA InitFits == Init => DraftFits
<1>1. \A b \in Buckets : b \in Rows
  BY RowFacts
<1> QED
  BY <1>1, TxFacts DEF Init, DraftFits

\* What the current statement makes of a bucket.
LEMMA WrittenFits ==
  ASSUME Typed, DraftFits, NEW t \in Txs, Write(t), Row(t) \in Buckets
  PROVE  LET v == Written(t)
         IN  \/ v.reserved <= bucket[Row(t)].reserved
             \/ trans[t].to = "HELD" /\ v.reserved + v.settled <= v.limit
<1> DEFINE b == Row(t)
           v == Seen(t, b)
<1>1. Runs(t) /\ trans[t] \in Running /\ Matches(t) /\ b \in Rows /\ lock[b] \in {t, None}
  BY ActiveRuns, StatementFacts, WriteFacts DEF Write
<1>2. v \in BucketRow /\ bucket[b] \in BucketRow
  BY <1>1, SeenType DEF Typed, TypeOK
<1>3. v.reserved \in Nat /\ v.settled \in Nat /\ v.limit \in Nat /\ bucket[b].reserved \in Nat
  BY <1>2 DEF BucketRow
<1>4. Amount(t[1]) \in Nat
  BY AmountType, TxFacts
<1>5. v.reserved <= bucket[b].reserved \/ trans[t].to = "HELD"
  <2>1. CASE lock[b] = t
    BY <2>1 DEF Seen, DraftFits
  <2>2. CASE lock[b] # t
    <3>1. v = bucket[b]
      BY <2>2, RowFacts DEF Seen, Committed
    <3> QED
      BY <1>3, <3>1
  <2> QED
    BY <2>1, <2>2
<1>6. CASE Op(t) = "insert"
  <2>1. Written(t) = [Missing EXCEPT !.exists = TRUE, !.limit = LimitOf(trans[t].policy, b)]
    BY <1>6 DEF Written
  <2>2. Written(t).reserved = 0
    BY <2>1 DEF Missing
  <2> QED
    BY <1>3, <2>2
<1>7. CASE Op(t) = "reserve"
  <2> DEFINE limit == LimitOf(trans[t].policy, b)
  <2>1. v.reserved + v.settled + Amount(t[1]) <= limit
    BY <1>1, <1>7 DEF Matches, Fits
  <2>2. Written(t) = [v EXCEPT !.reserved = v.reserved + Amount(t[1]), !.limit = limit]
    BY <1>7 DEF Written
  <2> HIDE DEF v, limit
  <2>3. Written(t).reserved = v.reserved + Amount(t[1]) /\ Written(t).settled = v.settled /\ Written(t).limit = limit
    BY <1>2, <2>2 DEF BucketRow
  <2>4. trans[t].policy \in Policies
    BY <1>1 DEF Running
  <2>5. limit \in Nat
    BY <2>4, LimitType DEF limit
  <2>6. trans[t].to = "HELD"
    BY <1>1, <1>7, StatementFacts
  <2> QED
    BY <1>3, <1>4, <2>1, <2>3, <2>5, <2>6
<1>8. CASE Op(t) = "adjust"
  <2>1. v.reserved <= bucket[b].reserved
    BY <1>1, <1>5, <1>8, StatementFacts
  <2>2. Written(t) = [v EXCEPT !.reserved = Less(v.reserved, Amount(t[1])), !.settled = v.settled + trans[t].fee]
    BY <1>8 DEF Written
  <2> HIDE DEF v
  <2>3. Written(t).reserved = Less(v.reserved, Amount(t[1]))
    BY <1>2, <2>2 DEF BucketRow
  <2>4. Less(v.reserved, Amount(t[1])) <= v.reserved /\ Less(v.reserved, Amount(t[1])) \in Nat
    BY <1>3, <1>4 DEF Less
  <2> QED
    BY <1>3, <2>1, <2>3, <2>4
<1> QED
  BY <1>1, <1>6, <1>7, <1>8, StatementFacts, RowFacts

LEMMA FitsStep == Typed /\ DraftFits /\ [Next]_vars => DraftFits'
<1> SUFFICES ASSUME Typed, DraftFits, [Next]_vars PROVE DraftFits'
  OBVIOUS
<1>1. ASSUME NEW t \in Txs, Turns(t), Active(t) => trans'[t].to = trans[t].to
      PROVE  DraftFits'
  <2>1. UNCHANGED <<bucket, lock, draft>> /\ \A u \in Txs : Active(u) => trans'[u].to = trans[u].to
    BY <1>1, ActiveAfter DEF Turns
  <2>2. \A b \in Buckets, u \in Txs : lock[b] = u => Active(u)
    BY HolderActive, RowFacts
  <2> QED
    BY <2>1, <2>2 DEF DraftFits
<1>2. ASSUME NEW t \in Txs, Write(t)
      PROVE  DraftFits'
  <2>1. \A u \in Txs : trans'[u].to = trans[u].to
    <3>1. PICK v \in Running : trans' = [trans EXCEPT ![t] = v] /\ v.to = trans[t].to
      BY <1>2, ContinueFacts DEF Write, Same
    <3> QED
      BY <3>1, ActiveAfter
  <2> SUFFICES ASSUME NEW b \in Buckets, NEW u \in Txs, lock'[b] = u
               PROVE  \/ draft'[b].reserved <= bucket[b].reserved
                      \/ trans[u].to = "HELD" /\ draft'[b].reserved + draft'[b].settled <= draft'[b].limit
    BY <1>2, <2>1 DEF DraftFits, Write
  <2>2. b \in Rows
    BY RowFacts
  <2>3. CASE b = Row(t)
    BY <1>2, <2>3, WriteFacts, WrittenFits
  <2>4. CASE b # Row(t)
    BY <1>2, <2>2, <2>4, WriteFacts DEF DraftFits
  <2> QED
    BY <2>3, <2>4
<1>3. ASSUME NEW t \in Txs, Ends(t), \A b \in Buckets : lock[b] # t => bucket'[b] = bucket[b]
      PROVE  DraftFits'
  <2>1. \A u \in Txs : u # t => trans'[u] = trans[u]
    BY <1>3, EndFacts, ActiveAfter
  <2>2. \A b \in Buckets, u \in Txs : lock'[b] = u => u # t /\ lock[b] = u /\ draft'[b] = draft[b] /\ bucket'[b] = bucket[b]
    BY <1>3, EndFacts, TxFacts, RowFacts
  <2> QED
    BY <2>1, <2>2 DEF DraftFits
<1>4. ASSUME NEW t \in Txs, Commit(t)
      PROVE  DraftFits'
  BY <1>3, <1>4, CommitFacts
<1>5. CASE PutPolicy \/ UNCHANGED vars
  BY <1>5 DEF PutPolicy, vars, DraftFits
<1>6. ASSUME NEW t \in Txs, Ends(t), UNCHANGED <<status, bucket, policy, shown>>
      PROVE  DraftFits'
  BY <1>3, <1>6
<1> QED
  BY <1>1, <1>2, <1>4, <1>5, <1>6, EffectOfStep DEF Effect, Same

\* What a COMMIT adds to a bucket is within the limit it was checked against,
\* whatever other transactions did between its statements
\* (packages/db/src/budgets.ts:26).
THEOREM ReservationFitsCorrect == Spec => ReservationFits
<1>1. Typed /\ DraftFits /\ [Next]_vars
      => [\A b \in Buckets : bucket'[b].reserved > bucket[b].reserved =>
           bucket'[b].reserved + bucket'[b].settled <= bucket'[b].limit]_vars
  <2> SUFFICES ASSUME Typed, DraftFits, [Next]_vars, NEW b \in Buckets, bucket'[b].reserved > bucket[b].reserved
               PROVE  bucket'[b].reserved + bucket'[b].settled <= bucket'[b].limit
    OBVIOUS
  <2>1. bucket'[b].reserved \in Nat /\ bucket[b].reserved \in Nat
    BY TypedStep DEF Typed, TypeOK, BucketRow
  <2>2. bucket'[b] # bucket[b] /\ ~(bucket'[b].reserved <= bucket[b].reserved)
    BY <2>1
  <2>3. PICK t \in Txs : Commit(t)
    BY <2>2, EffectOfStep DEF Effect, Same, Turns, Write, PutPolicy, vars
  <2>4. lock[b] = t /\ bucket'[b] = draft[b]
    BY <2>2, <2>3, CommitFacts
  <2> QED
    BY <2>2, <2>4 DEF DraftFits
<1> QED
  BY <1>1, InitTyped, TypedStep, InitFits, FitsStep, PTL DEF Spec, ReservationFits

-----------------------------------------------------------------------------
(* What a transaction has done so far.                                     *)

BucketsOf(r) == {GlobalKey, UserOf[r]}

\* Transaction t has changed the amounts of bucket b.
Past(t, b) ==
  LET n == trans[t].next
  IN  (b = GlobalKey /\ n >= 3) \/ (b = UserOf[t[1]] /\ n >= IF trans[t].to = "HELD" THEN 5 ELSE 4)

\* Transaction t has made sure that bucket b exists.
Opens(t, b) ==
  LET n == trans[t].next
  IN  trans[t].to = "HELD" /\ ((b = GlobalKey /\ n >= 2) \/ (b = UserOf[t[1]] /\ n >= 4))

\* What transaction `at` on request r makes of version v of bucket b is w.
Moved(at, r, b, v, w) ==
  IF at.to = "HELD"
  THEN /\ w.exists /\ w.reserved = v.reserved + Amount(r) /\ w.settled = v.settled
       /\ w.reserved + w.settled <= LimitOf(at.policy, b)
  ELSE /\ v.exists => w.exists
       /\ w.reserved = Less(v.reserved, Amount(r)) /\ w.settled = v.settled + at.fee

LEMMA MovedSame ==
  ASSUME NEW x, NEW y, Same(x, y), NEW r, NEW b, NEW v, NEW w
  PROVE  Moved(x, r, b, v, w) <=> Moved(y, r, b, v, w)
BY DEF Moved, Same

BucketDone(t, b) ==
  /\ Past(t, b) => lock[b] = t /\ Moved(trans[t], t[1], b, bucket[b], draft[b])
  /\ ~Past(t, b) /\ lock[b] = t =>
       draft[b].exists /\ draft[b].reserved = bucket[b].reserved /\ draft[b].settled = bucket[b].settled
  /\ Opens(t, b) => lock[b] = t \/ bucket[b].exists

RowDone(t) ==
  trans[t].next >= (IF trans[t].to = "HELD" THEN 6 ELSE 2) =>
    /\ lock[t[1]] = t /\ draft[t[1]] = [is |-> trans[t].to, fee |-> trans[t].fee]
    /\ trans[t].to # "HELD" => status[t[1]].is = "HELD"

Done(t) ==
  /\ RowDone(t) /\ (trans[t].to = "FREED" => trans[t].fee = 0)
  /\ \A b \in BucketsOf(t[1]) : BucketDone(t, b)

Progress == \A t \in Txs : Active(t) => Done(t)

\* A missing bucket holds nothing; the buckets of a reservation exist.
MissingEmpty == \A b \in Buckets : bucket[b].exists \/ (bucket[b].reserved = 0 /\ bucket[b].settled = 0)

HeldExists == \A r \in Requests : status[r].is # "RECEIVED" => \A b \in BucketsOf(r) : bucket[b].exists

DoneInv == Progress /\ MissingEmpty /\ HeldExists

LEMMA BucketsOfRows ==
  ASSUME NEW r \in Requests
  PROVE  /\ BucketsOf(r) \subseteq Buckets /\ BucketsOf(r) \subseteq Rows /\ r \in Rows
         /\ GlobalKey \in BucketsOf(r) /\ UserOf[r] \in BucketsOf(r) /\ GlobalKey # UserOf[r]
         /\ r \notin BucketsOf(r) /\ \A b \in BucketsOf(r) : b = GlobalKey \/ b = UserOf[r]
<1>1. UserOf[r] \in Users /\ UserOf[r] # GlobalKey
  BY BudgetAssumption
<1> QED
  BY <1>1, RowFacts DEF BucketsOf

\* A bucket before the first reservation.
LEMMA MissingFacts ==
  /\ Missing.reserved = 0 /\ Missing.settled = 0
  /\ \A b : Opened(b).exists /\ Opened(b).reserved = 0 /\ Opened(b).settled = 0
BY DEF Missing, Opened

LEMMA InitDone == Init => DoneInv
<1> SUFFICES ASSUME Init PROVE DoneInv
  OBVIOUS
<1>1. Progress
  BY DEF Init, Progress, Active
<1>2. MissingEmpty
  BY MissingFacts DEF Init, MissingEmpty
<1>3. HeldExists
  BY DEF Init, HeldExists
<1> QED
  BY <1>1, <1>2, <1>3 DEF DoneInv

\* A transaction whose rows nobody touches is where it was.
LEMMA DoneStays ==
  ASSUME Typed, NEW u \in Txs, Done(u), trans'[u] = trans[u],
         \A x \in Rows : /\ lock'[x] = u <=> lock[x] = u
                         /\ lock[x] = u => draft'[x] = draft[x] /\ Committed(x)' = Committed(x),
         \A b \in Buckets : bucket[b].exists => bucket'[b].exists
  PROVE  Done(u)'
<1>1. u[1] \in Requests /\ u[1] \in Rows /\ BucketsOf(u[1]) \subseteq Buckets /\ BucketsOf(u[1]) \subseteq Rows
  BY TxFacts, BucketsOfRows
<1>2. RowDone(u)'
  <2>1. lock[u[1]] = u => status'[u[1]] = status[u[1]]
    BY <1>1 DEF Committed
  <2> QED
    BY <1>1, <2>1 DEF Done, RowDone
<1>3. ASSUME NEW b \in BucketsOf(u[1])
      PROVE  BucketDone(u, b)'
  <2>1. b \in Buckets /\ b \in Rows /\ b \notin Requests /\ BucketDone(u, b)
    BY <1>1, RowFacts DEF Done
  <2>2. (Past(u, b)' <=> Past(u, b)) /\ (Opens(u, b)' <=> Opens(u, b))
    BY DEF Past, Opens
  <2>3. lock[b] = u => bucket'[b] = bucket[b]
    BY <2>1 DEF Committed
  <2> QED
    BY <2>1, <2>2, <2>3 DEF BucketDone
<1> QED
  BY <1>2, <1>3 DEF Done

\* What a transaction reads of a bucket it has not changed yet.
LEMMA SeenBucket ==
  ASSUME Typed, NEW t \in Txs, NEW b \in Buckets, BucketDone(t, b), ~Past(t, b)
  PROVE  LET v == Seen(t, b)
         IN  /\ v.reserved = bucket[b].reserved /\ v.settled = bucket[b].settled /\ (bucket[b].exists => v.exists)
             /\ v.exists \/ v = bucket[b]
             /\ Opens(t, b) => v.exists
<1>1. lock[b] # t => Seen(t, b) = bucket[b]
  BY RowFacts DEF Seen, Committed
<1>2. lock[b] = t => Seen(t, b) = draft[b]
  BY DEF Seen
<1> QED
  BY <1>1, <1>2 DEF BucketDone

LEMMA BucketWrite ==
  ASSUME Typed, MissingEmpty, NEW t \in Txs, Write(t), NEW b \in Buckets, Row(t) = b, BucketDone(t, b), ~Past(t, b)
  PROVE  LET w == Written(t)
         IN  /\ Op(t) = "insert" => w.exists /\ w.reserved = bucket[b].reserved /\ w.settled = bucket[b].settled
             /\ Op(t) = "reserve" /\ Opens(t, b) => Moved(trans[t], t[1], b, bucket[b], w)
             /\ Op(t) = "adjust" => Moved(trans[t], t[1], b, bucket[b], w)
<1> DEFINE v == Seen(t, b)
<1>1. /\ v.reserved = bucket[b].reserved /\ v.settled = bucket[b].settled /\ (bucket[b].exists => v.exists)
      /\ v.exists \/ v = bucket[b]
      /\ Opens(t, b) => v.exists
  BY SeenBucket
<1>2. v \in BucketRow /\ Runs(t) /\ trans[t] \in Running /\ Matches(t)
  BY SeenType, ActiveRuns, RowFacts DEF Write
<1>3. CASE Op(t) = "insert"
  <2>1. ~v.exists
    BY <1>2, <1>3 DEF Matches
  <2>2. bucket[b].reserved = 0 /\ bucket[b].settled = 0
    BY <1>1, <2>1 DEF MissingEmpty
  <2>3. Written(t) = [Missing EXCEPT !.exists = TRUE, !.limit = LimitOf(trans[t].policy, b)]
    BY <1>3 DEF Written
  <2>4. Written(t).exists = TRUE /\ Written(t).reserved = 0 /\ Written(t).settled = 0
    BY <2>3 DEF Missing
  <2> QED
    BY <1>3, <2>2, <2>4
<1>4. CASE Op(t) = "reserve"
  <2> DEFINE limit == LimitOf(trans[t].policy, b)
  <2>1. v.reserved + v.settled + Amount(t[1]) <= limit
    BY <1>2, <1>4 DEF Matches, Fits
  <2>2. Written(t) = [v EXCEPT !.reserved = v.reserved + Amount(t[1]), !.limit = limit]
    BY <1>4 DEF Written
  <2> HIDE DEF v, limit
  <2>3. Written(t).reserved = v.reserved + Amount(t[1]) /\ Written(t).settled = v.settled /\ Written(t).exists = v.exists
    BY <1>2, <2>2 DEF BucketRow
  <2>4. trans[t].to = "HELD" /\ trans[t].policy \in Policies
    BY <1>2, <1>4, StatementFacts DEF Running
  <2>5. v.reserved \in Nat /\ v.settled \in Nat /\ Amount(t[1]) \in Nat /\ limit \in Nat
    BY <1>2, <2>4, AmountType, TxFacts, LimitType DEF BucketRow, limit
  <2>6. Written(t).reserved + Written(t).settled <= limit
    BY <2>1, <2>3, <2>5
  <2> QED
    BY <1>1, <1>4, <2>3, <2>4, <2>6 DEF Moved, limit
<1>5. CASE Op(t) = "adjust"
  <2>1. Written(t) = [v EXCEPT !.reserved = Less(v.reserved, Amount(t[1])), !.settled = v.settled + trans[t].fee]
    BY <1>5 DEF Written
  <2> HIDE DEF v
  <2>2. /\ Written(t).reserved = Less(v.reserved, Amount(t[1])) /\ Written(t).settled = v.settled + trans[t].fee
        /\ Written(t).exists = v.exists
    BY <1>2, <2>1 DEF BucketRow
  <2>3. trans[t].to # "HELD"
    BY <1>2, <1>5, StatementFacts
  <2> QED
    BY <1>1, <1>5, <2>2, <2>3 DEF Moved
<1> QED
  BY <1>3, <1>4, <1>5

\* Transaction t writes a row.
LEMMA DoneWrite ==
  ASSUME Typed, LockInv, Progress, MissingEmpty, NEW t \in Txs, Write(t)
  PROVE  Done(t)'
<1>1. PICK v \in Running : trans' = [trans EXCEPT ![t] = v] /\ v.next = trans[t].next + 1 /\ Same(v, trans[t])
  BY ContinueFacts DEF Write
<1>2. trans'[t] = v /\ v.to = trans[t].to /\ v.fee = trans[t].fee /\ v.policy = trans[t].policy
  BY <1>1, ActiveAfter DEF Same
<1>3. Runs(t) /\ Active(t) /\ trans[t] \in Running /\ Matches(t)
  BY ActiveRuns DEF Write, Runs
<1>4. Done(t)
  BY <1>3 DEF Progress
<1> DEFINE y == Row(t)
           r == t[1]
           n == trans[t].next
<1>5. /\ r \in Requests /\ r \in Rows /\ BucketsOf(r) \subseteq Buckets /\ BucketsOf(r) \subseteq Rows
      /\ GlobalKey # UserOf[r] /\ r \notin BucketsOf(r) /\ \A b \in BucketsOf(r) : b = GlobalKey \/ b = UserOf[r]
      /\ r # GlobalKey /\ r # UserOf[r] /\ GlobalKey \in BucketsOf(r) /\ UserOf[r] \in BucketsOf(r)
  BY TxFacts, BucketsOfRows
<1>6. /\ lock'[y] = t /\ draft'[y] = Written(t) /\ UNCHANGED <<status, bucket>>
      /\ \A x \in Rows : x # y => lock'[x] = lock[x] /\ draft'[x] = draft[x]
  BY WriteFacts
<1>7. n \in {1, 2, 3, 4, 5} /\ (trans[t].to # "HELD" => n \in {1, 2, 3})
  BY <1>3, StatementFacts, ProgramFacts
<1>8. lock[r] = t => n >= 2
  BY <1>3, <1>5, <1>7 DEF LockInv, LocksBehind, Behind
<1>9. RowDone(t)'
  <2>1. CASE y = r
    <3>1. Op(t) = "move" /\ Written(t) = [is |-> trans[t].to, fee |-> trans[t].fee]
      BY <1>3, <1>5, <2>1, StatementFacts, RowFacts DEF Written
    <3>2. trans[t].to # "HELD" => n = 1
      BY <1>3, <1>5, <1>7, <2>1, ProgramFacts
    <3>3. trans[t].to # "HELD" => Seen(t, r) = status[r]
      BY <1>5, <1>8, <3>2 DEF Seen, Committed
    <3>4. trans[t].to # "HELD" => status[r].is = "HELD"
      BY <1>3, <2>1, <3>1, <3>3 DEF Matches
    <3> QED
      BY <1>2, <1>6, <2>1, <3>1, <3>4 DEF RowDone
  <2>2. CASE y # r
    <3>1. n + 1 >= (IF trans[t].to = "HELD" THEN 6 ELSE 2) => n >= (IF trans[t].to = "HELD" THEN 6 ELSE 2)
      BY <1>3, <1>7, <2>2, ProgramFacts
    <3> QED
      BY <1>1, <1>2, <1>4, <1>5, <1>6, <2>2, <3>1 DEF Done, RowDone
  <2> QED
    BY <2>1, <2>2
<1>10. ASSUME NEW b \in BucketsOf(r)
       PROVE  BucketDone(t, b)'
  <2>1. b \in Buckets /\ b \in Rows /\ BucketDone(t, b) /\ (b = GlobalKey \/ b = UserOf[r])
    BY <1>4, <1>5 DEF Done
  <2>2. Same(trans'[t], trans[t])
    BY <1>1, <1>2
  <2>3. CASE y # b
    <3>1. (Past(t, b)' <=> Past(t, b)) /\ (Opens(t, b)' <=> Opens(t, b))
      BY <1>1, <1>2, <1>3, <1>5, <1>7, <2>1, <2>3, ProgramFacts DEF Past, Opens
    <3> QED
      BY <1>6, <2>1, <2>2, <2>3, <3>1, MovedSame DEF BucketDone
  <2>4. CASE y = b
    <3>1. /\ Op(t) \in {"insert", "reserve", "adjust"} /\ ~Past(t, b)
          /\ Op(t) = "insert" => ~Past(t, b)'
          /\ Op(t) = "reserve" => Opens(t, b)
      BY <1>1, <1>2, <1>3, <1>5, <1>7, <2>1, <2>4, ProgramFacts DEF Past, Opens
    <3>2. /\ Op(t) = "insert" => Written(t).exists /\ Written(t).reserved = bucket[b].reserved
                                /\ Written(t).settled = bucket[b].settled
          /\ Op(t) # "insert" => Moved(trans[t], r, b, bucket[b], Written(t))
      BY <2>1, <2>4, <3>1, BucketWrite
    <3>3. lock'[b] = t /\ draft'[b] = Written(t) /\ bucket'[b] = bucket[b]
      BY <1>6, <2>4
    <3>4. Op(t) # "insert" => Moved(trans'[t], r, b, bucket'[b], draft'[b])
      BY <2>2, <3>2, <3>3, MovedSame
    <3>5. Op(t) # "insert" => Past(t, b)'
      BY <1>1, <1>2, <1>3, <1>5, <1>7, <2>1, <2>4, ProgramFacts DEF Past
    <3> QED
      BY <3>1, <3>2, <3>3, <3>4, <3>5 DEF BucketDone
  <2> QED
    BY <2>3, <2>4
<1> QED
  BY <1>2, <1>4, <1>9, <1>10 DEF Done

\* A transaction that begins has done nothing.
LEMMA DoneBegin ==
  ASSUME Typed, NEW t \in Txs, Turns(t), ~Active(t), trans'[t].next = 1, trans'[t].to = "FREED" => trans'[t].fee = 0
  PROVE  Done(t)'
<1>1. \A x \in Rows : lock'[x] # t
  BY HolderActive DEF Turns
<1>2. BucketsOf(t[1]) \subseteq Rows
  BY TxFacts, BucketsOfRows
<1> QED
  BY <1>1, <1>2 DEF Done, RowDone, BucketDone, Past, Opens

\* A transaction that waits or finds a bucket there.
LEMMA DoneTurn ==
  ASSUME Typed, NEW t \in Txs, Turns(t), Active(t), Done(t), Same(trans'[t], trans[t]),
         \/ trans'[t].next = trans[t].next
         \/ trans'[t].next = trans[t].next + 1 /\ InsertNothing(t)
  PROVE  Done(t)'
<1> DEFINE r == t[1]
           n == trans[t].next
<1>1. /\ r \in Requests /\ BucketsOf(r) \subseteq Buckets /\ BucketsOf(r) \subseteq Rows
      /\ GlobalKey # UserOf[r] /\ \A b \in BucketsOf(r) : b = GlobalKey \/ b = UserOf[r]
  BY TxFacts, BucketsOfRows
<1>2. UNCHANGED <<status, bucket, lock, draft>> /\ trans[t] \in Running /\ n \in 1..6
  BY ActiveRuns DEF Turns, Running
<1>3. trans'[t].to = trans[t].to /\ trans'[t].fee = trans[t].fee
  BY DEF Same
<1>4. CASE trans'[t].next = n
  <2>1. \A b : (Past(t, b)' <=> Past(t, b)) /\ (Opens(t, b)' <=> Opens(t, b))
    BY <1>3, <1>4 DEF Past, Opens
  <2>2. \A b \in BucketsOf(r) : BucketDone(t, b)'
    BY <1>2, <2>1, MovedSame DEF Done, BucketDone
  <2>3. RowDone(t)'
    BY <1>2, <1>3, <1>4 DEF Done, RowDone
  <2> QED
    BY <1>3, <2>2, <2>3 DEF Done
<1>5. CASE trans'[t].next = n + 1 /\ InsertNothing(t)
  <2>1. Runs(t) /\ Op(t) = "insert" /\ ~Matches(t) /\ trans[t].to = "HELD"
    BY <1>5, StatementFacts DEF InsertNothing
  <2>2. n \in {1, 3} /\ (n = 1 => Row(t) = GlobalKey) /\ (n = 3 => Row(t) = UserOf[r])
    BY <1>2, <2>1, ProgramFacts
  <2>3. RowDone(t)'
    BY <1>3, <1>5, <2>1, <2>2 DEF RowDone
  <2>4. ASSUME NEW b \in BucketsOf(r)
        PROVE  BucketDone(t, b)'
    <3>1. b \in Rows /\ b \notin Requests /\ BucketDone(t, b) /\ (b = GlobalKey \/ b = UserOf[r])
      BY <1>1, RowFacts DEF Done
    <3>2. Past(t, b)' <=> Past(t, b)
      BY <1>1, <1>3, <1>5, <2>1, <2>2, <3>1 DEF Past
    <3>3. Opens(t, b)' => Opens(t, b) \/ b = Row(t)
      BY <1>1, <1>3, <1>5, <2>1, <2>2, <3>1 DEF Opens
    <3>4. b = Row(t) => Seen(t, b).exists
      BY <2>1 DEF Matches
    <3>5. b = Row(t) => lock[b] = t \/ bucket[b].exists
      BY <3>1, <3>4 DEF Seen, Committed
    <3> QED
      BY <1>2, <3>1, <3>2, <3>3, <3>5, MovedSame DEF BucketDone
  <2> QED
    BY <1>3, <2>3, <2>4 DEF Done
<1> QED
  BY <1>4, <1>5

\* What a COMMIT amounts to.
LEMMA CommitMoves ==
  ASSUME Typed, LockInv, DoneInv, NEW t \in Txs, Commit(t)
  PROVE  LET r == t[1]
         IN  /\ status'[r] = [is |-> trans[t].to, fee |-> trans[t].fee]
             /\ \A q \in Requests : q # r => status'[q] = status[q]
             /\ status[r].is = IF trans[t].to = "HELD" THEN "RECEIVED" ELSE "HELD"
             /\ \A b \in BucketsOf(r) : Moved(trans[t], r, b, bucket[b], bucket'[b])
             /\ \A b \in Buckets : b \notin BucketsOf(r) => bucket'[b] = bucket[b]
<1> DEFINE r == t[1]
           n == trans[t].next
<1>1. Active(t) /\ trans[t] \in Running /\ ~Runs(t) /\ n \in 1..6
  BY ActiveRuns DEF Commit, Running
<1>2. n >= (IF trans[t].to = "HELD" THEN 6 ELSE 4)
  BY <1>1, ProgramFacts
<1>3. /\ r \in Requests /\ r \in Rows /\ BucketsOf(r) \subseteq Buckets /\ BucketsOf(r) \subseteq Rows
      /\ \A b \in BucketsOf(r) : b = GlobalKey \/ b = UserOf[r]
  BY TxFacts, BucketsOfRows
<1>4. Done(t)
  BY <1>1 DEF DoneInv, Progress
<1>5. /\ lock[r] = t /\ draft[r] = [is |-> trans[t].to, fee |-> trans[t].fee]
      /\ trans[t].to # "HELD" => status[r].is = "HELD"
  BY <1>1, <1>2, <1>4 DEF Done, RowDone
<1>6. \A b \in BucketsOf(r) : lock[b] = t /\ Moved(trans[t], r, b, bucket[b], draft[b])
  <2> SUFFICES ASSUME NEW b \in BucketsOf(r)
               PROVE  lock[b] = t /\ Moved(trans[t], r, b, bucket[b], draft[b])
    OBVIOUS
  <2>1. Past(t, b)
    BY <1>1, <1>2, <1>3 DEF Past
  <2> QED
    BY <1>4, <2>1 DEF Done, BucketDone
<1>7. \A x \in Rows : lock[x] = t => x = r \/ x \in BucketsOf(r)
  BY <1>1 DEF LockInv, LocksBehind, Behind, BucketsOf
<1>8. /\ status'[r] = draft[r] /\ \A q \in Requests : q # r => status'[q] = status[q]
  BY <1>3, <1>5, <1>7, CommitFacts, RowFacts, BucketsOfRows
<1>9. trans[t].to = "HELD" => status[r].is = "RECEIVED"
  BY <1>1 DEF LockInv, Roles
<1>10. \A b \in Buckets : b \notin BucketsOf(r) => bucket'[b] = bucket[b]
  BY <1>3, <1>7, CommitFacts, RowFacts
<1>11. \A b \in BucketsOf(r) : Moved(trans[t], r, b, bucket[b], bucket'[b])
  BY <1>3, <1>6, CommitFacts
<1> QED
  BY <1>5, <1>8, <1>9, <1>10, <1>11

\* After a COMMIT the buckets of the request exist.
LEMMA CommitExists ==
  ASSUME Typed, LockInv, DoneInv, NEW t \in Txs, Commit(t)
  PROVE  /\ \A b \in BucketsOf(t[1]) : bucket'[b].exists
         /\ \A b \in Buckets : bucket[b].exists => bucket'[b].exists
<1>1. t[1] \in Requests
  BY TxFacts
<1>2. ASSUME NEW b \in BucketsOf(t[1])
      PROVE  bucket'[b].exists
  <2>1. Moved(trans[t], t[1], b, bucket[b], bucket'[b])
    BY <1>2, CommitMoves
  <2>2. CASE trans[t].to = "HELD"
    BY <2>1, <2>2 DEF Moved
  <2>3. CASE trans[t].to # "HELD"
    <3>1. status[t[1]].is # "RECEIVED"
      BY <2>3, CommitMoves
    <3>2. bucket[b].exists
      BY <1>1, <3>1 DEF DoneInv, HeldExists
    <3> QED
      BY <2>1, <2>3, <3>2 DEF Moved
  <2> QED
    BY <2>2, <2>3
<1>3. \A b \in Buckets : b \notin BucketsOf(t[1]) => bucket'[b] = bucket[b]
  BY CommitMoves
<1> QED
  BY <1>2, <1>3

\* The rows and drafts of another transaction, when t ends.
LEMMA DoneOther ==
  ASSUME Typed, NEW t \in Txs, NEW u \in Txs, u # t, Done(u), Ends(t),
         \A x \in Rows : lock[x] # t => Committed(x)' = Committed(x),
         \A b \in Buckets : bucket[b].exists => bucket'[b].exists
  PROVE  Done(u)'
<1>1. trans'[u] = trans[u]
  BY EndFacts, ActiveAfter
<1>2. u # None
  BY TxFacts
<1>3. \A x \in Rows : /\ lock'[x] = u <=> lock[x] = u
                      /\ lock[x] = u => draft'[x] = draft[x] /\ Committed(x)' = Committed(x)
  BY <1>2, EndFacts
<1> QED
  BY <1>1, <1>3, DoneStays

LEMMA ProgressStep == Typed /\ LockInv /\ DoneInv /\ [Next]_vars => Progress'
<1> SUFFICES ASSUME Typed, LockInv, DoneInv, [Next]_vars PROVE Progress'
  OBVIOUS
<1>1. ASSUME NEW t \in Txs, Turns(t), Done(t)'
      PROVE  Progress'
  <2>1. \A u \in Txs : u # t => trans'[u] = trans[u]
    BY <1>1, ActiveAfter DEF Turns
  <2>2. UNCHANGED <<status, bucket, lock, draft>> /\ \A x \in Rows : Committed(x)' = Committed(x)
    BY <1>1 DEF Turns, Committed
  <2>3. ASSUME NEW u \in Txs, u # t, Active(u)'
        PROVE  Done(u)'
    <3>1. Done(u)
      BY <2>1, <2>3 DEF DoneInv, Progress, Active
    <3> QED
      BY <2>1, <2>2, <2>3, <3>1, DoneStays
  <2> QED
    BY <1>1, <2>3 DEF Progress
<1>2. ASSUME NEW t \in Txs, Write(t)
      PROVE  Progress'
  <2>1. Done(t)'
    BY <1>2, DoneWrite DEF DoneInv
  <2>2. \A u \in Txs : u # t => trans'[u] = trans[u]
    <3>1. PICK v \in Running : trans' = [trans EXCEPT ![t] = v]
      BY <1>2, ContinueFacts DEF Write
    <3> QED
      BY <3>1, ActiveAfter
  <2>3. ASSUME NEW u \in Txs, u # t, Active(u)'
        PROVE  Done(u)'
    <3>1. Done(u)
      BY <2>2, <2>3 DEF DoneInv, Progress, Active
    <3>2. u # None
      BY TxFacts
    <3>3. \A x \in Rows : /\ lock'[x] = u <=> lock[x] = u
                          /\ lock[x] = u => draft'[x] = draft[x] /\ Committed(x)' = Committed(x)
      <4> SUFFICES ASSUME NEW x \in Rows
                   PROVE  /\ lock'[x] = u <=> lock[x] = u
                          /\ lock[x] = u => draft'[x] = draft[x] /\ Committed(x)' = Committed(x)
        OBVIOUS
      <4>1. CASE x = Row(t)
        BY <1>2, <2>3, <3>2, <4>1, WriteFacts
      <4>2. CASE x # Row(t)
        BY <1>2, <4>2, WriteFacts
      <4> QED
        BY <4>1, <4>2
    <3>4. UNCHANGED bucket
      BY <1>2 DEF Write
    <3> QED
      BY <2>2, <2>3, <3>1, <3>3, <3>4, DoneStays
  <2> QED
    BY <2>1, <2>3 DEF Progress
<1>3. ASSUME NEW t \in Txs, Ends(t), \A x \in Rows : lock[x] # t => Committed(x)' = Committed(x),
             \A b \in Buckets : bucket[b].exists => bucket'[b].exists
      PROVE  Progress'
  <2>1. ASSUME NEW u \in Txs, Active(u)'
        PROVE  Done(u)'
    <3>1. u # t /\ Active(u)
      BY <1>3, <2>1, EndFacts, ActiveAfter
    <3> QED
      BY <1>3, <3>1, DoneOther DEF DoneInv, Progress
  <2> QED
    BY <2>1 DEF Progress
<1>4. ASSUME NEW t \in Txs, Turns(t), ~Active(t), trans'[t].next = 1, trans'[t].to = "FREED" => trans'[t].fee = 0
      PROVE  Progress'
  BY <1>1, <1>4, DoneBegin
<1>5. ASSUME NEW t \in Txs, Turns(t), Active(t), Same(trans'[t], trans[t]),
             trans'[t].next = trans[t].next \/ (trans'[t].next = trans[t].next + 1 /\ InsertNothing(t))
      PROVE  Progress'
  <2>1. Done(t)
    BY <1>5 DEF DoneInv, Progress
  <2> QED
    BY <1>1, <1>5, <2>1, DoneTurn
<1>6. ASSUME NEW t \in Txs, Ends(t), UNCHANGED <<status, bucket, policy, shown>>
      PROVE  Progress'
  BY <1>3, <1>6 DEF Committed
<1>7. ASSUME NEW t \in Txs, Commit(t)
      PROVE  Progress'
  BY <1>3, <1>7, CommitFacts, CommitExists
<1>8. ASSUME UNCHANGED <<status, bucket, lock, draft, trans>>
      PROVE  Progress'
  <2>1. \A u \in Txs : Active(u)' => Done(u)
    BY <1>8 DEF DoneInv, Progress, Active
  <2>2. \A x \in Rows : Committed(x)' = Committed(x)
    BY <1>8 DEF Committed
  <2>3. \A u \in Txs : Done(u) => Done(u)'
    BY <1>8, <2>2, DoneStays
  <2> QED
    BY <2>1, <2>3 DEF Progress
<1>9. CASE PutPolicy \/ UNCHANGED vars
  BY <1>8, <1>9 DEF PutPolicy, vars
<1> QED
  BY <1>2, <1>4, <1>5, <1>6, <1>7, <1>9, EffectOfStep DEF Effect

\* A step that is no COMMIT leaves the committed rows as they are.
LEMMA CommittedStep == Typed /\ [Next]_vars => UNCHANGED <<status, bucket>> \/ \E t \in Txs : Commit(t)
<1> SUFFICES ASSUME Typed, [Next]_vars, ~ \E t \in Txs : Commit(t) PROVE UNCHANGED <<status, bucket>>
  OBVIOUS
<1> QED
  BY EffectOfStep DEF Effect, Turns, Write, PutPolicy, vars

LEMMA DoneStep == Typed /\ LockInv /\ DoneInv /\ [Next]_vars => DoneInv'
<1> SUFFICES ASSUME Typed, LockInv, DoneInv, [Next]_vars PROVE DoneInv'
  OBVIOUS
<1>1. CASE UNCHANGED <<status, bucket>>
  BY <1>1, ProgressStep DEF DoneInv, MissingEmpty, HeldExists
<1>2. ASSUME NEW t \in Txs, Commit(t)
      PROVE  DoneInv'
  <2>1. MissingEmpty'
    <3> SUFFICES ASSUME NEW b \in Buckets
                 PROVE  bucket'[b].exists \/ (bucket'[b].reserved = 0 /\ bucket'[b].settled = 0)
      BY DEF MissingEmpty
    <3> QED
      BY <1>2, CommitMoves, CommitExists DEF DoneInv, MissingEmpty
  <2>2. HeldExists'
    <3> SUFFICES ASSUME NEW q \in Requests, status'[q].is # "RECEIVED", NEW b \in BucketsOf(q)
                 PROVE  bucket'[b].exists
      BY DEF HeldExists, BucketsOf
    <3>1. b \in Buckets
      BY BucketsOfRows
    <3>2. CASE q = t[1]
      BY <1>2, <3>2, CommitExists
    <3>3. CASE q # t[1]
      BY <1>2, <3>1, <3>3, CommitMoves, CommitExists DEF DoneInv, HeldExists
    <3> QED
      BY <3>2, <3>3
  <2> QED
    BY <2>1, <2>2, ProgressStep DEF DoneInv
<1> QED
  BY <1>1, <1>2, CommittedStep

-----------------------------------------------------------------------------
(* A bucket is the sum of what its requests hold: a sum is the cardinality *)
(* of a set of units.                                                      *)

Pile(f, S) == UNION {{r} \X (1..f[r]) : r \in S}

LEMMA PileOne ==
  ASSUME NEW f \in [Requests -> Nat], NEW r \in Requests
  PROVE  IsFiniteSet({r} \X (1..f[r])) /\ Cardinality({r} \X (1..f[r])) = f[r]
<1>1. f[r] \in Nat
  OBVIOUS
<1>2. IsFiniteSet(1..f[r]) /\ Cardinality(1..f[r]) = f[r]
  BY <1>1, FS_Interval
<1>3. IsFiniteSet({r}) /\ Cardinality({r}) = 1
  BY FS_Singleton
<1>4. IsFiniteSet({r} \X (1..f[r])) /\ Cardinality({r} \X (1..f[r])) = 1 * f[r]
  BY <1>2, <1>3, FS_Product
<1> QED
  BY <1>1, <1>4

\* A request more.
LEMMA PileMore ==
  ASSUME NEW f \in [Requests -> Nat], NEW S, NEW r \in Requests, r \notin S, IsFiniteSet(Pile(f, S))
  PROVE  IsFiniteSet(Pile(f, S \cup {r})) /\ Cardinality(Pile(f, S \cup {r})) = Cardinality(Pile(f, S)) + f[r]
<1> DEFINE U == Pile(f, S)
           V == {r} \X (1..f[r])
<1>1. Pile(f, S \cup {r}) = U \cup V
  BY DEF Pile
<1>2. U \cap V = {}
  <2> SUFFICES ASSUME NEW x \in Pile(f, S), x \in V PROVE FALSE
    OBVIOUS
  <2>1. PICK q \in S : x \in {q} \X (1..f[q])
    BY DEF Pile
  <2>2. x[1] = q /\ x[1] = r
    BY <2>1
  <2> QED
    BY <2>2
<1>3. IsFiniteSet(V) /\ Cardinality(V) = f[r] /\ f[r] \in Nat
  BY PileOne
<1>4. Cardinality(U \cap V) = 0
  BY <1>2, FS_EmptySet
<1> HIDE DEF U, V
<1>5. Cardinality(U) \in Nat
  BY FS_CardinalityType DEF U
<1>6. IsFiniteSet(U \cup V) /\ Cardinality(U \cup V) = Cardinality(U) + Cardinality(V) - Cardinality(U \cap V)
  BY <1>3, FS_Union DEF U
<1>7. Cardinality(U \cup V) = Cardinality(U) + f[r]
  BY <1>3, <1>4, <1>5, <1>6
<1> QED
  BY <1>1, <1>6, <1>7, Zenon DEF U

\* The same requests with the same amounts.
LEMMA PileSame ==
  ASSUME NEW f, NEW g, NEW S, \A r \in S : f[r] = g[r]
  PROVE  Pile(f, S) = Pile(g, S)
<1>1. \A r \in S : {r} \X (1..f[r]) = {r} \X (1..g[r])
  OBVIOUS
<1> QED
  BY <1>1 DEF Pile

\* What the requests of S have reserved.
Units(S) == Pile([r \in Requests |-> Amount(r)], S)

LEMMA UnitsMore ==
  ASSUME NEW S, NEW r \in Requests, r \notin S, IsFiniteSet(Units(S))
  PROVE  IsFiniteSet(Units(S \cup {r})) /\ Cardinality(Units(S \cup {r})) = Cardinality(Units(S)) + Amount(r)
<1> DEFINE f == [q \in Requests |-> Amount(q)]
<1>1. f \in [Requests -> Nat] /\ f[r] = Amount(r)
  BY AmountType
<1> HIDE DEF f
<1>2. \A R : Units(R) = Pile(f, R)
  BY DEF Units, f
<1> QED
  BY <1>1, <1>2, PileMore

\* A request less.
LEMMA UnitsLess ==
  ASSUME NEW S, NEW r \in Requests, r \in S, IsFiniteSet(Units(S))
  PROVE  /\ IsFiniteSet(Units(S \ {r})) /\ Cardinality(Units(S \ {r})) = Cardinality(Units(S)) - Amount(r)
         /\ Amount(r) <= Cardinality(Units(S))
<1>1. Units(S \ {r}) \subseteq Units(S)
  BY DEF Units, Pile
<1>2. IsFiniteSet(Units(S \ {r}))
  BY <1>1, FS_Subset
<1>3. (S \ {r}) \cup {r} = S
  OBVIOUS
<1>4. Cardinality(Units(S)) = Cardinality(Units(S \ {r})) + Amount(r)
  BY <1>2, <1>3, UnitsMore
<1>5. Cardinality(Units(S \ {r})) \in Nat /\ Amount(r) \in Nat
  BY <1>2, FS_CardinalityType, AmountType
<1> QED
  BY <1>2, <1>4, <1>5

Holders(b) == {r \in Requests : status[r].is = "HELD" /\ b \in BucketsOf(r)}

SumsOK == \A b \in Buckets : IsFiniteSet(Units(Holders(b))) /\ bucket[b].reserved = Cardinality(Units(Holders(b)))

LEMMA InitSums == Init => SumsOK
<1> SUFFICES ASSUME Init, NEW b \in Buckets
             PROVE  IsFiniteSet(Units(Holders(b))) /\ bucket[b].reserved = Cardinality(Units(Holders(b)))
  BY DEF SumsOK
<1>1. Holders(b) = {}
  BY DEF Init, Holders
<1>2. Units({}) = {}
  BY DEF Units, Pile
<1>3. bucket[b].reserved = 0
  BY MissingFacts DEF Init
<1> QED
  BY <1>1, <1>2, <1>3, FS_EmptySet

\* A release or a settlement finds at least what its request holds.
LEMMA HeldReserved ==
  ASSUME SumsOK, NEW r \in Requests, status[r].is = "HELD", NEW b \in BucketsOf(r)
  PROVE  Amount(r) <= bucket[b].reserved
<1>1. b \in Buckets /\ r \in Holders(b)
  BY BucketsOfRows DEF Holders
<1> QED
  BY <1>1, UnitsLess DEF SumsOK

LEMMA SumsCommit ==
  ASSUME Typed, LockInv, DoneInv, SumsOK, NEW t \in Txs, Commit(t)
  PROVE  SumsOK'
<1> DEFINE r == t[1]
<1>1. r \in Requests
  BY TxFacts
<1>2. /\ status'[r].is = trans[t].to /\ \A q \in Requests : q # r => status'[q] = status[q]
      /\ status[r].is = IF trans[t].to = "HELD" THEN "RECEIVED" ELSE "HELD"
  <2>1. /\ status'[r] = [is |-> trans[t].to, fee |-> trans[t].fee]
        /\ \A q \in Requests : q # r => status'[q] = status[q]
        /\ status[r].is = IF trans[t].to = "HELD" THEN "RECEIVED" ELSE "HELD"
    BY CommitMoves
  <2>2. status'[r].is = trans[t].to
    BY <2>1
  <2> QED
    BY <2>1, <2>2
<1> SUFFICES ASSUME NEW b \in Buckets
             PROVE  IsFiniteSet(Units(Holders(b)')) /\ bucket'[b].reserved = Cardinality(Units(Holders(b)'))
  BY DEF SumsOK, Units
<1>3. IsFiniteSet(Units(Holders(b))) /\ bucket[b].reserved = Cardinality(Units(Holders(b)))
  BY DEF SumsOK
<1>4. CASE b \notin BucketsOf(r)
  <2>1. bucket'[b] = bucket[b]
    BY <1>4, CommitMoves
  <2>2. Holders(b)' = Holders(b)
    BY <1>2, <1>4 DEF Holders, BucketsOf
  <2> QED
    BY <1>3, <2>1, <2>2
<1>5. CASE b \in BucketsOf(r) /\ trans[t].to = "HELD"
  <2>1. bucket'[b].reserved = bucket[b].reserved + Amount(r)
    BY <1>5, CommitMoves DEF Moved
  <2>2. Holders(b)' = Holders(b) \cup {r} /\ r \notin Holders(b)
    BY <1>1, <1>2, <1>5 DEF Holders, BucketsOf
  <2> QED
    BY <1>1, <1>3, <2>1, <2>2, UnitsMore
<1>6. CASE b \in BucketsOf(r) /\ trans[t].to # "HELD"
  <2>1. bucket'[b].reserved = Less(bucket[b].reserved, Amount(r))
    BY <1>6, CommitMoves DEF Moved
  <2>2. Holders(b)' = Holders(b) \ {r} /\ r \in Holders(b)
    BY <1>1, <1>2, <1>6 DEF Holders, BucketsOf
  <2>3. /\ IsFiniteSet(Units(Holders(b) \ {r}))
        /\ Cardinality(Units(Holders(b) \ {r})) = bucket[b].reserved - Amount(r)
        /\ Amount(r) <= bucket[b].reserved
    BY <1>1, <1>3, <2>2, UnitsLess
  <2>4. bucket[b].reserved \in Nat /\ Amount(r) \in Nat
    BY <1>1, AmountType DEF Typed, TypeOK, BucketRow
  <2>5. Less(bucket[b].reserved, Amount(r)) = bucket[b].reserved - Amount(r)
    BY <2>3, <2>4 DEF Less
  <2> QED
    BY <2>1, <2>2, <2>3, <2>5
<1> QED
  BY <1>4, <1>5, <1>6

LEMMA SumsStep == Typed /\ LockInv /\ DoneInv /\ SumsOK /\ [Next]_vars => SumsOK'
<1> SUFFICES ASSUME Typed, LockInv, DoneInv, SumsOK, [Next]_vars PROVE SumsOK'
  OBVIOUS
<1>1. CASE UNCHANGED <<status, bucket>>
  <2>1. \A b : Holders(b)' = Holders(b)
    BY <1>1 DEF Holders, BucketsOf
  <2> QED
    BY <1>1, <2>1 DEF SumsOK, Units
<1> QED
  BY <1>1, SumsCommit, CommittedStep

-----------------------------------------------------------------------------
(* The transactions implement the ledger.                                  *)

\* Of finitely many policies one has the widest limit.
LEMMA WidestLimit ==
  ASSUME NEW b
  PROVE  Widest(b) \in Nat /\ \A p \in Policies : LimitOf(p, b) <= Widest(b)
<1> DEFINE Up(p) == {q \in Policies : LimitOf(q, b) >= LimitOf(p, b)}
           T == {Up(p) : p \in Policies}
<1>1. IsFiniteSet(Policies) /\ 1 \in Policies
  BY BudgetAssumption, FS_Interval DEF Policies
<1>2. IsWellFoundedOn(StrictSubsetOrdering(Policies), SUBSET Policies)
  BY <1>1, FS_StrictSubsetOrderingWellFounded, FS_FiniteSubsetsOfFinite
<1>3. T \subseteq SUBSET Policies /\ T # {}
  BY <1>1
<1> HIDE DEF T
<1>4. PICK X \in T : \A Y \in T : <<Y, X>> \notin StrictSubsetOrdering(Policies)
  BY <1>2, <1>3, WFMin
<1> USE DEF T
<1>5. PICK p \in Policies : X = Up(p)
  BY <1>4
<1>6. ASSUME NEW q \in Policies
      PROVE  LimitOf(q, b) <= LimitOf(p, b)
  <2>1. \A x \in Policies : LimitOf(x, b) \in Nat
    BY LimitType
  <2> SUFFICES ASSUME LimitOf(q, b) > LimitOf(p, b) PROVE FALSE
    BY <2>1
  <2>2. Up(q) \subseteq Up(p) /\ p \notin Up(q) /\ p \in Up(p)
    BY <2>1
  <2>3. <<Up(q), Up(p)>> \in StrictSubsetOrdering(Policies)
    BY <2>2 DEF StrictSubsetOrdering
  <2> QED
    BY <1>4, <1>5, <2>3
<1>7. \E x \in {LimitOf(q, b) : q \in Policies} : \A q \in Policies : LimitOf(q, b) <= x
  BY <1>6
<1>8. Widest(b) \in {LimitOf(q, b) : q \in Policies} /\ \A q \in Policies : LimitOf(q, b) <= Widest(b)
  BY <1>7 DEF Widest
<1> QED
  BY <1>8, LimitType

StateOf(is) == [RECEIVED |-> "none", HELD |-> "held", FREED |-> "freed", SETTLED |-> "settled"][is]

States == [r \in Requests |-> StateOf(status[r].is)]
Amounts == [r \in Requests |-> IF Held(r) THEN Amount(r) ELSE 0]
Places == [r \in Requests |-> IF Held(r) THEN {GlobalKey, UserOf[r]} ELSE {}]
Reserves == [b \in Buckets |-> bucket[b].reserved]
Settles == [b \in Buckets |-> bucket[b].settled]

LEMMA StateFacts ==
  /\ StateOf("RECEIVED") = "none" /\ StateOf("HELD") = "held"
  /\ StateOf("FREED") = "freed" /\ StateOf("SETTLED") = "settled"
BY DEF StateOf

LEMMA LedgerInit == Init => Ledger!Init
<1> SUFFICES ASSUME Init PROVE Ledger!Init
  OBVIOUS
<1>1. \A r \in Requests : status[r].is = "RECEIVED" /\ ~Held(r)
  BY DEF Init, Held
<1>2. \A b \in Buckets : bucket[b].reserved = 0 /\ bucket[b].settled = 0
  BY MissingFacts DEF Init
<1>3. States = [r \in Requests |-> "none"]
  BY <1>1, StateFacts DEF States
<1> QED
  BY <1>1, <1>2, <1>3 DEF Ledger!Init, States, StateOf

LEMMA LedgerCommit ==
  ASSUME Typed, LockInv, DoneInv, SumsOK, NEW t \in Txs, Commit(t)
  PROVE  Ledger!Next
<1> DEFINE r == t[1]
           B == BucketsOf(r)
           a == Amount(r)
<1>1. /\ r \in Requests /\ B \subseteq Buckets /\ a \in Nat
      /\ \A b \in Buckets : bucket[b].reserved \in Nat /\ bucket[b].settled \in Nat
      /\ trans[t] \in Running
  BY TxFacts, BucketsOfRows, AmountType, ActiveRuns DEF Typed, TypeOK, BucketRow, Commit
<1>2. /\ status'[r] = [is |-> trans[t].to, fee |-> trans[t].fee]
      /\ \A q \in Requests : q # r => status'[q] = status[q]
      /\ status[r].is = IF trans[t].to = "HELD" THEN "RECEIVED" ELSE "HELD"
      /\ \A b \in B : Moved(trans[t], r, b, bucket[b], bucket'[b])
      /\ \A b \in Buckets : b \notin B => bucket'[b] = bucket[b]
  BY CommitMoves
<1>3. trans[t].to \in {"HELD", "FREED", "SETTLED"} /\ trans[t].policy \in Policies /\ trans[t].fee \in Fees \cup {0}
  BY <1>1 DEF Running
<1>4. /\ trans[t].to = "HELD" => States' = [States EXCEPT ![r] = "held"]
      /\ trans[t].to = "FREED" => States' = [States EXCEPT ![r] = "freed"]
      /\ trans[t].to = "SETTLED" => States' = [States EXCEPT ![r] = "settled"]
  <2>1. status'[r].is = trans[t].to
    BY <1>2
  <2>2. States' = [States EXCEPT ![r] = StateOf(trans[t].to)]
    BY <1>1, <1>2, <2>1 DEF States
  <2> QED
    BY <2>2, StateFacts
<1>5. CASE trans[t].to = "HELD"
  <2>1. ASSUME NEW b \in B
        PROVE  /\ bucket'[b].reserved = bucket[b].reserved + a /\ bucket'[b].settled = bucket[b].settled
               /\ bucket[b].reserved + bucket[b].settled + a <= Widest(b)
    <3>1. /\ bucket'[b].reserved = bucket[b].reserved + a /\ bucket'[b].settled = bucket[b].settled
          /\ bucket'[b].reserved + bucket'[b].settled <= LimitOf(trans[t].policy, b)
      BY <1>2, <1>5, <2>1 DEF Moved
    <3>2. LimitOf(trans[t].policy, b) <= Widest(b) /\ LimitOf(trans[t].policy, b) \in Nat /\ Widest(b) \in Nat
      BY <1>3, WidestLimit, LimitType
    <3> QED
      BY <1>1, <2>1, <3>1, <3>2
  <2>2. Reserves' = Ledger!Add(Reserves, B, a) /\ Settles' = Settles
    BY <1>1, <1>2, <2>1 DEF Reserves, Settles, Ledger!Add
  <2>3. Amounts' = [Amounts EXCEPT ![r] = a] /\ Places' = [Places EXCEPT ![r] = B]
    <3>1. Held(r)' /\ \A q \in Requests : q # r => (Held(q)' <=> Held(q))
      BY <1>2, <1>5 DEF Held
    <3> QED
      BY <1>1, <3>1 DEF Amounts, Places, BucketsOf
  <2>4. States[r] = "none"
    BY <1>1, <1>2, <1>5, StateFacts DEF States
  <2>5. \A b \in B : Reserves[b] + Settles[b] + a <= [x \in Buckets |-> Widest(x)][b]
    BY <1>1, <2>1 DEF Reserves, Settles
  <2>6. Ledger!Hold(r, B, a)
    BY <1>4, <1>5, <2>2, <2>3, <2>4, <2>5 DEF Ledger!Hold, States, StateOf, Amounts, Places, Reserves, Settles
  <2> QED
    BY <1>1, <2>6 DEF Ledger!Next
<1>6. CASE trans[t].to # "HELD"
  <2>1. Held(r) /\ Held(r)' /\ status[r].is = "HELD"
    BY <1>2, <1>3, <1>6 DEF Held
  <2>2. Amounts' = Amounts /\ Places' = Places /\ Amounts[r] = a /\ Places[r] = B
    BY <1>1, <1>2, <2>1 DEF Amounts, Places, Held, BucketsOf
  <2>3. ASSUME NEW b \in B
        PROVE  bucket'[b].reserved = bucket[b].reserved + -a /\ bucket'[b].settled = bucket[b].settled + trans[t].fee
    <3>1. bucket'[b].reserved = Less(bucket[b].reserved, a) /\ bucket'[b].settled = bucket[b].settled + trans[t].fee
      BY <1>2, <1>6, <2>3 DEF Moved
    <3>2. a <= bucket[b].reserved
      BY <1>1, <2>1, <2>3, HeldReserved
    <3>3. Less(bucket[b].reserved, a) = bucket[b].reserved + -a
      BY <1>1, <2>3, <3>2 DEF Less
    <3> QED
      BY <3>1, <3>3
  <2>4. Reserves' = Ledger!Add(Reserves, Places[r], -Amounts[r]) /\ Settles' = Ledger!Add(Settles, Places[r], trans[t].fee)
    BY <1>1, <1>2, <2>2, <2>3 DEF Reserves, Settles, Ledger!Add
  <2>5. States[r] = "held"
    BY <1>1, <2>1, StateFacts DEF States
  <2>6. CASE trans[t].to = "FREED"
    <3>1. trans[t].fee = 0
      BY <2>6 DEF DoneInv, Progress, Done, Commit
    <3>2. Settles' = Settles
      BY <1>1, <2>4, <3>1 DEF Ledger!Add, Settles
    <3>3. Ledger!Free(r)
      BY <1>4, <2>2, <2>4, <2>5, <2>6, <3>2 DEF Ledger!Free, States, StateOf, Amounts, Places, Reserves, Settles
    <3> QED
      BY <1>1, <3>3 DEF Ledger!Next
  <2>7. CASE trans[t].to = "SETTLED"
    <3>1. PICK fee \in Fees \cup {0} : fee = trans[t].fee
      BY <1>3
    <3>2. Ledger!SettleFor(r, fee)
      BY <1>4, <2>2, <2>4, <2>5, <2>7, <3>1 DEF Ledger!SettleFor, States, StateOf, Amounts, Places, Reserves, Settles
    <3> QED
      BY <1>1, <3>2 DEF Ledger!Next
  <2> QED
    BY <1>3, <1>6, <2>6, <2>7
<1> QED
  BY <1>5, <1>6

\* The statements of a transaction, waits and retries included, amount to one
\* step of the ledger at its COMMIT (packages/db/src/budgets.ts:26), and all
\* other steps to none.
THEOREM ImplementsLedgerCorrect == Spec => ImplementsLedger
<1>1. Typed /\ LockInv /\ DoneInv /\ SumsOK /\ [Next]_vars => [Ledger!Next]_(Ledger!vars)
  <2> SUFFICES ASSUME Typed, LockInv, DoneInv, SumsOK, [Next]_vars PROVE [Ledger!Next]_(Ledger!vars)
    OBVIOUS
  <2>1. CASE UNCHANGED <<status, bucket>>
    BY <2>1 DEF Ledger!vars, Held
  <2> QED
    BY <2>1, LedgerCommit, CommittedStep
<1> QED
  BY <1>1, InitTyped, TypedStep, InitLocks, LocksStep, InitDone, DoneStep, InitSums, SumsStep, LedgerInit, PTL
     DEF Spec, ImplementsLedger, Ledger!Spec

-----------------------------------------------------------------------------
(* The books and the limit *)

Settlers(b) == {r \in Requests : status[r].is = "SETTLED" /\ b \in BucketsOf(r)}

FeeOf     == [r \in Requests |-> status[r].fee]
Overspent == [r \in Requests |-> Less(status[r].fee, Amount(r))]

\* The fees of its confirmed requests, and what they exceed the reservations by.
Charged(b) == Pile(FeeOf, Settlers(b))
Excess(b)  == Pile(Overspent, Settlers(b))

\* A bucket says what the requests say: the amounts of those that hold one, and
\* the fees of those that are confirmed.
BooksBalance ==
  \A b \in Buckets :
    /\ bucket[b].reserved = Cardinality(Units(Holders(b)))
    /\ bucket[b].settled = Cardinality(Charged(b))

\* A bucket is over the widest limit of its policies by at most what the chain
\* has charged beyond the reservations.
LimitKept ==
  \A b \in Buckets : bucket[b].reserved + bucket[b].settled <= Widest(b) + Cardinality(Excess(b))

FeesOK ==
  \A b \in Buckets :
    /\ IsFiniteSet(Charged(b)) /\ bucket[b].settled = Cardinality(Charged(b))
    /\ IsFiniteSet(Excess(b))

LEMMA InitFees == Init => FeesOK /\ LimitKept
<1> SUFFICES ASSUME Init, NEW b \in Buckets
             PROVE  /\ IsFiniteSet(Charged(b)) /\ bucket[b].settled = Cardinality(Charged(b))
                    /\ IsFiniteSet(Excess(b))
                    /\ bucket[b].reserved + bucket[b].settled <= Widest(b) + Cardinality(Excess(b))
  BY DEF FeesOK, LimitKept
<1>1. Settlers(b) = {}
  BY DEF Init, Settlers
<1>2. Charged(b) = {} /\ Excess(b) = {}
  BY <1>1 DEF Charged, Excess, Pile
<1>3. bucket[b].reserved = 0 /\ bucket[b].settled = 0
  BY MissingFacts DEF Init
<1> QED
  BY <1>2, <1>3, FS_EmptySet, WidestLimit

\* What a request has been charged, and by how much that exceeds its reservation.
LEMMA LessType ==
  ASSUME NEW x \in Nat, NEW y \in Nat
  PROVE  Less(x, y) \in Nat
BY DEF Less

LEMMA FeeTypes ==
  ASSUME Typed, NEW r \in Requests
  PROVE  status[r].fee \in Nat
<1>1. status[r] \in RequestRow
  BY DEF Typed, TypeOK
<1>2. status[r].fee \in Fees \cup {0}
  BY <1>1 DEF RequestRow
<1>3. Fees \subseteq Nat
  BY BudgetAssumption
<1>4. \A x \in Fees \cup {0} : x \in Nat
  BY <1>3
<1> QED
  BY <1>2, <1>4, Zenon

LEMMA FeesCommit ==
  ASSUME Typed, LockInv, DoneInv, SumsOK, FeesOK, LimitKept, NEW t \in Txs, Commit(t)
  PROVE  FeesOK' /\ LimitKept'
<1> DEFINE r == t[1]
           a == Amount(r)
           fee == trans[t].fee
<1>1. /\ r \in Requests /\ a \in Nat /\ fee \in Nat
      /\ trans[t].to \in {"HELD", "FREED", "SETTLED"} /\ trans[t].policy \in Policies
  BY TxFacts, AmountType, ActiveRuns, BudgetAssumption DEF Commit, Running
<1>2. /\ status'[r] = [is |-> trans[t].to, fee |-> fee]
      /\ \A q \in Requests : q # r => status'[q] = status[q]
      /\ status[r].is = IF trans[t].to = "HELD" THEN "RECEIVED" ELSE "HELD"
  BY CommitMoves
<1>3. status'[r].is = trans[t].to /\ status'[r].fee = fee
  BY <1>2
<1>4. \A q \in Requests : q # r => FeeOf'[q] = FeeOf[q] /\ Overspent'[q] = Overspent[q]
  BY <1>2 DEF FeeOf, Overspent
<1>5. FeeOf'[r] = fee /\ Overspent'[r] = Less(fee, a)
  BY <1>1, <1>3 DEF FeeOf, Overspent
<1>6. FeeOf' \in [Requests -> Nat] /\ Overspent' \in [Requests -> Nat]
  <2>1. \A q \in Requests : status'[q].fee \in Nat
    BY <1>1, <1>2, <1>3, FeeTypes
  <2>2. \A q \in Requests : Less(status'[q].fee, Amount(q)) \in Nat
    BY <2>1, AmountType, LessType
  <2> QED
    BY <2>1, <2>2 DEF FeeOf, Overspent
<1> SUFFICES ASSUME NEW b \in Buckets
             PROVE  /\ IsFiniteSet(Charged(b)') /\ bucket'[b].settled = Cardinality(Charged(b)')
                    /\ IsFiniteSet(Excess(b)')
                    /\ bucket'[b].reserved + bucket'[b].settled <= Widest(b) + Cardinality(Excess(b)')
  BY DEF FeesOK, LimitKept
<1>7. /\ IsFiniteSet(Charged(b)) /\ bucket[b].settled = Cardinality(Charged(b)) /\ IsFiniteSet(Excess(b))
      /\ bucket[b].reserved + bucket[b].settled <= Widest(b) + Cardinality(Excess(b))
  BY DEF FeesOK, LimitKept
<1>8. /\ bucket[b].reserved \in Nat /\ bucket[b].settled \in Nat
      /\ Cardinality(Excess(b)) \in Nat /\ Widest(b) \in Nat
  BY <1>7, FS_CardinalityType, WidestLimit DEF Typed, TypeOK, BucketRow
<1>9. r \notin Settlers(b)
  BY <1>2 DEF Settlers
<1>10. \A q \in Settlers(b) : FeeOf'[q] = FeeOf[q] /\ Overspent'[q] = Overspent[q]
  BY <1>4, <1>9 DEF Settlers
<1>11. Pile(FeeOf', Settlers(b)) = Charged(b) /\ Pile(Overspent', Settlers(b)) = Excess(b)
  BY <1>10, PileSame DEF Charged, Excess
<1>12. Charged(b)' = Pile(FeeOf', Settlers(b)') /\ Excess(b)' = Pile(Overspent', Settlers(b)')
  BY DEF Charged, Excess, Pile
<1>13. CASE b \notin BucketsOf(r) \/ trans[t].to # "SETTLED"
  <2>1. Settlers(b)' = Settlers(b)
    BY <1>2, <1>3, <1>9, <1>13 DEF Settlers, BucketsOf
  <2>2. Charged(b)' = Charged(b) /\ Excess(b)' = Excess(b)
    BY <1>11, <1>12, <2>1
  <2>3. CASE b \notin BucketsOf(r)
    <3>1. bucket'[b] = bucket[b]
      BY <2>3, CommitMoves
    <3> QED
      BY <1>7, <2>2, <3>1
  <2>4. CASE b \in BucketsOf(r) /\ trans[t].to = "HELD"
    <3>1. bucket'[b].settled = bucket[b].settled /\ bucket'[b].reserved + bucket'[b].settled <= LimitOf(trans[t].policy, b)
      BY <2>4, CommitMoves DEF Moved
    <3>2. bucket'[b].reserved = bucket[b].reserved + a
      BY <2>4, CommitMoves DEF Moved
    <3>3. LimitOf(trans[t].policy, b) <= Widest(b) /\ LimitOf(trans[t].policy, b) \in Nat
      BY <1>1, WidestLimit, LimitType
    <3>4. bucket'[b].reserved + bucket'[b].settled <= Widest(b) + Cardinality(Excess(b))
      BY <1>1, <1>8, <3>1, <3>2, <3>3
    <3> QED
      BY <1>7, <2>2, <3>1, <3>4
  <2>5. CASE b \in BucketsOf(r) /\ trans[t].to = "FREED"
    <3>1. fee = 0
      BY <2>5 DEF DoneInv, Progress, Done, Commit
    <3>2. bucket'[b].reserved = Less(bucket[b].reserved, a) /\ bucket'[b].settled = bucket[b].settled + fee
      BY <2>5, CommitMoves DEF Moved
    <3>3. bucket'[b].settled = bucket[b].settled /\ bucket'[b].reserved \in Nat /\ bucket'[b].reserved <= bucket[b].reserved
      BY <1>1, <1>8, <3>1, <3>2 DEF Less
    <3>4. bucket'[b].reserved + bucket'[b].settled <= Widest(b) + Cardinality(Excess(b))
      BY <1>7, <1>8, <3>3
    <3> QED
      BY <1>7, <2>2, <3>3, <3>4
  <2> QED
    BY <1>1, <1>13, <2>3, <2>4, <2>5
<1>14. CASE b \in BucketsOf(r) /\ trans[t].to = "SETTLED"
  <2>1. Settlers(b)' = Settlers(b) \cup {r}
    BY <1>1, <1>2, <1>3, <1>14 DEF Settlers, BucketsOf
  <2>2. IsFiniteSet(Charged(b)') /\ Cardinality(Charged(b)') = Cardinality(Charged(b)) + fee
    BY <1>1, <1>5, <1>6, <1>7, <1>9, <1>11, <1>12, <2>1, PileMore
  <2>3. IsFiniteSet(Excess(b)') /\ Cardinality(Excess(b)') = Cardinality(Excess(b)) + Less(fee, a)
    BY <1>1, <1>5, <1>6, <1>7, <1>9, <1>11, <1>12, <2>1, PileMore
  <2>4. bucket'[b].reserved = Less(bucket[b].reserved, a) /\ bucket'[b].settled = bucket[b].settled + fee
    BY <1>14, CommitMoves DEF Moved
  <2>5. a <= bucket[b].reserved
    BY <1>1, <1>2, <1>14, HeldReserved
  <2>6. bucket'[b].reserved + bucket'[b].settled <= Widest(b) + Cardinality(Excess(b)')
    BY <1>1, <1>7, <1>8, <2>3, <2>4, <2>5 DEF Less
  <2> QED
    BY <1>7, <2>2, <2>3, <2>4, <2>6
<1> QED
  BY <1>1, <1>13, <1>14

LEMMA FeesStep == Typed /\ LockInv /\ DoneInv /\ SumsOK /\ FeesOK /\ LimitKept /\ [Next]_vars => FeesOK' /\ LimitKept'
<1> SUFFICES ASSUME Typed, LockInv, DoneInv, SumsOK, FeesOK, LimitKept, [Next]_vars PROVE FeesOK' /\ LimitKept'
  OBVIOUS
<1>1. CASE UNCHANGED <<status, bucket>>
  <2>1. \A b : Settlers(b)' = Settlers(b)
    BY <1>1 DEF Settlers, BucketsOf
  <2>2. FeeOf' = FeeOf /\ Overspent' = Overspent
    BY <1>1 DEF FeeOf, Overspent
  <2>3. \A b : Charged(b)' = Charged(b) /\ Excess(b)' = Excess(b)
    BY <2>1, <2>2 DEF Charged, Excess, Pile
  <2> QED
    BY <1>1, <2>3 DEF FeesOK, LimitKept
<1> QED
  BY <1>1, FeesCommit, CommittedStep

\* The counters of a bucket never drift from the requests, whatever transactions
\* interleave, wait, roll back or find their request ended by another
\* (packages/db/src/budgets.ts:26): a reservation leaves its bucket once, with
\* the amount it came with.
THEOREM BooksBalanceCorrect == Spec => []BooksBalance
<1>1. SumsOK /\ FeesOK => BooksBalance
  BY DEF SumsOK, FeesOK, BooksBalance
<1> QED
  BY <1>1, InitTyped, TypedStep, InitLocks, LocksStep, InitDone, DoneStep, InitSums, SumsStep,
     InitFees, FeesStep, PTL DEF Spec

\* A budget is overrun only by fees the chain charged beyond the estimate and
\* its margin: never by reservations that race.
THEOREM LimitKeptCorrect == Spec => []LimitKept
  BY InitTyped, TypedStep, InitLocks, LocksStep, InitDone, DoneStep, InitSums, SumsStep,
     InitFees, FeesStep, PTL DEF Spec

=============================================================================
