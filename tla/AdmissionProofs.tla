--------------------------- MODULE AdmissionProofs ---------------------------
(***************************************************************************)
(* What Admission guarantees for any number of calls, request_ids,         *)
(* transactions and crashes: one call drives a row and decides it, a       *)
(* transaction is sponsored once, conflicts are real, and the endpoint     *)
(* implements AdmissionOnce.                                               *)
(***************************************************************************)
EXTENDS Admission, TLAPS

LEMMA VerdictFacts ==
  /\ \A s : Verdict(s) = "none" <=> s = ABSENT
  /\ \A s : Verdict(s) = "pending" <=> s = "RECEIVED"
  /\ \A s : Verdict(s) = "refused" <=> s = "REJECTED"
  /\ \A s : s \notin {ABSENT, "RECEIVED", "REJECTED"} => Verdict(s) = "admitted"
  BY DEF Verdict, ABSENT

LEMMA StatusFacts ==
  /\ ABSENT \notin RequestStatus
  /\ {"RECEIVED", "RESERVED", "REJECTED"} \subseteq RequestStatus
  /\ TERMINAL \subseteq RequestStatus
  /\ {"RECEIVED", "RESERVED", ABSENT} \cap TERMINAL = {}
  BY DEF ABSENT, RequestStatus, T, TERMINAL

LEMMA EndingFacts == ASSUME NEW end \in Endings
                     PROVE  end \in RequestStatus \ {ABSENT, "RECEIVED", "REJECTED", "RESERVED"}
  BY AdmissionAssumption, StatusFacts

(* Types *)

THEOREM TypeStep == TypeOK /\ [Next]_vars => TypeOK'
<1> SUFFICES ASSUME TypeOK, [Next]_vars
             PROVE  TypeOK'
  OBVIOUS
<1> USE DEF TypeOK
<1> DEFINE Records == Running \cup Responding \cup Answered \cup {Idle}
<1>1. ASSUME NEW c \in Calls, NEW r \in Records, call' = [call EXCEPT ![c] = r]
      PROVE  call' \in [Calls -> Records]
  BY <1>1
<1>a. ASSUME NEW c \in Calls, call[c].pc \in Pcs
      PROVE  call[c] \in Running
  BY <1>a DEF Responding, Answered, Idle, Pcs, Drives
<1>b. ASSUME NEW c \in Calls, call[c].pc = "respond"
      PROVE  call[c] \in Responding
  BY <1>b DEF Running, Answered, Idle, Pcs, Drives
<1>2. ASSUME NEW c \in Calls, call[c].pc \in Pcs, NEW pc \in Pcs, NEW cause \in Causes
      PROVE  Entry(c, pc, cause, "none", ABSENT) \in Running
  BY <1>a, <1>2 DEF Running, Entry
<1>4. ASSUME NEW c \in Calls, InFlight(c), NEW kind \in Answers
      PROVE  Entry(c, "answered", "none", kind, ABSENT) \in Answered
  BY <1>a, <1>b, <1>4 DEF InFlight, Running, Responding, Answered, Entry, Causes
<1>5. ASSUME NEW c \in Calls, call[c].pc \in Pcs, NEW kind \in Kinds, NEW s \in RequestStatus
      PROVE  Entry(c, "respond", call[c].cause, kind, s) \in Responding
  BY <1>a, <1>5 DEF Running, Responding, Entry
<1>6. ASSUME NEW c \in Calls, call[c].pc \in Pcs \cup {"respond"}
      PROVE  call[c].key \in Keys /\ call[c].hash \in Hashes
  BY <1>a, <1>b, <1>6 DEF Running, Responding
<1> USE DEF At, Becomes, GoTo, Answer, Outcome, Because, Pcs, Drives, InFlight
<1>10. ASSUME NEW c \in Calls, NEW k \in Keys, NEW h \in Hashes, Post(c, k, h)
       PROVE  TypeOK'
  <2>1. [pc |-> "byKey", key |-> k, hash |-> h, cause |-> "none", kind |-> "none", seen |-> ABSENT] \in Running
    BY DEF Running, Causes
  <2> QED
    BY <1>1, <1>10, <2>1 DEF Post
<1>11. ASSUME NEW c \in Calls, FindByKey(c)
       PROVE  TypeOK'
  BY <1>1, <1>2, <1>4, <1>5, <1>6, <1>11 DEF FindByKey, Exists, Answers, Kinds, Causes
<1>12. ASSUME NEW c \in Calls, FindByHash(c)
       PROVE  TypeOK'
  BY <1>1, <1>2, <1>4, <1>5, <1>6, <1>12 DEF FindByHash, Live, Answers, Kinds, Causes
<1>13. ASSUME NEW c \in Calls, Insert(c)
       PROVE  TypeOK'
  BY <1>1, <1>2, <1>6, <1>13, StatusFacts DEF Insert, Causes
<1>14. ASSUME NEW c \in Calls, FindAgain(c)
       PROVE  TypeOK'
  BY <1>1, <1>4, <1>5, <1>6, <1>14 DEF FindAgain, Exists, Answers, Kinds
<1>15. ASSUME NEW c \in Calls, Estimate(c)
       PROVE  TypeOK'
  BY <1>1, <1>2, <1>15 DEF Estimate, Causes
<1>16. ASSUME NEW c \in Calls, Reserved(c)
       PROVE  TypeOK'
  BY <1>1, <1>5, <1>6, <1>16, StatusFacts DEF Reserved, Move, Kinds
<1>17. ASSUME NEW c \in Calls, OverBudget(c)
       PROVE  TypeOK'
  BY <1>1, <1>2, <1>17 DEF OverBudget, Causes
<1>18. ASSUME NEW c \in Calls, Reject(c)
       PROVE  TypeOK'
  BY <1>1, <1>5, <1>6, <1>18, StatusFacts DEF Reject, Move, Kinds
<1>19. ASSUME NEW c \in Calls, Respond(c)
       PROVE  TypeOK'
  <2>1. PICK s \in {call[c].seen, status[call[c].key]} :
          call' = [call EXCEPT ![c] = Entry(c, "answered", call[c].cause, call[c].kind, s)]
    BY <1>19 DEF Respond
  <2>2. call[c] \in Responding
    BY <1>b, <1>19 DEF Respond
  <2>3. s \in RequestStatus \cup {ABSENT}
    BY <2>2, <1>6 DEF Responding
  <2>4. Entry(c, "answered", call[c].cause, call[c].kind, s) \in Answered
    BY <2>2, <2>3 DEF Responding, Answered, Answers, Entry
  <2> QED
    BY <1>1, <1>19, <2>1, <2>4 DEF Respond
<1>20. ASSUME NEW c \in Calls, Throws(c)
       PROVE  TypeOK'
  BY <1>1, <1>4, <1>20 DEF Throws, Answers
<1>21. ASSUME Crash
       PROVE  TypeOK'
  <2>1. call' \in [Calls -> Records]
    BY <1>4, <1>21 DEF Crash, Answers
  <2>2. crashes < MaxCrashes /\ crashes' = crashes + 1
    BY <1>21 DEF Crash
  <2>3. crashes' \in 0..MaxCrashes
    BY <2>2, AdmissionAssumption
  <2> QED
    BY <1>21, <2>1, <2>3 DEF Crash
<1>22. ASSUME NEW k \in Keys, NEW end \in Endings, Resolve(k, end)
       PROVE  TypeOK'
  BY <1>22, EndingFacts DEF Resolve
<1>23. CASE UNCHANGED vars
  BY <1>23 DEF vars
<1> QED
  BY <1>10, <1>11, <1>12, <1>13, <1>14, <1>15, <1>16, <1>17, <1>18, <1>19, <1>20, <1>21, <1>22, <1>23
     DEF Next, CallStep

LEMMA TypeInit == Init => TypeOK
  BY AdmissionAssumption DEF Init, TypeOK

\* The rows and the calls have their types in every behaviour; a call that is
\* about to answer has a row to answer with.
THEOREM TypeCorrect == Spec => []TypeOK
  BY TypeInit, TypeStep, PTL DEF Spec

-----------------------------------------------------------------------------
(* Rows *)

\* A row stays, keeps its transaction, and is decided at most once.
RowsStay ==
  \A k \in Keys : Exists(k) =>
    Exists(k)' /\ hash'[k] = hash[k] /\ Verdict(status[k]) \in {"pending", Verdict(status'[k])}

LEMMA RowStep == TypeOK /\ [Next]_vars => RowsStay
<1> SUFFICES ASSUME TypeOK, [Next]_vars, NEW q \in Keys, Exists(q)
             PROVE  Exists(q)' /\ hash'[q] = hash[q] /\ Verdict(status[q]) \in {"pending", Verdict(status'[q])}
  BY DEF RowsStay
<1> USE DEF TypeOK
<1>1. CASE UNCHANGED <<status, hash>>
  BY <1>1 DEF Exists
<1>2. ASSUME NEW c \in Calls, Insert(c), ~UNCHANGED <<status, hash>>
      PROVE  Exists(q)' /\ hash'[q] = hash[q] /\ Verdict(status[q]) \in {"pending", Verdict(status'[q])}
  <2>1. q # call[c].key
    BY <1>2 DEF Insert, Unique
  <2> QED
    BY <1>2, <2>1 DEF Insert, Exists
<1>3. ASSUME NEW c \in Calls, Reserved(c) \/ Reject(c)
      PROVE  Exists(q)' /\ hash'[q] = hash[q] /\ Verdict(status[q]) \in {"pending", Verdict(status'[q])}
  <2>1. status'[q] = status[q] \/ (status[q] = "RECEIVED" /\ status'[q] \in {"RESERVED", "REJECTED"})
    BY <1>3 DEF Reserved, Reject, Move
  <2>2. hash'[q] = hash[q]
    BY <1>3 DEF Reserved, Reject
  <2> QED
    BY <2>1, <2>2, VerdictFacts, StatusFacts DEF Exists, ABSENT
<1>4. ASSUME NEW k \in Keys, NEW end \in Endings, Resolve(k, end)
      PROVE  Exists(q)' /\ hash'[q] = hash[q] /\ Verdict(status[q]) \in {"pending", Verdict(status'[q])}
  <2>1. status'[q] = status[q] \/ (status[q] = "RESERVED" /\ status'[q] = end)
    BY <1>4 DEF Resolve
  <2>2. hash'[q] = hash[q]
    BY <1>4 DEF Resolve
  <2> QED
    BY <2>1, <2>2, VerdictFacts, EndingFacts DEF Exists, ABSENT
<1> QED
  BY <1>1, <1>2, <1>3, <1>4
     DEF Next, CallStep, Post, FindByKey, FindByHash, FindAgain, Estimate, OverBudget, Respond, Throws, Crash, vars

\* Live rows hold different transactions: the partial unique index.
LiveRowsDiffer ==
  \A j, k \in Keys : (j # k /\ hash[j] = hash[k]) => {status[j], status[k]} \cap {ABSENT, "REJECTED"} # {}

LEMMA LiveStep == TypeOK /\ LiveRowsDiffer /\ [Next]_vars => LiveRowsDiffer'
<1> SUFFICES ASSUME TypeOK, LiveRowsDiffer, [Next]_vars,
                    NEW i \in Keys, NEW j \in Keys, i # j, hash'[i] = hash'[j]
             PROVE  {status'[i], status'[j]} \cap {ABSENT, "REJECTED"} # {}
  BY DEF LiveRowsDiffer
<1> USE DEF TypeOK
<1>1. CASE UNCHANGED <<status, hash>>
  BY <1>1 DEF LiveRowsDiffer
<1>2. ASSUME NEW c \in Calls, Insert(c), ~UNCHANGED <<status, hash>>
      PROVE  {status'[i], status'[j]} \cap {ABSENT, "REJECTED"} # {}
  <2> DEFINE k == call[c].key
  <2>1. /\ Unique(k, call[c].hash)
        /\ status' = [status EXCEPT ![k] = "RECEIVED"]
        /\ hash'   = [hash EXCEPT ![k] = call[c].hash]
    BY <1>2 DEF Insert
  <2>2. ASSUME NEW q \in Keys, q # k, hash[q] = call[c].hash
        PROVE  status'[q] \in {ABSENT, "REJECTED"}
    BY <2>1, <2>2 DEF Unique, Live
  <2>3. CASE i # k /\ j # k
    BY <2>1, <2>3 DEF LiveRowsDiffer
  <2>4. CASE i = k
    <3>1. hash[j] = call[c].hash
      BY <2>1, <2>4
    <3> QED
      BY <2>2, <2>4, <3>1
  <2>5. CASE j = k
    <3>1. hash[i] = call[c].hash
      BY <2>1, <2>5
    <3> QED
      BY <2>2, <2>5, <3>1
  <2> QED
    BY <2>3, <2>4, <2>5
<1>3. ASSUME NEW c \in Calls, Reserved(c) \/ Reject(c)
      PROVE  {status'[i], status'[j]} \cap {ABSENT, "REJECTED"} # {}
  <2>1. \A q \in Keys : /\ hash'[q] = hash[q]
                        /\ status[q] \in {ABSENT, "REJECTED"} => status'[q] = status[q]
    BY <1>3 DEF Reserved, Reject, Move, ABSENT
  <2> QED
    BY <2>1 DEF LiveRowsDiffer
<1>4. ASSUME NEW k \in Keys, NEW end \in Endings, Resolve(k, end)
      PROVE  {status'[i], status'[j]} \cap {ABSENT, "REJECTED"} # {}
  <2>1. \A q \in Keys : /\ hash'[q] = hash[q]
                        /\ status[q] \in {ABSENT, "REJECTED"} => status'[q] = status[q]
    BY <1>4 DEF Resolve, ABSENT
  <2> QED
    BY <2>1 DEF LiveRowsDiffer
<1> QED
  BY <1>1, <1>2, <1>3, <1>4
     DEF Next, CallStep, Post, FindByKey, FindByHash, FindAgain, Estimate, OverBudget, Respond, Throws, Crash, vars

LEMMA LiveInit == Init => LiveRowsDiffer
  BY DEF Init, LiveRowsDiffer

\* No two rows with one transaction are ever sponsored, for any number of
\* calls, keys and crashes: the index admits one live row per transaction,
\* and a rejected row stays rejected.
THEOREM SponsoredOnceCorrect == Spec => []SponsoredOnce
<1>1. TypeOK /\ LiveRowsDiffer => SponsoredOnce
  BY DEF LiveRowsDiffer, SponsoredOnce
<1> QED
  BY <1>1, TypeInit, TypeStep, LiveInit, LiveStep, PTL DEF Spec

-----------------------------------------------------------------------------
(* Calls *)

\* c goes on with the key and the bytes it came with.
SameRequest(c) == call'[c].key = call[c].key /\ call'[c].hash = call[c].hash

Conflict(k, h) == \E j \in Keys : Exists(j) /\ (j = k <=> hash[j] # h)

(* What a step makes of a call. *)

Looks(c)   == call'[c].pc \in {"byKey", "byHash", "insert"}
Loses(c)   == /\ call[c].pc = "insert" /\ call'[c].pc = "again" /\ SameRequest(c)
              /\ ~Unique(call[c].key, call[c].hash) /\ UNCHANGED <<status, hash>>
Starts(c)  == /\ call[c].pc = "insert" /\ call'[c].pc \in Drives /\ SameRequest(c)
              /\ ~Exists(call[c].key)
              /\ status' = [status EXCEPT ![call[c].key] = "RECEIVED"]
              /\ hash' = [hash EXCEPT ![call[c].key] = call[c].hash]
              /\ \A d \in Calls \ {c} : call'[d] = call[d]
Drives2(c) == call[c].pc \in Drives /\ call'[c].pc \in Drives /\ SameRequest(c)
Ends(c)    == /\ call[c].pc # "idle" /\ call'[c].pc = "respond" /\ SameRequest(c)
              /\ call[c].pc \in Drives \/ (UNCHANGED <<status, hash>> /\ Exists(call[c].key) /\ hash[call[c].key] = call[c].hash)
              /\ call'[c].seen = status'[call[c].key]
Tells(c)   == /\ call[c].pc = "respond" /\ call'[c].pc = "answered" /\ SameRequest(c)
              /\ call'[c].kind = call[c].kind
              /\ call'[c].seen \in {call[c].seen, status[call[c].key]}
Refuses(c) == /\ call[c].pc # "idle" /\ call'[c].pc = "answered" /\ call'[c].kind = "conflict"
              /\ SameRequest(c)
              /\ \/ Conflict(call[c].key, call[c].hash)
                 \/ /\ call[c].pc = "again"
                    /\ ~(Exists(call[c].key) /\ hash[call[c].key] = call[c].hash)
Breaks(c)  == call'[c].pc = "answered" /\ call'[c].kind \in {"internal", "lost"}

CallMoves(c) ==
  \/ call'[c] = call[c]
  \/ Looks(c) \/ Loses(c) \/ Starts(c) \/ Drives2(c)
  \/ Ends(c) \/ Tells(c) \/ Refuses(c) \/ Breaks(c)

LEMMA CallStepMoves ==
  ASSUME TypeOK, [Next]_vars, NEW d \in Calls
  PROVE  CallMoves(d)
<1> USE DEF TypeOK
<1>k. ASSUME call[d].pc \in Pcs \cup {"respond"}
      PROVE  call[d] \in Running \cup Responding
  BY <1>k DEF Answered, Idle, Pcs, Drives
<1>f. /\ call[d].pc \in Pcs \cup {"respond"} => call[d].key \in Keys /\ call[d].hash \in Hashes
      /\ call[d].pc \in Pcs => call[d].kind = "none"
  BY <1>k DEF Running, Responding, Pcs, Drives
<1> USE DEF At, Becomes, Entry, GoTo, Answer, Outcome, Because, SameRequest
<1>10. ASSUME NEW c \in Calls, NEW k \in Keys, NEW h \in Hashes, Post(c, k, h)
       PROVE  CallMoves(d)
  BY <1>10 DEF Post, CallMoves, Looks
<1>11. ASSUME NEW c \in Calls, FindByKey(c)
       PROVE  CallMoves(d)
  <2>1. CASE c # d
    BY <1>11, <2>1 DEF FindByKey, CallMoves
  <2>2. CASE c = d
    BY <1>11, <2>2, <1>f DEF FindByKey, CallMoves, Looks, Ends, Refuses, Conflict, Pcs
  <2> QED
    BY <2>1, <2>2
<1>12. ASSUME NEW c \in Calls, FindByHash(c)
       PROVE  CallMoves(d)
  <2>1. CASE c # d
    BY <1>12, <2>1 DEF FindByHash, CallMoves
  <2>2. CASE c = d
    BY <1>12, <2>2, <1>f DEF FindByHash, Live, Exists, CallMoves, Looks, Ends, Refuses, Conflict, Pcs
  <2> QED
    BY <2>1, <2>2
<1>13. ASSUME NEW c \in Calls, Insert(c)
       PROVE  CallMoves(d)
  <2>1. CASE c # d
    BY <1>13, <2>1 DEF Insert, CallMoves
  <2>2. CASE c = d
    BY <1>13, <2>2, <1>f DEF Insert, Unique, CallMoves, Starts, Loses, Drives, Pcs
  <2> QED
    BY <2>1, <2>2
<1>14. ASSUME NEW c \in Calls, FindAgain(c)
       PROVE  CallMoves(d)
  <2>1. CASE c # d
    BY <1>14, <2>1 DEF FindAgain, CallMoves
  <2>2. CASE c = d
    BY <1>14, <2>2, <1>f DEF FindAgain, CallMoves, Ends, Refuses, Pcs
  <2> QED
    BY <2>1, <2>2
<1>15. ASSUME NEW c \in Calls, Estimate(c) \/ OverBudget(c)
       PROVE  CallMoves(d)
  <2>1. CASE c # d
    BY <1>15, <2>1 DEF Estimate, OverBudget, CallMoves
  <2>2. CASE c = d
    BY <1>15, <2>2, <1>f DEF Estimate, OverBudget, CallMoves, Drives2, Drives, Pcs
  <2> QED
    BY <2>1, <2>2
<1>16. ASSUME NEW c \in Calls, Reserved(c) \/ Reject(c)
       PROVE  CallMoves(d)
  <2>1. CASE c # d
    BY <1>16, <2>1 DEF Reserved, Reject, CallMoves
  <2>2. CASE c = d
    BY <1>16, <2>2, <1>f DEF Reserved, Reject, Move, CallMoves, Ends, Drives, Pcs
  <2> QED
    BY <2>1, <2>2
<1>19. ASSUME NEW c \in Calls, Respond(c)
       PROVE  CallMoves(d)
  <2>1. CASE c # d
    BY <1>19, <2>1 DEF Respond, CallMoves
  <2>2. CASE c = d
    BY <1>19, <2>2, <1>f DEF Respond, CallMoves, Tells
  <2> QED
    BY <2>1, <2>2
<1>20. ASSUME NEW c \in Calls, Throws(c)
       PROVE  CallMoves(d)
  <2>1. CASE c # d
    BY <1>20, <2>1 DEF Throws, CallMoves
  <2>2. CASE c = d
    BY <1>20, <2>2, <1>f DEF Throws, InFlight, CallMoves, Breaks, Pcs, Drives
  <2> QED
    BY <2>1, <2>2
<1>21. ASSUME Crash
       PROVE  CallMoves(d)
  BY <1>21, <1>f DEF Crash, InFlight, CallMoves, Breaks
<1>22. ASSUME NEW k \in Keys, NEW end \in Endings, Resolve(k, end)
       PROVE  CallMoves(d)
  BY <1>22 DEF Resolve, CallMoves
<1>23. CASE UNCHANGED vars
  BY <1>23 DEF vars, CallMoves
<1> QED
  BY <1>10, <1>11, <1>12, <1>13, <1>14, <1>15, <1>16, <1>19, <1>20, <1>21, <1>22, <1>23
     DEF Next, CallStep

-----------------------------------------------------------------------------
(* Drivers and answers *)

\* The row of key k is the transaction h.
Holds(k, h) == Exists(k) /\ hash[k] = h

\* A call that drives a row has inserted it.
DriverHasRow ==
  \A c \in Calls : call[c].pc \in Drives => Holds(call[c].key, call[c].hash)

\* A call that has lost the race has lost it to its key or to its bytes.
LoserHasRival ==
  \A c \in Calls : call[c].pc = "again" =>
    Holds(call[c].key, call[c].hash) \/ Conflict(call[c].key, call[c].hash)

\* An outcome is the row of the call, as it is or as it was before it was decided.
OutcomeIsReal ==
  \A c \in Calls : call[c].pc = "respond" =>
    /\ Holds(call[c].key, call[c].hash)
    /\ Verdict(call[c].seen) \in {"pending", Verdict(status[call[c].key])}

CallInv == TypeOK /\ DriverHasRow /\ OneDriver /\ LoserHasRival /\ OutcomeIsReal /\ ConflictIsReal

\* The key and the bytes of a call.
LEMMA RequestType ==
  ASSUME TypeOK, NEW c \in Calls, call[c].pc # "idle"
  PROVE  call[c].key \in Keys /\ call[c].hash \in Hashes
<1>1. call[c] \in Running \cup Responding \cup Answered
  BY DEF TypeOK, Idle
<1> QED
  BY <1>1 DEF Running, Responding, Answered

\* A row and a conflict outlast every step.
LEMMA HoldsStays ==
  ASSUME RowsStay, NEW k \in Keys, NEW h, Exists(k), hash[k] = h
  PROVE  status'[k] # ABSENT /\ hash'[k] = h
  BY DEF RowsStay, Exists

LEMMA ConflictStays ==
  ASSUME RowsStay, NEW k \in Keys, NEW h, \E j \in Keys : Exists(j) /\ (j = k <=> hash[j] # h)
  PROVE  \E j \in Keys : status'[j] # ABSENT /\ (j = k <=> hash'[j] # h)
  BY DEF RowsStay, Exists

LEMMA CallInvInit == Init => CallInv
  BY TypeInit DEF Init, CallInv, DriverHasRow, OneDriver, LoserHasRival, OutcomeIsReal, ConflictIsReal,
     Idle, Drives, At

LEMMA CallInvStep == CallInv /\ [Next]_vars => CallInv'
<1> SUFFICES ASSUME CallInv, [Next]_vars
             PROVE  CallInv'
  OBVIOUS
<1>t. TypeOK
  BY DEF CallInv
<1>u. TypeOK'
  BY <1>t, TypeStep
<1>r. RowsStay
  BY <1>t, RowStep
<1>m. \A c \in Calls : CallMoves(c)
  BY <1>t, CallStepMoves
<1>k. ASSUME NEW c \in Calls, call[c].pc # "idle"
      PROVE  call[c].key \in Keys
  BY <1>t, <1>k, RequestType
<1>1. ASSUME NEW c \in Calls, call'[c].pc \in Drives
      PROVE  /\ status'[call'[c].key] # ABSENT /\ hash'[call'[c].key] = call'[c].hash
             /\ \/ call[c].pc \in Drives /\ call'[c].key = call[c].key
                \/ Starts(c)
  <2>1. call'[c] = call[c] \/ Drives2(c) \/ Starts(c)
    BY <1>m, <1>1 DEF CallMoves, Looks, Loses, Ends, Tells, Refuses, Breaks, Drives
  <2>2. CASE Starts(c)
    <3>1. call[c].key \in Keys
      BY <1>k, <2>2 DEF Starts
    <3>2. hash'[call[c].key] = call[c].hash /\ status'[call[c].key] = "RECEIVED"
      BY <1>t, <2>2, <3>1 DEF Starts, TypeOK
    <3> QED
      BY <2>2, <3>2 DEF Starts, SameRequest, ABSENT
  <2>3. CASE call'[c] = call[c] \/ Drives2(c)
    <3>1. call[c].pc \in Drives /\ call'[c].key = call[c].key /\ call'[c].hash = call[c].hash
      BY <1>1, <2>3 DEF Drives2, SameRequest
    <3>2. call[c].key \in Keys
      BY <1>k, <3>1 DEF Drives
    <3>3. Exists(call[c].key) /\ hash[call[c].key] = call[c].hash
      BY <3>1 DEF CallInv, DriverHasRow, Holds
    <3>4. status'[call[c].key] # ABSENT /\ hash'[call[c].key] = call[c].hash
      BY <1>r, <3>2, <3>3, HoldsStays
    <3> QED
      BY <3>1, <3>4
  <2> QED
    BY <2>1, <2>2, <2>3
<1>2. DriverHasRow'
  BY <1>1 DEF DriverHasRow, Holds, Exists
<1>3. OneDriver'
  <2> SUFFICES ASSUME NEW c \in Calls, NEW d \in Calls, call'[c].pc \in Drives, call'[d].pc \in Drives,
                      call'[c].key = call'[d].key, c # d
               PROVE  FALSE
    BY DEF OneDriver
  <2>1. ASSUME NEW e \in Calls, NEW f \in Calls, e # f, Starts(e), call'[f].pc \in Drives,
               call'[e].key = call'[f].key
        PROVE  FALSE
    <3>1. call'[f] = call[f]
      BY <2>1 DEF Starts
    <3>2. Exists(call[f].key)
      BY <2>1, <3>1 DEF CallInv, DriverHasRow, Holds
    <3>3. call'[e].key = call[e].key /\ ~Exists(call[e].key)
      BY <2>1 DEF Starts, SameRequest
    <3>4. call[f].key = call[e].key
      BY <2>1, <3>1, <3>3
    <3> QED
      BY <3>2, <3>3, <3>4
  <2>2. CASE Starts(c)
    BY <2>1, <2>2
  <2>3. CASE Starts(d)
    BY <2>1, <2>3
  <2>4. CASE ~Starts(c) /\ ~Starts(d)
    <3>1. call[c].pc \in Drives /\ call[d].pc \in Drives /\ call[c].key = call[d].key
      BY <1>1, <2>4
    <3> QED
      BY <3>1 DEF CallInv, OneDriver
  <2> QED
    BY <2>2, <2>3, <2>4
<1>4. ASSUME NEW c \in Calls, call'[c].pc = "again"
      PROVE  \/ status'[call'[c].key] # ABSENT /\ hash'[call'[c].key] = call'[c].hash
             \/ \E j \in Keys : status'[j] # ABSENT /\ (j = call'[c].key <=> hash'[j] # call'[c].hash)
  <2>1. call'[c] = call[c] \/ Loses(c)
    BY <1>m, <1>4 DEF CallMoves, Looks, Starts, Drives2, Ends, Tells, Refuses, Breaks, Drives
  <2>2. call[c].pc # "idle" /\ call'[c].key = call[c].key /\ call'[c].hash = call[c].hash
    BY <1>4, <2>1 DEF Loses, SameRequest
  <2> DEFINE k == call[c].key
             h == call[c].hash
  <2>3. k \in Keys
    BY <1>k, <2>2
  <2>4. \/ Exists(k) /\ hash[k] = h
        \/ \E j \in Keys : Exists(j) /\ (j = k <=> hash[j] # h)
    <3>1. CASE call'[c] = call[c]
      BY <1>4, <3>1 DEF CallInv, LoserHasRival, Holds, Conflict
    <3>2. CASE Loses(c)
      BY <2>3, <3>2 DEF Loses, Unique, Live, Exists
    <3> QED
      BY <2>1, <3>1, <3>2
  <2> HIDE DEF k, h
  <2>5. \/ status'[k] # ABSENT /\ hash'[k] = h
        \/ \E j \in Keys : status'[j] # ABSENT /\ (j = k <=> hash'[j] # h)
    BY <1>r, <2>3, <2>4, HoldsStays, ConflictStays
  <2> QED
    BY <2>2, <2>5 DEF k, h
<1>5. LoserHasRival'
  BY <1>4 DEF LoserHasRival, Holds, Conflict, Exists
<1>6. ASSUME NEW c \in Calls, call'[c].pc = "respond"
      PROVE  /\ status'[call'[c].key] # ABSENT /\ hash'[call'[c].key] = call'[c].hash
             /\ Verdict(call'[c].seen) \in {"pending", Verdict(status'[call'[c].key])}
  <2>1. call'[c] = call[c] \/ Ends(c)
    BY <1>m, <1>6 DEF CallMoves, Looks, Loses, Starts, Drives2, Tells, Refuses, Breaks, Drives
  <2>2. call[c].pc # "idle" /\ call'[c].key = call[c].key /\ call'[c].hash = call[c].hash
    <3>1. CASE call'[c] = call[c]
      BY <1>6, <3>1
    <3>2. CASE Ends(c)
      BY <3>2 DEF Ends, SameRequest
    <3> QED
      BY <2>1, <3>1, <3>2
  <2>3. call[c].key \in Keys
    BY <1>k, <2>2
  <2>4. Exists(call[c].key) /\ hash[call[c].key] = call[c].hash
    BY <1>6, <2>1 DEF Ends, CallInv, DriverHasRow, OutcomeIsReal, Holds
  <2>5. status'[call[c].key] # ABSENT /\ hash'[call[c].key] = call[c].hash
    BY <1>r, <2>3, <2>4, HoldsStays
  <2>6. Verdict(call'[c].seen) \in {"pending", Verdict(status'[call[c].key])}
    <3>1. CASE call'[c] = call[c]
      <4>1. Verdict(call[c].seen) \in {"pending", Verdict(status[call[c].key])}
        BY <1>6, <3>1 DEF CallInv, OutcomeIsReal
      <4>2. Verdict(status[call[c].key]) \in {"pending", Verdict(status'[call[c].key])}
        BY <1>r, <2>3, <2>4 DEF RowsStay
      <4> QED
        BY <3>1, <4>1, <4>2
    <3>2. CASE Ends(c)
      BY <3>2 DEF Ends
    <3> QED
      BY <2>1, <3>1, <3>2
  <2> QED
    BY <2>2, <2>5, <2>6
<1>7. OutcomeIsReal'
  BY <1>6 DEF OutcomeIsReal, Holds, Exists
<1>8. ASSUME NEW c \in Calls, call'[c].pc = "answered", call'[c].kind = "conflict"
      PROVE  \E j \in Keys : status'[j] # ABSENT /\ (j = call'[c].key <=> hash'[j] # call'[c].hash)
  <2>1. ~Tells(c)
    <3>1. ASSUME Tells(c)
          PROVE  FALSE
      <4>1. call[c] \in Responding
        BY <1>t, <3>1 DEF Tells, TypeOK, Running, Answered, Idle, Pcs, Drives
      <4> QED
        BY <1>8, <3>1, <4>1 DEF Tells, Responding, Kinds
    <3> QED
      BY <3>1
  <2>2. call'[c] = call[c] \/ Refuses(c)
    BY <1>m, <1>8, <2>1 DEF CallMoves, Looks, Loses, Starts, Drives2, Ends, Breaks, Drives
  <2>3. CASE call'[c] = call[c]
    <3>1. call[c].key \in Keys
      BY <1>8, <1>k, <2>3
    <3>2. \E j \in Keys : Exists(j) /\ (j = call[c].key <=> hash[j] # call[c].hash)
      BY <1>8, <2>3 DEF CallInv, ConflictIsReal, At
    <3>3. \E j \in Keys : status'[j] # ABSENT /\ (j = call[c].key <=> hash'[j] # call[c].hash)
      BY <1>r, <3>1, <3>2, ConflictStays
    <3> QED
      BY <2>3, <3>3
  <2>4. CASE Refuses(c)
    <3>1. call[c].key \in Keys
      BY <1>k, <2>4 DEF Refuses
    <3>2. \E j \in Keys : Exists(j) /\ (j = call[c].key <=> hash[j] # call[c].hash)
      BY <2>4 DEF Refuses, Conflict, CallInv, LoserHasRival, Holds
    <3>3. \E j \in Keys : status'[j] # ABSENT /\ (j = call[c].key <=> hash'[j] # call[c].hash)
      BY <1>r, <3>1, <3>2, ConflictStays
    <3> QED
      BY <2>4, <3>3 DEF Refuses, SameRequest
  <2> QED
    BY <2>2, <2>3, <2>4
<1>9. ConflictIsReal'
  BY <1>8 DEF ConflictIsReal, At, Exists
<1> QED
  BY <1>u, <1>2, <1>3, <1>5, <1>7, <1>9 DEF CallInv

\* For any number of calls, one drives a row: a second call with the key finds
\* the row the first has inserted.
THEOREM OneDriverCorrect == Spec => []OneDriver
<1>1. CallInv => OneDriver
  BY DEF CallInv
<1> QED
  BY <1>1, CallInvInit, CallInvStep, PTL DEF Spec

\* A retry is never told DUPLICATE_REQUEST on its own account.
THEOREM ConflictIsRealCorrect == Spec => []ConflictIsReal
<1>1. CallInv => ConflictIsReal
  BY DEF CallInv
<1> QED
  BY <1>1, CallInvInit, CallInvStep, PTL DEF Spec

-----------------------------------------------------------------------------
(* One decision per request *)

\* The call has decided its request: it is to answer, or has answered, that it
\* was admitted ("created") or that it was refused ("rejected").
Decides(c, kind) == call[c].pc \in {"respond", "answered"} /\ call[c].kind = kind

\* Of the calls with one key, however many retry or race, one decides: each of
\* the others is a replay, a conflict, an error or lost.
DecidedOnce ==
  \A c, d \in Calls : \A m, n \in {"created", "rejected"} :
    (Decides(c, m) /\ Decides(d, n) /\ call[c].key = call[d].key) => c = d

\* The decision stands: an admitted request is never found rejected, a refused
\* one never found admitted.
DecisionStands ==
  \A c \in Calls :
    /\ Decides(c, "created")  => status[call[c].key] \notin {ABSENT, "RECEIVED", "REJECTED"}
    /\ Decides(c, "rejected") => status[call[c].key] = "REJECTED"

\* A step of c that decides its request: nothing else of the calls changes.
NowDecides(c, kind) ==
  LET s == IF kind = "created" THEN "RESERVED" ELSE "REJECTED"
  IN  /\ call[c].key \in Keys /\ call'[c].key = call[c].key
      /\ status[call[c].key] = "RECEIVED" /\ status' = [status EXCEPT ![call[c].key] = s]
      /\ \A d \in Calls \ {c} : call'[d] = call[d]

LEMMA DecideStep ==
  ASSUME TypeOK, [Next]_vars, NEW d \in Calls, NEW kind \in {"created", "rejected"}, Decides(d, kind)'
  PROVE  \/ Decides(d, kind) /\ call'[d].key = call[d].key /\ call[d].key \in Keys
         \/ NowDecides(d, kind)
<1> USE DEF TypeOK, Decides
<1>k. ASSUME call[d].pc \in {"respond", "answered"}
      PROVE  call[d].key \in Keys
  BY <1>k DEF Running, Responding, Answered, Idle
<1>i. ASSUME call[d].pc \in Pcs
      PROVE  call[d].key \in Keys
  BY <1>i DEF Running, Responding, Answered, Idle, Pcs, Drives
<1> USE DEF At, Becomes, Entry, GoTo, Answer, Outcome, Because
<1>10. ASSUME NEW c \in Calls, NEW k \in Keys, NEW h \in Hashes, Post(c, k, h)
       PROVE  call'[d] = call[d]
  BY <1>10 DEF Post
<1>11. ASSUME NEW c \in Calls, FindByKey(c) \/ FindByHash(c) \/ FindAgain(c)
       PROVE  call'[d] = call[d]
  BY <1>11 DEF FindByKey, FindByHash, FindAgain
<1>13. ASSUME NEW c \in Calls, Insert(c) \/ Estimate(c) \/ OverBudget(c)
       PROVE  call'[d] = call[d]
  BY <1>13 DEF Insert, Estimate, OverBudget
<1>16. ASSUME NEW c \in Calls, Reserved(c)
       PROVE  call'[d] = call[d] \/ NowDecides(d, kind)
  <2>1. CASE c # d
    BY <1>16, <2>1 DEF Reserved
  <2>2. CASE c = d
    <3>1. call[d].key \in Keys
      BY <1>16, <1>i, <2>2 DEF Reserved, Pcs, Drives
    <3>2. call'[d].kind = "created" /\ call'[d].key = call[d].key
      BY <1>16, <2>2 DEF Reserved
    <3>3. \A e \in Calls \ {d} : call'[e] = call[e]
      BY <1>16, <2>2 DEF Reserved
    <3> QED
      BY <1>16, <2>2, <3>1, <3>2, <3>3 DEF Reserved, Move, NowDecides
  <2> QED
    BY <2>1, <2>2
<1>18. ASSUME NEW c \in Calls, Reject(c)
       PROVE  call'[d] = call[d] \/ NowDecides(d, kind)
  <2>1. CASE c # d
    BY <1>18, <2>1 DEF Reject
  <2>2. CASE c = d
    <3>1. call[d].key \in Keys
      BY <1>18, <1>i, <2>2 DEF Reject, Pcs, Drives
    <3>2. call'[d].kind = "rejected" /\ call'[d].key = call[d].key
      BY <1>18, <2>2 DEF Reject
    <3>3. \A e \in Calls \ {d} : call'[e] = call[e]
      BY <1>18, <2>2 DEF Reject
    <3> QED
      BY <1>18, <2>2, <3>1, <3>2, <3>3 DEF Reject, Move, NowDecides
  <2> QED
    BY <2>1, <2>2
<1>19. ASSUME NEW c \in Calls, Respond(c)
       PROVE  Decides(d, kind) /\ call'[d].key = call[d].key
  BY <1>19 DEF Respond
<1>20. ASSUME NEW c \in Calls, Throws(c)
       PROVE  call'[d] = call[d]
  BY <1>20 DEF Throws
<1>21. ASSUME Crash
       PROVE  call'[d] = call[d]
  BY <1>21 DEF Crash, InFlight
<1>22. ASSUME call' = call
       PROVE  call'[d] = call[d]
  BY <1>22
<1> QED
  BY <1>k, <1>10, <1>11, <1>13, <1>16, <1>18, <1>19, <1>20, <1>21, <1>22 DEF Next, CallStep, Resolve, vars

\* A decided row stays decided the same way.
LEMMA DecidedRowStays ==
  ASSUME TypeOK, [Next]_vars, NEW k \in Keys
  PROVE  /\ status[k] = "REJECTED" => status'[k] = "REJECTED"
         /\ status[k] \notin {ABSENT, "RECEIVED", "REJECTED"} => status'[k] \notin {ABSENT, "RECEIVED", "REJECTED"}
<1>1. ASSUME status[k] # ABSENT
      PROVE  status'[k] # ABSENT /\ Verdict(status[k]) \in {"pending", Verdict(status'[k])}
  BY <1>1, RowStep DEF RowsStay, Exists
<1>2. status[k] # "RECEIVED" /\ status[k] # ABSENT => Verdict(status[k]) = Verdict(status'[k])
  BY <1>1, VerdictFacts
<1>3. CASE status[k] = "REJECTED"
  <2>1. Verdict(status[k]) = "refused"
    BY <1>3, VerdictFacts
  <2>2. Verdict(status'[k]) = "refused"
    BY <1>2, <1>3, <2>1 DEF ABSENT
  <2> QED
    BY <1>3, <2>2, VerdictFacts DEF ABSENT
<1>4. CASE status[k] \notin {ABSENT, "RECEIVED", "REJECTED"}
  <2>1. Verdict(status[k]) = "admitted"
    BY <1>4, VerdictFacts
  <2>2. Verdict(status'[k]) = "admitted"
    BY <1>2, <1>4, <2>1
  <2> QED
    BY <1>4, <2>2, VerdictFacts
<1> QED
  BY <1>3, <1>4

LEMMA DecidedStep ==
  ASSUME TypeOK, DecidedOnce, DecisionStands, [Next]_vars
  PROVE  DecidedOnce' /\ DecisionStands'
<1>1. ASSUME NEW c \in Calls, NEW d \in Calls, NEW m \in {"created", "rejected"}, NEW n \in {"created", "rejected"},
             Decides(c, m)', Decides(d, n)', call'[c].key = call'[d].key, c # d
      PROVE  FALSE
  <2>1. ~(Decides(c, m) /\ call'[c].key = call[c].key /\ Decides(d, n) /\ call'[d].key = call[d].key)
    BY <1>1 DEF DecidedOnce
  <2>2. ASSUME NEW e \in Calls, NEW f \in Calls, NEW o \in {"created", "rejected"}, NEW p \in {"created", "rejected"},
               e # f, NowDecides(e, o), Decides(f, p)', call'[e].key = call'[f].key
        PROVE  FALSE
    <3>1. call'[f] = call[f] /\ status[call[f].key] = "RECEIVED"
      BY <2>2 DEF NowDecides
    <3>2. Decides(f, p)
      BY <2>2, <3>1 DEF Decides
    <3> QED
      BY <3>1, <3>2 DEF DecisionStands
  <2>3. ~NowDecides(c, m) /\ ~NowDecides(d, n)
    BY <1>1, <2>2
  <2> QED
    BY <1>1, <2>1, <2>3, DecideStep
<1>2. ASSUME NEW c \in Calls, NEW kind \in {"created", "rejected"}, Decides(c, kind)'
      PROVE  IF kind = "created" THEN status'[call'[c].key] \notin {ABSENT, "RECEIVED", "REJECTED"}
             ELSE status'[call'[c].key] = "REJECTED"
  <2>1. CASE NowDecides(c, kind)
    BY <2>1 DEF NowDecides, TypeOK, ABSENT
  <2>2. CASE Decides(c, kind) /\ call'[c].key = call[c].key /\ call[c].key \in Keys
    BY <2>2, DecidedRowStays DEF DecisionStands
  <2> QED
    BY <1>2, <2>1, <2>2, DecideStep
<1>3. DecidedOnce'
  BY <1>1 DEF DecidedOnce
<1>4. DecisionStands'
  BY <1>2 DEF DecisionStands
<1> QED
  BY <1>3, <1>4

\* Of any number of calls with one request_id one decides, and its decision
\* stands whatever is retried, throws or crashes afterwards.
THEOREM DecidedOnceCorrect == Spec => [](DecidedOnce /\ DecisionStands)
<1>1. Init => DecidedOnce /\ DecisionStands
  BY DEF Init, DecidedOnce, DecisionStands, Decides, Idle
<1> QED
  BY <1>1, TypeInit, TypeStep, DecidedStep, PTL DEF Spec

-----------------------------------------------------------------------------
(* The endpoint implements AdmissionOnce *)

\* r is an answer that says something of the request, and what it says.
Public(r) == r.pc = "answered" /\ r.kind \in Kinds \cup {"conflict"}
Saying(r) == [key |-> r.key, hash |-> r.hash,
              says |-> IF r.kind = "conflict" THEN "conflict" ELSE Verdict(r.seen)]

LEMMA ToldNow == Told = {Saying(call[c]) : c \in {d \in Calls : Public(call[d])}}
  BY DEF Told, ToldCalls, Says, At, Public, Saying

LEMMA ToldNext == Told' = {Saying(call'[c]) : c \in {d \in Calls : Public(call'[d])}}
  BY DEF Told, ToldCalls, Says, At, Public, Saying

LEMMA ToldSame ==
  ASSUME \A c \in Calls : call'[c] = call[c] \/ (~Public(call[c]) /\ ~Public(call'[c]))
  PROVE  Told' = Told
<1>1. {d \in Calls : Public(call'[d])} = {d \in Calls : Public(call[d])}
  OBVIOUS
<1>2. \A d \in Calls : Public(call[d]) => call'[d] = call[d]
  OBVIOUS
<1> QED
  BY <1>1, <1>2, ToldNow, ToldNext

LEMMA ToldAdds ==
  ASSUME NEW c \in Calls, ~Public(call[c]), Public(call'[c]), \A d \in Calls \ {c} : call'[d] = call[d]
  PROVE  Told' = Told \cup {Saying(call'[c])}
<1>1. {d \in Calls : Public(call'[d])} = {d \in Calls : Public(call[d])} \cup {c}
  OBVIOUS
<1>2. \A d \in Calls : Public(call[d]) => call'[d] = call[d]
  OBVIOUS
<1> QED
  BY <1>1, <1>2, ToldNow, ToldNext

LEMMA Quiet ==
  ASSUME Told' = Told, UNCHANGED <<status, hash>>
  PROVE  UNCHANGED Once!vars
  BY DEF Once!vars, Verdicts

\* What the row of a key says in the abstract state.
LEMMA VerdictsAt ==
  ASSUME NEW k \in Keys
  PROVE  Verdicts[k] = Verdict(status[k]) /\ Verdicts'[k] = Verdict(status'[k])
  BY DEF Verdicts

\* An answer of a conflict is a TellConflict.
LEMMA ConflictTells ==
  ASSUME CallInv, CallInv', UNCHANGED <<status, hash>>, NEW c \in Calls, call[c].pc \in Pcs,
         call' = [call EXCEPT ![c] = Entry(c, "answered", "none", "conflict", ABSENT)]
  PROVE  Once!Next
<1> DEFINE k == call[c].key
           h == call[c].hash
<1>1. call'[c] = [pc |-> "answered", key |-> k, hash |-> h, cause |-> "none", kind |-> "conflict", seen |-> ABSENT]
  BY DEF Entry, CallInv, TypeOK
<1>2. Told' = Told \cup {[key |-> k, hash |-> h, says |-> "conflict"]}
  <2>1. ~Public(call[c]) /\ Public(call'[c]) /\ \A d \in Calls \ {c} : call'[d] = call[d]
    BY <1>1 DEF Public, Pcs, Drives, CallInv, TypeOK
  <2> QED
    BY <1>1, <2>1, ToldAdds DEF Saying
<1>3. k \in Keys /\ h \in Hashes
  BY RequestType DEF CallInv, Pcs, Drives
<1>4. PICK j \in Keys : Exists(j) /\ (j = k <=> hash[j] # h)
  BY <1>1 DEF CallInv, ConflictIsReal, At, Exists
<1>5. hash[j] \in Hashes
  BY DEF CallInv, TypeOK
<1>6. Verdicts[j] # "none"
  BY <1>4, VerdictsAt, VerdictFacts DEF Exists
<1>7. Once!TellConflict(k, h)
  <2>1. Once!Taken(j, hash[j]) /\ <<j, hash[j]>> # <<k, h>> /\ (j = k \/ hash[j] = h)
    BY <1>4, <1>6 DEF Once!Taken
  <2>2. UNCHANGED <<Verdicts, hash>>
    BY DEF Verdicts
  <2> QED
    BY <1>2, <1>5, <2>1, <2>2 DEF Once!TellConflict
<1> QED
  BY <1>3, <1>7 DEF Once!Next

\* A step of a call that answers nothing yet.
LEMMA NothingTold ==
  ASSUME NEW c \in Calls, call \in [Calls -> Running \cup Responding \cup Answered \cup {Idle}],
         NEW r, call[c].pc # "answered", r.pc # "answered" \/ r.kind \in {"internal", "lost"},
         call' = [call EXCEPT ![c] = r]
  PROVE  Told' = Told
<1>1. ~Public(call[c]) /\ ~Public(r)
  BY DEF Public, Kinds
<1>2. \A d \in Calls : call'[d] = IF d = c THEN r ELSE call[d]
  OBVIOUS
<1> QED
  BY <1>1, <1>2, ToldSame

LEMMA OnceStep == CallInv /\ CallInv' /\ [Next]_vars => [Once!Next]_(Once!vars)
<1> SUFFICES ASSUME CallInv, CallInv', [Next]_vars
             PROVE  Once!Next \/ UNCHANGED Once!vars
  OBVIOUS
<1>t. TypeOK
  BY DEF CallInv
<1>c. call \in [Calls -> Running \cup Responding \cup Answered \cup {Idle}]
  BY <1>t DEF TypeOK
<1>k. ASSUME NEW c \in Calls, call[c].pc # "idle"
      PROVE  call[c].key \in Keys /\ call[c].hash \in Hashes
  BY <1>t, <1>k, RequestType
<1>q. ASSUME NEW c \in Calls, call[c].pc # "answered", NEW pc \in Pcs \cup {"respond"},
             NEW cause, NEW kind, NEW seen,
             call' = [call EXCEPT ![c] = Entry(c, pc, cause, kind, seen)]
      PROVE  Told' = Told
  <2>1. Entry(c, pc, cause, kind, seen).pc # "answered"
    BY DEF Entry, Pcs, Drives
  <2> QED
    BY <1>c, <1>q, <2>1, NothingTold
<1>g. ASSUME NEW c \in Calls, NEW from \in Pcs, At(c, from)
      PROVE  call[c].pc # "answered" /\ call[c].pc \in Pcs
  BY <1>g DEF At, Pcs, Drives
<1>1. ASSUME NEW c \in Calls, NEW k \in Keys, NEW h \in Hashes, Post(c, k, h)
      PROVE  UNCHANGED Once!vars
  BY <1>c, <1>1, NothingTold, Quiet DEF Post, At
<1>2. ASSUME NEW c \in Calls, FindByKey(c) \/ FindByHash(c) \/ FindAgain(c)
      PROVE  Once!Next \/ UNCHANGED Once!vars
  <2>1. call[c].pc # "answered" /\ call[c].pc \in Pcs /\ UNCHANGED <<status, hash>>
    BY <1>2 DEF FindByKey, FindByHash, FindAgain, At, Pcs
  <2>2. \/ call' = [call EXCEPT ![c] = Entry(c, "answered", "none", "conflict", ABSENT)]
        \/ \E pc \in Pcs \cup {"respond"}, cause \in {"none", call[c].cause}, kind \in {"none", "replay"},
              seen \in {ABSENT, status[call[c].key]} :
             call' = [call EXCEPT ![c] = Entry(c, pc, cause, kind, seen)]
    BY <1>2 DEF FindByKey, FindByHash, FindAgain, GoTo, Answer, Outcome, Becomes, Pcs
  <2> QED
    BY <1>q, <2>1, <2>2, ConflictTells, Quiet
<1>3. ASSUME NEW c \in Calls, Insert(c)
      PROVE  Once!Next \/ UNCHANGED Once!vars
  <2> DEFINE k == call[c].key
             h == call[c].hash
  <2>1. Told' = Told
    <3>1. \E pc \in Pcs, cause \in Causes : call' = [call EXCEPT ![c] = Entry(c, pc, cause, "none", ABSENT)]
      BY <1>3 DEF Insert, GoTo, Because, Becomes, Pcs, Drives, Causes
    <3> QED
      BY <1>3, <1>q, <3>1 DEF Insert, At
  <2>2. CASE UNCHANGED <<status, hash>>
    BY <2>1, <2>2, Quiet
  <2>3. CASE ~UNCHANGED <<status, hash>>
    <3>1. /\ ~Exists(k) /\ Live(h) = {}
          /\ status' = [status EXCEPT ![k] = "RECEIVED"]
          /\ hash' = [hash EXCEPT ![k] = h]
      BY <1>3, <2>3 DEF Insert, Unique
    <3>2. k \in Keys /\ h \in Hashes
      BY <1>3, <1>k DEF Insert, At
    <3>3. Verdicts[k] = "none"
      BY <3>1, <3>2, VerdictsAt, VerdictFacts DEF Exists
    <3>4. ASSUME NEW j \in Keys, Once!Taken(j, h)
          PROVE  Verdicts[j] = "refused"
      <4>1. status[j] # ABSENT /\ hash[j] = h
        BY <3>4, VerdictsAt, VerdictFacts DEF Once!Taken
      <4>2. status[j] = "REJECTED"
        BY <3>1, <4>1 DEF Live
      <4> QED
        BY <4>2, VerdictsAt, VerdictFacts
    <3>5. Verdicts' = [Verdicts EXCEPT ![k] = "pending"]
      <4>1. \A q \in Keys : status'[q] = IF q = k THEN "RECEIVED" ELSE status[q]
        BY <1>t, <3>1, <3>2 DEF TypeOK
      <4>2. Verdicts' = [q \in Keys |-> IF q = k THEN "pending" ELSE Verdict(status[q])]
        BY <4>1, VerdictFacts DEF Verdicts
      <4> QED
        BY <4>2 DEF Verdicts
    <3>6. Once!Open(k, h)
      BY <2>1, <3>1, <3>3, <3>4, <3>5 DEF Once!Open
    <3> QED
      BY <3>2, <3>6 DEF Once!Next
  <2> QED
    BY <2>2, <2>3
<1>4. ASSUME NEW c \in Calls, Estimate(c) \/ OverBudget(c)
      PROVE  UNCHANGED Once!vars
  <2>1. \E pc \in Pcs, cause \in Causes : call' = [call EXCEPT ![c] = Entry(c, pc, cause, "none", ABSENT)]
    BY <1>4 DEF Estimate, OverBudget, GoTo, Because, Becomes, Pcs, Drives, Causes
  <2>2. call[c].pc # "answered" /\ UNCHANGED <<status, hash>>
    BY <1>4 DEF Estimate, OverBudget, At
  <2> QED
    BY <1>q, <2>1, <2>2, Quiet
<1>5. ASSUME NEW c \in Calls, Reserved(c) \/ Reject(c)
      PROVE  Once!Next
  <2> DEFINE k == call[c].key
  <2>1. PICK to \in {"RESERVED", "REJECTED"} :
          /\ status[k] = "RECEIVED" /\ status' = [status EXCEPT ![k] = to] /\ UNCHANGED hash
          /\ call[c].pc \in Pcs
          /\ \E kind \in Kinds : call' = [call EXCEPT ![c] = Entry(c, "respond", call[c].cause, kind, to)]
    BY <1>5 DEF Reserved, Reject, Move, Outcome, Becomes, At, Pcs, Drives, Kinds
  <2>2. Told' = Told
    <3>1. call[c].pc # "answered"
      BY <2>1 DEF Pcs, Drives
    <3>2. PICK kind \in Kinds : call' = [call EXCEPT ![c] = Entry(c, "respond", call[c].cause, kind, to)]
      BY <2>1
    <3>3. "respond" \in Pcs \cup {"respond"}
      OBVIOUS
    <3> QED
      BY <1>q, <3>1, <3>2, <3>3
  <2>3. k \in Keys
    BY <1>k, <2>1 DEF Pcs, Drives
  <2>4. PICK v \in {"admitted", "refused"} : v = Verdict(to)
    BY <2>1, VerdictFacts DEF ABSENT
  <2>5. Verdicts' = [Verdicts EXCEPT ![k] = v]
    <3>1. \A q \in Keys : status'[q] = IF q = k THEN to ELSE status[q]
      BY <1>t, <2>1, <2>3 DEF TypeOK
    <3>2. Verdicts' = [q \in Keys |-> IF q = k THEN v ELSE Verdict(status[q])]
      BY <2>4, <3>1 DEF Verdicts
    <3> QED
      BY <3>2 DEF Verdicts
  <2>6. Once!Decide(k, v)
    BY <2>1, <2>2, <2>3, <2>5, VerdictsAt, VerdictFacts DEF Once!Decide
  <2>7. hash[k] \in Hashes
    BY <1>t, <2>3 DEF TypeOK
  <2> QED
    BY <2>3, <2>6, <2>7 DEF Once!Next
<1>6. ASSUME NEW c \in Calls, Respond(c)
      PROVE  Once!Next
  <2> DEFINE k == call[c].key
             h == call[c].hash
  <2>1. PICK s \in {call[c].seen, status[k]} :
          call' = [call EXCEPT ![c] = Entry(c, "answered", call[c].cause, call[c].kind, s)]
    BY <1>6 DEF Respond, Becomes
  <2>2. call[c].pc = "respond" /\ UNCHANGED <<status, hash>>
    BY <1>6 DEF Respond, At
  <2>3. k \in Keys /\ h \in Hashes
    BY <1>k, <2>2
  <2>4. Exists(k) /\ hash[k] = h /\ Verdict(s) \in {"pending", Verdict(status[k])}
    BY <2>1, <2>2 DEF CallInv, OutcomeIsReal, Holds
  <2>5. call[c].kind \in Kinds
    BY <1>t, <2>2 DEF TypeOK, Running, Responding, Answered, Idle, Pcs, Drives
  <2>6. Told' = Told \cup {[key |-> k, hash |-> h, says |-> Verdict(s)]}
    <3>1. call'[c] = [pc |-> "answered", key |-> k, hash |-> h, cause |-> call[c].cause, kind |-> call[c].kind, seen |-> s]
      BY <1>c, <2>1 DEF Entry
    <3>2. ~Public(call[c]) /\ Public(call'[c]) /\ \A d \in Calls \ {c} : call'[d] = call[d]
      BY <1>c, <2>1, <2>2, <2>5, <3>1 DEF Public
    <3>3. Saying(call'[c]) = [key |-> k, hash |-> h, says |-> Verdict(s)]
      BY <2>5, <3>1 DEF Saying, Kinds
    <3> QED
      BY <3>2, <3>3, ToldAdds
  <2>7. Verdicts[k] = Verdict(status[k]) /\ Verdicts[k] # "none"
    BY <2>3, <2>4, VerdictsAt, VerdictFacts DEF Exists
  <2>8. Verdict(s) \in {"pending", "admitted", "refused"}
    BY <2>4, <2>7 DEF Verdict
  <2>9. Once!Tell(k, h, Verdict(s))
    <3>1. UNCHANGED <<Verdicts, hash>>
      BY <2>2 DEF Verdicts
    <3> QED
      BY <2>4, <2>6, <2>7, <3>1 DEF Once!Tell, Once!Taken
  <2> QED
    BY <2>3, <2>8, <2>9 DEF Once!Next
<1>7. ASSUME NEW c \in Calls, Throws(c)
      PROVE  UNCHANGED Once!vars
  <2>1. call[c].pc # "answered" /\ UNCHANGED <<status, hash>>
        /\ call' = [call EXCEPT ![c] = Entry(c, "answered", "none", "internal", ABSENT)]
    BY <1>7 DEF Throws, InFlight, Pcs, Drives, Answer, Becomes
  <2>2. Entry(c, "answered", "none", "internal", ABSENT).kind = "internal"
    BY DEF Entry
  <2> QED
    BY <1>c, <2>1, <2>2, NothingTold, Quiet
<1>8. ASSUME Crash
      PROVE  UNCHANGED Once!vars
  <2>1. \A c \in Calls : call'[c] = call[c] \/ (InFlight(c) /\ call'[c].kind = "lost")
    BY <1>8 DEF Crash, Entry
  <2>2. \A c \in Calls : call'[c] = call[c] \/ (~Public(call[c]) /\ ~Public(call'[c]))
    BY <2>1 DEF InFlight, Public, Pcs, Drives, Kinds
  <2> QED
    BY <1>8, <2>2, ToldSame, Quiet DEF Crash
<1>9. ASSUME NEW k \in Keys, NEW end \in Endings, Resolve(k, end)
      PROVE  UNCHANGED Once!vars
  <2>1. \A q \in Keys : Verdict(status'[q]) = Verdict(status[q])
    <3>1. \A q \in Keys : status'[q] = status[q] \/ (status[q] = "RESERVED" /\ status'[q] = end)
      BY <1>t, <1>9 DEF Resolve, TypeOK
    <3>2. Verdict(end) = "admitted" /\ Verdict("RESERVED") = "admitted"
      BY VerdictFacts, EndingFacts DEF ABSENT
    <3> QED
      BY <3>1, <3>2
  <2>2. Verdicts' = Verdicts
    BY <2>1 DEF Verdicts
  <2>3. Told' = Told
    BY <1>9, ToldSame DEF Resolve
  <2> QED
    BY <1>9, <2>2, <2>3 DEF Resolve, Once!vars
<1>10. CASE UNCHANGED vars
  BY <1>10, ToldSame, Quiet DEF vars
<1> QED
  BY <1>1, <1>2, <1>3, <1>4, <1>5, <1>6, <1>7, <1>8, <1>9, <1>10 DEF Next, CallStep

LEMMA OnceInit == Init => Once!Init
<1> SUFFICES ASSUME Init
             PROVE  Once!Init
  OBVIOUS
<1>1. Verdicts = [k \in Keys |-> "none"]
  BY VerdictFacts DEF Init, Verdicts
<1>2. Told = {}
  BY ToldNow DEF Init, Public, Idle
<1> QED
  BY <1>1, <1>2 DEF Init, Once!Init

\* Every behaviour of the endpoint is one of AdmissionOnce: a request_id is
\* decided once, for one transaction, and all its answers agree.
THEOREM OnceCorrect == Spec => ImplementsOnce
<1>1. CallInv /\ [Next]_vars => CallInv'
  BY CallInvStep
<1>2. CallInv /\ CallInv' /\ [Next]_vars => [Once!Next]_(Once!vars)
  BY OnceStep
<1> QED
  BY <1>1, <1>2, CallInvInit, OnceInit, PTL DEF Spec, ImplementsOnce, Once!Spec

=============================================================================
