--------------------------- MODULE AllowlistProofs ---------------------------
(***************************************************************************)
(* Theorems about AllowlistDapp, for any number of secrets, handlers and   *)
(* concurrent reads of the public record, and any capacity of the tree:    *)
(* the inductive invariant Inv, the safety invariants it implies, and the  *)
(* refinement of AllowlistDoor.                                            *)
(***************************************************************************)
EXTENDS AllowlistDapp, FiniteSetTheorems, TLAPS

Ledgers == [leaves : Seq(Commitments), history : SUBSET Seq(Commitments),
            nullifiers : SUBSET Nullifiers, admissions : Nat,
            owner : {CommitmentFor(Owner)}]
Roots == Seq(Commitments \cup {Unset})
Txs == [kind : {"add"}, key : Commitments, root : Roots]
         \cup [kind : {"claim"}, key : Nullifiers, root : Roots]
Flights == [tx : Txs, state : {"none", "queued", "confirmed", "failed"}]
Answers == {"yes", "no", "unknown"}
Renderings == [of : Secrets, listed : Answers, entered : Answers]
Reads == [busy : BOOLEAN, view : Ledgers]
Jobs == [kind : {"none", "claim", "add"},
         pc : {"free", "checking", "keys", "storing", "finding",
               "proving", "polling", "closing"},
         held : Secrets, todo : SUBSET Commitments, tx : Txs,
         result : {"", "failed", "done", "through"}]

(* The types of the variables, as the sets TypeOK describes.               *)
DappType ==
  /\ chain \in Ledgers
  /\ flight \in [Senders -> Flights]
  /\ secret \in Secrets
  /\ store \in [secret : Secrets]
  /\ wallet \in {"none", "connected"}
  /\ button \in BOOLEAN
  /\ read \in [PageReads -> Reads]
  /\ shown \in Renderings
  /\ job \in [Slots -> Jobs]

(* What the chain never takes back.                                        *)
Grows(old, new) ==
  /\ old.history \subseteq new.history
  /\ old.nullifiers \subseteq new.nullifiers
  /\ \A s \in Secrets : Listed(old, s) => Listed(new, s)

(* The present root and the first one are roots of the history; the        *)
(* admissions count the nullifiers; each nullifier is of a member.         *)
ChainOK ==
  /\ {Root(chain.leaves), Root(<<>>)} \subseteq chain.history
  /\ IsFiniteSet(chain.nullifiers)
  /\ chain.admissions = Cardinality(chain.nullifiers)
  /\ \A n \in chain.nullifiers : \E s \in Secrets : n = NullifierFor(s) /\ Listed(chain, s)

(* A claim under way is of a member and names a root of the history; what  *)
(* was confirmed is on chain.                                              *)
ClaimOf(tx, ledger) ==
  /\ tx.root \in ledger.history
  /\ \E s \in Secrets : tx.key = NullifierFor(s) /\ Listed(ledger, s)
FlightOK(f, ledger) ==
  f.tx.kind = "claim" =>
    /\ f.state = "queued" => ClaimOf(f.tx, ledger)
    /\ f.state = "confirmed" => f.tx.key \in ledger.nullifiers
FlightsOK == \A i \in Senders : FlightOK(flight[i], chain)

(* A handler of "claim" waits for a claim, and "through" is final.         *)
JobOK(b, f, ledger) ==
  /\ b.kind = "claim" /\ b.pc = "polling" => f.tx.kind = "claim"
  /\ b.result = "through" => b.tx.key \in ledger.nullifiers
JobsOK == \A j \in Slots : JobOK(job[j], flight[j], chain)

(* What was read or rendered is at most what the chain holds.              *)
ReadsOK == \A r \in PageReads : Grows(read[r].view, chain)

Inv == DappType /\ ChainOK /\ FlightsOK /\ JobsOK /\ ReadsOK /\ ShownYesIsTrue
-----------------------------------------------------------------------------
(* A sequence of elements of a set is one of any larger set.               *)
LEMMA SeqOfMore ==
  ASSUME NEW S, NEW T, S \subseteq T, NEW q \in Seq(S)
  PROVE  q \in Seq(T)
<1>1. \A i \in 1..Len(q) : q[i] \in T
  OBVIOUS
<1>2. q \in [1..Len(q) -> T] /\ Len(q) \in Nat
  BY <1>1
<1> QED
  BY <1>2

(* The data of the contract.                                               *)
LEMMA NoJobType == NoJob \in Jobs /\ NoFlight \in Flights /\ Deployed \in Ledgers
<1> USE OwnerAssumption
<1>1. CommitmentFor(Owner) \in Commitments
  BY DEF Commitments
<1>2. NoRoot \in Roots
  BY DEF NoRoot, Roots
<1>3. AddTx(CommitmentFor(Owner)) \in Txs
  BY <1>1, <1>2 DEF AddTx, Txs
<1>4. Deployed \in Ledgers
  BY DEF Deployed, InitialState, Ledgers, Root
<1> QED
  BY <1>3, <1>4 DEF NoJob, Jobs, NoFlight, Flights

(* A claim that passes the checks of its circuit names the present root    *)
(* and the nullifier of a member.                                          *)
LEMMA ClaimProved ==
  ASSUME NEW ledger \in Ledgers, NEW state \in [secret : Secrets],
         ClaimAccessError(ledger, state) = ""
  PROVE  /\ ClaimAccess(ledger, state) = ClaimTx(NullifierFor(state.secret), ledger.leaves)
         /\ ClaimAccess(ledger, state) \in Txs
         /\ Listed(ledger, state.secret)
<1> DEFINE found == FindPathForLeaf(ledger, CommitmentFor(state.secret))
<1>1. MemberPath(ledger, state).leaf = CommitmentFor(state.secret)
  BY DEF ClaimAccessError, LocalSecret
<1>2. CommitmentFor(state.secret) # Unset
  BY DEF CommitmentFor, Unset
<1>3. found # {}
  <2>1. EmptyPath.leaf = Unset
    BY DEF EmptyPath
  <2> QED
    BY <1>1, <1>2, <2>1 DEF MemberPath
<1>4. ASSUME NEW p \in found PROVE p.root = ledger.leaves
  <2>1. PICK i \in DOMAIN ledger.leaves :
          p = [leaf |-> CommitmentFor(state.secret), root |-> Root(ledger.leaves)]
    BY DEF FindPathForLeaf
  <2> QED
    BY <2>1 DEF Root
<1>5. MemberPath(ledger, state) \in found
  BY <1>3 DEF MemberPath
<1>6. MemberPath(ledger, state).root = ledger.leaves
  BY <1>4, <1>5
<1>7. Listed(ledger, state.secret)
  BY <1>3 DEF FindPathForLeaf, Listed
<1>8. ledger.leaves \in Roots
  <2>1. ledger.leaves \in Seq(Commitments)
    BY DEF Ledgers
  <2> QED
    BY <2>1, SeqOfMore DEF Roots
<1>9. NullifierFor(state.secret) \in Nullifiers
  BY DEF Nullifiers
<1>10. ClaimAccess(ledger, state) = ClaimTx(NullifierFor(state.secret), ledger.leaves)
  BY <1>6 DEF ClaimAccess, LocalSecret
<1>11. ClaimTx(NullifierFor(state.secret), ledger.leaves) \in Txs
  <2> HIDE DEF found
  <2> QED
    BY <1>8, <1>9 DEF ClaimTx, Txs
<1> QED
  BY <1>7, <1>10, <1>11

(* A transaction the chain applies leaves a ledger that has grown.         *)
LEMMA AppliedGrows ==
  ASSUME NEW ledger \in Ledgers, NEW tx \in Txs
  PROVE  Applied(ledger, tx) \in Ledgers /\ Grows(ledger, Applied(ledger, tx))
<1>1. CASE tx.kind = "add"
  <2>1. tx.key \in Commitments
    BY <1>1 DEF Txs
  <2> DEFINE new == Append(ledger.leaves, tx.key)
  <2>2. /\ new \in Seq(Commitments)
        /\ \A i \in DOMAIN ledger.leaves : i \in DOMAIN new /\ new[i] = ledger.leaves[i]
    <3>1. ledger.leaves \in Seq(Commitments)
      BY DEF Ledgers
    <3> QED
      BY <2>1, <3>1
  <2>3. Applied(ledger, tx) =
          [leaves |-> new, history |-> ledger.history \cup {new},
           nullifiers |-> ledger.nullifiers, admissions |-> ledger.admissions,
           owner |-> ledger.owner]
    BY <1>1 DEF Applied, InsertMember, Root
  <2>4. Applied(ledger, tx) \in Ledgers
    <3> HIDE DEF new
    <3>1. ledger.history \cup {new} \in SUBSET Seq(Commitments)
      BY <2>2 DEF Ledgers
    <3> QED
      BY <2>2, <2>3, <3>1 DEF Ledgers
  <2>5. Grows(ledger, Applied(ledger, tx))
    <3> HIDE DEF new
    <3>1. \A s \in Secrets : Listed(ledger, s) => Listed(Applied(ledger, tx), s)
      BY <2>2, <2>3 DEF Listed
    <3> QED
      BY <2>3, <3>1 DEF Grows
  <2> QED
    BY <2>4, <2>5
<1>2. CASE tx.kind = "claim"
  <2>1. tx.key \in Nullifiers
    BY <1>2 DEF Txs
  <2> QED
    BY <1>2, <2>1 DEF Applied, InsertNullifier, Ledgers, Grows, Listed
<1> QED
  BY <1>1, <1>2 DEF Txs
-----------------------------------------------------------------------------
(* Types.                                                                  *)
LEMMA QuietType == Quiet \in Reads
  BY NoJobType DEF Quiet, Reads

(* A handler ends.                                                         *)
LEMMA EndType ==
  ASSUME DappType, NEW j \in Slots, NEW answer \in {"failed", "done", "through"}, End(j, answer)
  PROVE  job' \in [Slots -> Jobs]
<1> DEFINE ended == [NoJob EXCEPT !.kind = job[j].kind, !.pc = "closing",
                       !.tx = IF answer = "through" THEN flight[j].tx ELSE @,
                       !.result = answer]
<1>1. job[j] \in Jobs /\ flight[j] \in Flights
  BY DEF DappType, Senders
<1>2. flight[j].tx \in Txs
  BY <1>1 DEF Flights
<1>3. ended \in Jobs
  BY <1>1, <1>2, NoJobType DEF NoJob, Jobs
<1>4. job' = [job EXCEPT ![j] = ended]
  BY DEF End
<1> HIDE DEF ended
<1> QED
  BY <1>3, <1>4 DEF DappType

(* A handler looks for a wallet.                                           *)
LEMMA ProvidersType ==
  ASSUME NEW b \in Jobs
  PROVE  /\ Providers(b) \in Jobs
         /\ Providers(b).pc # "polling"
         /\ Providers(b).result = "through" => b.result = "through" /\ Providers(b).tx = b.tx
<1>1. [b EXCEPT !.pc = "keys"] \in Jobs
  BY DEF Jobs
<1>2. /\ [NoJob EXCEPT !.kind = b.kind, !.pc = "closing", !.result = "failed"] \in Jobs
      /\ [NoJob EXCEPT !.kind = b.kind, !.pc = "closing", !.result = "failed"].pc = "closing"
      /\ [NoJob EXCEPT !.kind = b.kind, !.pc = "closing", !.result = "failed"].result = "failed"
  BY NoJobType DEF NoJob, Jobs
<1>3. /\ [b EXCEPT !.pc = "keys"].pc = "keys"
      /\ [b EXCEPT !.pc = "keys"].result = b.result
      /\ [b EXCEPT !.pc = "keys"].tx = b.tx
  BY DEF Jobs
<1> QED
  BY <1>1, <1>2, <1>3 DEF Providers

(* A handler goes on.                                                      *)
LEMMA GoOnType ==
  ASSUME DappType, NEW j \in Slots, NEW next \in Jobs, job' = [job EXCEPT ![j] = next]
  PROVE  job' \in [Slots -> Jobs]
  BY DEF DappType

(* A transaction is sent.                                                  *)
LEMMA SendType ==
  ASSUME DappType, NEW i \in Senders, NEW tx \in Txs, Send(i, tx)
  PROVE  flight' \in [Senders -> Flights]
<1>1. [tx |-> tx, state |-> "queued"] \in Flights
  BY DEF Flights
<1> QED
  BY <1>1 DEF Send, DappType

(* The service decides a request.                                          *)
LEMMA DecideType ==
  ASSUME DappType, NEW i \in Senders, NEW answer \in {"confirmed", "failed"}, Decide(i, answer)
  PROVE  flight' \in [Senders -> Flights]
<1>1. flight[i] \in Flights
  BY DEF DappType
<1>2. [flight[i] EXCEPT !.state = answer] \in Flights
  BY <1>1 DEF Flights
<1> QED
  BY <1>2, NoJobType DEF Decide, DappType

(* A handler submits a transaction, in any of the ways it may go.          *)
LEMMA SubmitType ==
  ASSUME DappType, NEW j \in Slots, NEW tx \in Txs, Submit(j, tx)
  PROVE  flight' \in [Senders -> Flights] /\ job' \in [Slots -> Jobs] /\ UNCHANGED pageVars
<1>0. j \in Senders /\ job[j] \in Jobs
  BY DEF DappType, Senders
<1>1. CASE End(j, "failed") /\ (UNCHANGED flight \/ Send(j, tx))
  <2>1. job' \in [Slots -> Jobs]
    BY <1>1, EndType
  <2>2. flight' \in [Senders -> Flights]
    BY <1>0, <1>1, SendType DEF DappType
  <2> QED
    BY <1>1, <2>1, <2>2 DEF End
<1>2. CASE Accepted(j, tx)
  <2> DEFINE next == [job[j] EXCEPT !.pc = "polling", !.held = Owner, !.todo = @ \ {tx.key}]
  <2>1. next \in Jobs
    BY <1>0, OwnerAssumption DEF Jobs
  <2>2. job' = [job EXCEPT ![j] = next]
    BY <1>0, <1>2 DEF Accepted, DappType
  <2> HIDE DEF next
  <2>3. job' \in [Slots -> Jobs]
    BY <2>1, <2>2, GoOnType
  <2> QED
    BY <1>0, <1>2, <2>3, SendType DEF Accepted
<1> QED
  BY <1>1, <1>2 DEF Submit, Unbalanced, Refused, CallFails

(* A view is rendered.                                                     *)
LEMMA ShowType ==
  ASSUME DappType, NEW view \in Ledgers, Show(view)
  PROVE  shown' \in Renderings
  BY DEF DappType, Show, Verdict, Renderings, Answers

(* A read is started.                                                      *)
LEMMA RefreshType ==
  ASSUME DappType, NEW r \in PageReads, Refresh(r)
  PROVE  read' \in [PageReads -> Reads]
<1>1. [busy |-> TRUE, view |-> chain] \in Reads
  BY DEF DappType, Reads
<1> QED
  BY <1>1 DEF Refresh, DappType

(* A step of the page keeps the types.                                     *)
LEMMA PageType ==
  ASSUME DappType, Page
  PROVE  DappType'
<1>1. ASSUME NEW r \in PageReads, FieldChange(r) PROVE DappType'
  BY <1>1, RefreshType DEF FieldChange, DappType
<1>2. ASSUME NEW r \in PageReads, ReadFails(r) PROVE DappType'
  BY <1>2, QuietType DEF ReadFails, DappType
<1>3. ASSUME NEW r \in PageReads, Render(r) PROVE DappType'
  <2>1. read[r].view \in Ledgers
    BY DEF DappType, Reads
  <2>2. shown' \in Renderings
    BY <1>3, <2>1, ShowType DEF Render
  <2>3. button' \in BOOLEAN
    BY <1>3 DEF Render, MayClaim
  <2> QED
    BY <1>3, <2>2, <2>3, QuietType DEF Render, DappType
<1>4. ASSUME NEW r \in PageReads, NEW s \in Secrets, SetSecret(s, r) PROVE DappType'
  BY <1>4, RefreshType DEF SetSecret, DappType
<1>5. ASSUME NEW r \in PageReads, Connect(r) \/ Disconnect(r) PROVE DappType'
  BY <1>5, RefreshType DEF Connect, Disconnect, Move, DappType
<1>6. ASSUME NEW r \in PageReads, Reload(r) PROVE DappType'
  <2>1. shown' \in Renderings
    BY <1>6 DEF Reload, Unrendered, Renderings, Answers, DappType
  <2>2. [busy |-> TRUE, view |-> chain] \in Reads
    BY DEF DappType, Reads
  <2>3. read' \in [PageReads -> Reads]
    BY <1>6, <2>2, QuietType DEF Reload
  <2>4. flight' \in [Senders -> Flights] /\ job' \in [Slots -> Jobs]
    BY <1>6, NoJobType DEF Reload, DappType
  <2> QED
    BY <1>6, <2>1, <2>3, <2>4 DEF Reload, DappType
<1> QED
  BY <1>1, <1>2, <1>3, <1>4, <1>5, <1>6 DEF Page

(* A step of the service, the chain or the script keeps the types.         *)
LEMMA OutsideType ==
  ASSUME DappType, Outside
  PROVE  DappType'
<1>1. ASSUME NEW i \in Senders, Include(i) PROVE DappType'
  <2>1. flight[i].tx \in Txs
    BY DEF DappType, Flights
  <2>2. chain' \in Ledgers
    BY <1>1, <2>1, AppliedGrows DEF Include, DappType
  <2>3. flight' \in [Senders -> Flights]
    BY <1>1, DecideType DEF Include
  <2> QED
    BY <1>1, <2>2, <2>3 DEF Include, DappType, pageVars
<1>2. ASSUME NEW i \in Senders, Drop(i) PROVE DappType'
  BY <1>2, DecideType DEF Drop, DappType, pageVars
<1>3. ASSUME NEW s \in Joining, ScriptClaim(s) PROVE DappType'
  <2>1. CreatePrivateState(s) \in [secret : Secrets] /\ Script \in Senders
    BY JoiningAssumption DEF CreatePrivateState, Senders
  <2>2. ClaimAccess(chain, CreatePrivateState(s)) \in Txs
    BY <1>3, <2>1, ClaimProved DEF ScriptClaim, DappType
  <2>3. flight' \in [Senders -> Flights]
    BY <1>3, <2>1, <2>2, SendType DEF ScriptClaim, PayItself
  <2> QED
    BY <1>3, <2>3 DEF ScriptClaim, DappType, pageVars
<1>4. ASSUME NEW s \in Joining, ScriptAdd(CommitmentFor(s)) PROVE DappType'
  <2>1. CommitmentFor(s) \in Commitments /\ Script \in Senders
    BY JoiningAssumption DEF Commitments, Senders
  <2>2. AddTx(CommitmentFor(s)) \in Txs
    BY <2>1 DEF AddTx, Txs, Roots, NoRoot
  <2>3. flight' \in [Senders -> Flights]
    BY <1>4, <2>1, <2>2, SendType DEF ScriptAdd, PayItself
  <2> QED
    BY <1>4, <2>3 DEF ScriptAdd, DappType, pageVars
<1> QED
  BY <1>1, <1>2, <1>3, <1>4 DEF Outside

(* A step of a handler keeps the types.                                    *)
LEMMA HandlerType ==
  ASSUME DappType, NEW j \in Slots, Handler(j)
  PROVE  DappType'
<1>0. job[j] \in Jobs /\ flight[j] \in Flights /\ j \in Senders
  BY DEF DappType, Senders
<1>1. CASE ClaimClick(j)
  <2>1. [NoJob EXCEPT !.kind = "claim"] \in Jobs
    BY NoJobType DEF Jobs
  <2>2. Providers([NoJob EXCEPT !.kind = "claim"]) \in Jobs
    BY <2>1, ProvidersType
  <2> QED
    BY <1>1, <2>2 DEF ClaimClick, DappType
<1>2. ASSUME NEW s \in Secrets, NEW cs \in Batches, AddClick(j, s, cs) PROVE DappType'
  <2>1. [NoJob EXCEPT !.kind = "add", !.pc = "checking", !.held = s, !.todo = cs] \in Jobs
    BY NoJobType, BatchAssumption DEF Jobs
  <2> QED
    BY <1>2, <2>1 DEF AddClick, DappType
<1>3. CASE AddCheck(j)
  <2> DEFINE next == Providers([job[j] EXCEPT !.todo = {c \in @ : FindPathForLeaf(chain, c) = {}}])
  <2>1. next \in Jobs
    <3>1. [job[j] EXCEPT !.todo = {c \in @ : FindPathForLeaf(chain, c) = {}}] \in Jobs
      BY <1>0 DEF Jobs
    <3> QED
      BY <3>1, ProvidersType
  <2>2. CASE job' = [job EXCEPT ![j] = next] /\ UNCHANGED pageVars
    <3> HIDE DEF next
    <3> QED
      BY <1>3, <2>1, <2>2, GoOnType DEF AddCheck, DappType, pageVars
  <2>3. CASE End(j, "failed")
    BY <1>3, <2>3, EndType DEF AddCheck, End, DappType, pageVars
  <2>4. \/ job' = [job EXCEPT ![j] = next] /\ UNCHANGED pageVars
        \/ End(j, "failed")
    BY <1>0, <1>3 DEF AddCheck
  <2> QED
    BY <2>2, <2>3, <2>4
<1>4. CASE NoKeys(j) \/ AllAdded(j) \/ PollGivesUp(j)
  <2>1. \E answer \in {"failed", "done"} : End(j, answer)
    BY <1>4 DEF NoKeys, AllAdded, PollGivesUp
  <2>2. job' \in [Slots -> Jobs] /\ UNCHANGED pageVars
    BY <2>1, EndType DEF End
  <2> QED
    BY <1>4, <2>2 DEF NoKeys, AllAdded, PollGivesUp, DappType, pageVars
<1>5. CASE StoreSecret(j) \/ FindContract(j) \/ Found(j)
  <2>1. ToStore(j) \in [secret : Secrets] /\ LocalSecret(ToStore(j)) \in Secrets
    BY <1>0 DEF ToStore, CreatePrivateState, LocalSecret, DappType, Jobs
  <2>2. CreatePrivateState(job[j].held) \in [secret : Secrets]
    BY <1>0 DEF CreatePrivateState, Jobs
  <2>3. job' \in [Slots -> Jobs]
    <3>1. \A pc \in {"storing", "finding", "proving"}, h \in Secrets :
            /\ [job[j] EXCEPT !.pc = pc] \in Jobs
            /\ [job[j] EXCEPT !.pc = pc, !.held = h] \in Jobs
      BY <1>0 DEF Jobs
    <3> QED
      BY <1>0, <1>5, <2>1, <3>1 DEF StoreSecret, FindContract, Found, DappType
  <2> QED
    BY <1>5, <2>1, <2>2, <2>3 DEF StoreSecret, FindContract, Found, DappType, pageVars
<1>6. CASE ProveClaim(j)
  <2>1. CASE ClaimAccessError(chain, store) = ""
    <3>1. ClaimAccess(chain, store) \in Txs
      BY <2>1, ClaimProved DEF DappType
    <3> QED
      BY <1>6, <2>1, <3>1, SubmitType DEF ProveClaim, DappType, pageVars
  <2>2. CASE ClaimAccessError(chain, store) # ""
    BY <1>6, <2>2, EndType DEF ProveClaim, End, DappType, pageVars
  <2> QED
    BY <2>1, <2>2
<1>7. ASSUME NEW c \in Commitments, ProveAdd(j, c) PROVE DappType'
  <2>1. AddTx(c) \in Txs
    BY DEF AddTx, Txs, Roots, NoRoot
  <2>2. CASE AddMemberError(chain, store) = ""
    BY <1>7, <2>1, <2>2, SubmitType DEF ProveAdd, DappType, pageVars
  <2>3. CASE AddMemberError(chain, store) # ""
    BY <1>7, <2>3, EndType DEF ProveAdd, End, DappType, pageVars
  <2> QED
    BY <2>2, <2>3
<1>8. CASE PollSettled(j)
  <2>1. flight' \in [Senders -> Flights]
    BY <1>8, NoJobType DEF PollSettled, DappType
  <2>2. job' \in [Slots -> Jobs] /\ UNCHANGED pageVars
    <3>1. CASE \E answer \in {"failed", "through"} : End(j, answer)
      BY <3>1, EndType DEF End
    <3>2. CASE job' = [job EXCEPT ![j].pc = "proving"] /\ UNCHANGED pageVars
      <4>1. [job[j] EXCEPT !.pc = "proving"] \in Jobs
        BY <1>0 DEF Jobs
      <4> QED
        BY <3>2, <4>1 DEF DappType
    <3> QED
      BY <1>8, <3>1, <3>2 DEF PollSettled
  <2> QED
    BY <1>8, <2>1, <2>2 DEF PollSettled, DappType, pageVars
<1>9. CASE Close(j)
  <2>1. job' \in [Slots -> Jobs]
    BY <1>9, NoJobType DEF Close, DappType
  <2>2. shown' \in Renderings
    BY <1>9, ShowType DEF Close, DappType
  <2>3. button' \in BOOLEAN
    BY <1>9 DEF Close, MayClaim, DappType
  <2> QED
    BY <1>9, <2>1, <2>2, <2>3 DEF Close, DappType
<1> QED
  BY <1>1, <1>2, <1>3, <1>4, <1>5, <1>6, <1>7, <1>8, <1>9 DEF Handler

(* Every step keeps the types.                                             *)
LEMMA TypeStep ==
  ASSUME DappType, [Next]_vars
  PROVE  DappType'
<1>1. CASE UNCHANGED vars
  BY <1>1 DEF vars, DappType
<1> QED
  BY <1>1, PageType, OutsideType, HandlerType DEF Next
-----------------------------------------------------------------------------
(* Growth of the ledger.                                                   *)
LEMMA GrowsOn ==
  ASSUME NEW a, NEW b, NEW c, Grows(a, b), Grows(b, c)
  PROVE  Grows(a, c)
  BY DEF Grows

(* What is true of a claim stays true as the chain grows.                  *)
LEMMA KeptWhileGrowing ==
  ASSUME NEW a, NEW b, Grows(a, b)
  PROVE  /\ \A tx : ClaimOf(tx, a) => ClaimOf(tx, b)
         /\ \A f : FlightOK(f, a) => FlightOK(f, b)
         /\ \A w, f : JobOK(w, f, a) => JobOK(w, f, b)
  BY DEF Grows, ClaimOf, FlightOK, JobOK

(* Every chain has grown from the deployed one.                            *)
LEMMA QuietGrows == DappType /\ ChainOK => Grows(Quiet.view, chain)
  BY DEF Quiet, Deployed, InitialState, Grows, Listed, ChainOK, Root

(* What is included: the chain grows, and is in order.                     *)
LEMMA IncludeChain ==
  ASSUME DappType, ChainOK, FlightsOK, NEW i \in Senders, Include(i)
  PROVE  /\ Grows(chain, chain')
         /\ ChainOK'
         /\ flight[i].tx.kind = "claim" => flight[i].tx.key \in chain'.nullifiers
<1> DEFINE tx == flight[i].tx
<1>0. tx \in Txs /\ chain \in Ledgers /\ flight[i].state = "queued" /\ FlightOK(flight[i], chain)
  BY DEF DappType, Flights, FlightsOK, Include
<1>1. chain' = Applied(chain, tx) /\ Accepts(chain, tx)
  BY DEF Include
<1>2. Grows(chain, chain') /\ chain' \in Ledgers
  BY <1>0, <1>1, AppliedGrows
<1>3. CASE tx.kind = "add"
  <2>1. /\ chain'.nullifiers = chain.nullifiers
        /\ chain'.admissions = chain.admissions
        /\ chain'.history = chain.history \cup {Root(chain'.leaves)}
    BY <1>1, <1>3 DEF Applied, InsertMember
  <2>2. \A n \in chain.nullifiers : \E s \in Secrets : n = NullifierFor(s) /\ Listed(chain', s)
    BY <1>2 DEF ChainOK, Grows
  <2> QED
    BY <1>2, <1>3, <2>1, <2>2 DEF ChainOK
<1>4. CASE tx.kind = "claim"
  <2>1. /\ chain'.nullifiers = chain.nullifiers \cup {tx.key}
        /\ chain'.admissions = chain.admissions + 1
        /\ chain'.history = chain.history
        /\ chain'.leaves = chain.leaves
    BY <1>1, <1>4 DEF Applied, InsertNullifier
  <2>2. tx.key \notin chain.nullifiers
    BY <1>1, <1>4 DEF Accepts, Member
  <2>3. IsFiniteSet(chain'.nullifiers) /\ Cardinality(chain'.nullifiers) = Cardinality(chain.nullifiers) + 1
    <3> DEFINE old == chain.nullifiers
               key == tx.key
    <3>1. IsFiniteSet(old)
      BY DEF ChainOK
    <3>2. key \notin old /\ chain'.nullifiers = old \cup {key}
      BY <2>1, <2>2
    <3> HIDE DEF old, key
    <3>3. IsFiniteSet(old \cup {key}) /\ Cardinality(old \cup {key}) = Cardinality(old) + 1
      BY <3>1, <3>2, FS_AddElement
    <3> USE DEF old
    <3> QED
      BY <3>2, <3>3
  <2>4. \E s \in Secrets : tx.key = NullifierFor(s) /\ Listed(chain, s)
    BY <1>0, <1>4 DEF FlightOK, ClaimOf
  <2>5. \A n \in chain'.nullifiers : \E s \in Secrets : n = NullifierFor(s) /\ Listed(chain, s)
    BY <2>1, <2>4 DEF ChainOK
  <2>6. \A n \in chain'.nullifiers : \E s \in Secrets : n = NullifierFor(s) /\ Listed(chain', s)
    BY <1>2, <2>5 DEF Grows
  <2> QED
    BY <1>2, <1>4, <2>1, <2>3, <2>6 DEF ChainOK
<1> QED
  BY <1>0, <1>3, <1>4 DEF Txs

(* Every other step leaves the chain alone.                                *)
LEMMA OnlyIncludes ==
  ASSUME Next
  PROVE  chain' = chain \/ \E i \in Senders : Include(i)
<1>1. ASSUME Page PROVE chain' = chain
  BY <1>1 DEF Page, FieldChange, ReadFails, Render, SetSecret, Connect, Disconnect, Move, Reload
<1>2. ASSUME Outside PROVE chain' = chain \/ \E i \in Senders : Include(i)
  BY <1>2 DEF Outside, Drop, ScriptClaim, ScriptAdd
<1>3. ASSUME NEW j \in Slots, Handler(j) PROVE chain' = chain
  BY <1>3 DEF Handler, ClaimClick, AddClick, AddCheck, NoKeys, StoreSecret,
     FindContract, Found, ProveClaim, AllAdded, ProveAdd, PollSettled, PollGivesUp, Close
<1> QED
  BY <1>1, <1>2, <1>3 DEF Next

(* Every step keeps the ledger consistent, and it grows.                   *)
LEMMA ChainStep ==
  ASSUME DappType, ChainOK, FlightsOK, Next
  PROVE  ChainOK' /\ Grows(chain, chain')
<1>1. CASE chain' = chain
  BY <1>1 DEF ChainOK, Grows
<1> QED
  BY <1>1, IncludeChain, OnlyIncludes
(* What a handler leaves when it ends or goes on.                          *)
LEMMA EndJobs ==
  ASSUME DappType, JobsOK, NEW j \in Slots, NEW answer \in {"failed", "done"}, End(j, answer),
         chain' = chain, \A i \in Slots : i # j => flight'[i] = flight[i]
  PROVE  JobsOK'
<1>1. job' \in [Slots -> Jobs] /\ job \in [Slots -> Jobs]
  BY EndType DEF DappType
<1>2. job'[j].pc = "closing" /\ job'[j].result = answer
  BY <1>1 DEF End, NoJob, DappType
<1>3. \A i \in Slots : i # j => job'[i] = job[i]
  BY <1>1 DEF End
<1>4. \A i \in Slots : JobOK(job'[i], flight'[i], chain')
  BY <1>2, <1>3 DEF JobsOK, JobOK
<1> QED
  BY <1>4 DEF JobsOK

(* A handler goes on.                                                      *)
LEMMA GoOnJobs ==
  ASSUME DappType, JobsOK, NEW j \in Slots, NEW next \in Jobs, job' = [job EXCEPT ![j] = next],
         JobOK(next, flight'[j], chain),
         chain' = chain, \A i \in Slots : i # j => flight'[i] = flight[i]
  PROVE  JobsOK'
<1>1. \A i \in Slots : i # j => job'[i] = job[i]
  BY DEF DappType
<1>2. job'[j] = next
  BY DEF DappType
<1>3. \A i \in Slots : JobOK(job'[i], flight'[i], chain')
  BY <1>1, <1>2 DEF JobsOK
<1> QED
  BY <1>3 DEF JobsOK

(* A new transaction of a sender.                                          *)
LEMMA SendFlights ==
  ASSUME DappType, FlightsOK, NEW i \in Senders, NEW tx \in Txs, Send(i, tx), chain' = chain,
         tx.kind = "claim" => ClaimOf(tx, chain)
  PROVE  FlightsOK'
<1>1. flight'[i] = [tx |-> tx, state |-> "queued"] /\ \A k \in Senders : k # i => flight'[k] = flight[k]
  BY DEF Send, DappType
<1>2. FlightOK(flight'[i], chain)
  BY <1>1 DEF FlightOK
<1> QED
  BY <1>1, <1>2 DEF FlightsOK

(* A handler submits what it proved.                                       *)
LEMMA SubmitSafe ==
  ASSUME DappType, FlightsOK, JobsOK, NEW j \in Slots, NEW tx \in Txs, Submit(j, tx), chain' = chain,
         tx.kind = "claim" => ClaimOf(tx, chain),
         job[j].kind = "claim" => tx.kind = "claim"
  PROVE  FlightsOK' /\ JobsOK'
<1>0. j \in Senders /\ job[j] \in Jobs /\ Slots \subseteq Senders
  BY DEF DappType, Senders
<1>1. CASE End(j, "failed") /\ (UNCHANGED flight \/ Send(j, tx))
  <2>1. FlightsOK'
    BY <1>0, <1>1, SendFlights DEF FlightsOK
  <2>2. \A i \in Slots : i # j => flight'[i] = flight[i]
    BY <1>0, <1>1 DEF Send, DappType
  <2> QED
    BY <1>1, <2>1, <2>2, EndJobs
<1>2. CASE Accepted(j, tx)
  <2> DEFINE next == [job[j] EXCEPT !.pc = "polling", !.held = Owner, !.todo = @ \ {tx.key}]
  <2>1. next \in Jobs
    BY <1>0, OwnerAssumption DEF Jobs
  <2>2. job' = [job EXCEPT ![j] = next]
    BY <1>0, <1>2 DEF Accepted, DappType
  <2>3. flight'[j].tx = tx /\ \A i \in Slots : i # j => flight'[i] = flight[i]
    BY <1>0, <1>2 DEF Accepted, Send, DappType
  <2>4. next.kind = job[j].kind /\ next.result = job[j].result /\ next.tx = job[j].tx
    BY <1>0 DEF Jobs
  <2>5. JobOK(next, flight'[j], chain)
    BY <2>3, <2>4 DEF JobOK, JobsOK
  <2>6. FlightsOK'
    BY <1>0, <1>2, SendFlights DEF Accepted
  <2> HIDE DEF next
  <2> QED
    BY <2>1, <2>2, <2>3, <2>5, <2>6, GoOnJobs
<1> QED
  BY <1>1, <1>2 DEF Submit, Unbalanced, Refused, CallFails
(* Every step of a handler keeps claims honest and "through" true.         *)
LEMMA HandlerSafe ==
  ASSUME DappType, FlightsOK, JobsOK, NEW j \in Slots, Handler(j), chain' = chain
  PROVE  FlightsOK' /\ JobsOK'
<1>0. job[j] \in Jobs /\ flight[j] \in Flights /\ j \in Senders /\ Slots \subseteq Senders
  BY DEF DappType, Senders
<1>a. ASSUME flight' = flight PROVE FlightsOK' /\ \A i \in Slots : flight'[i] = flight[i]
  BY <1>a DEF FlightsOK
<1>b. ASSUME NEW next \in Jobs, job' = [job EXCEPT ![j] = next], flight' = flight,
             next.pc # "polling", next.result = "through" => next.result = job[j].result /\ next.tx = job[j].tx
      PROVE  JobsOK'
  <2>1. JobOK(next, flight'[j], chain)
    BY <1>b DEF JobsOK, JobOK
  <2> QED
    BY <1>b, <2>1, GoOnJobs
<1>1. CASE ClaimClick(j)
  <2> DEFINE next == Providers([NoJob EXCEPT !.kind = "claim"])
  <2>1. next \in Jobs /\ next.pc # "polling" /\ next.result # "through"
    <3>1. [NoJob EXCEPT !.kind = "claim"] \in Jobs /\ [NoJob EXCEPT !.kind = "claim"].result = ""
      BY NoJobType DEF NoJob, Jobs
    <3> QED
      BY <3>1, ProvidersType
  <2>2. job' = [job EXCEPT ![j] = next] /\ flight' = flight
    BY <1>1 DEF ClaimClick
  <2> HIDE DEF next
  <2> QED
    BY <1>a, <1>b, <2>1, <2>2
<1>2. ASSUME NEW s \in Secrets, NEW cs \in Batches, AddClick(j, s, cs) PROVE FlightsOK' /\ JobsOK'
  <2> DEFINE next == [NoJob EXCEPT !.kind = "add", !.pc = "checking", !.held = s, !.todo = cs]
  <2>1. next \in Jobs /\ next.pc = "checking" /\ next.result = ""
    BY NoJobType, BatchAssumption DEF NoJob, Jobs
  <2>2. job' = [job EXCEPT ![j] = next] /\ flight' = flight
    BY <1>2 DEF AddClick
  <2> HIDE DEF next
  <2> QED
    BY <1>a, <1>b, <2>1, <2>2
<1>3. CASE AddCheck(j)
  <2> DEFINE left == [job[j] EXCEPT !.todo = {c \in @ : FindPathForLeaf(chain, c) = {}}]
             next == Providers(left)
  <2>1. /\ next \in Jobs /\ next.pc # "polling"
        /\ next.result = "through" => next.result = job[j].result /\ next.tx = job[j].tx
    <3>1. left \in Jobs /\ left.result = job[j].result /\ left.tx = job[j].tx
      BY <1>0 DEF Jobs
    <3> HIDE DEF left
    <3> QED
      BY <3>1, ProvidersType
  <2>2. flight' = flight
    BY <1>3 DEF AddCheck
  <2>3. CASE job' = [job EXCEPT ![j] = next]
    <3> HIDE DEF next
    <3> QED
      BY <1>a, <1>b, <2>1, <2>2, <2>3
  <2>4. CASE End(j, "failed")
    BY <1>a, <2>2, <2>4, EndJobs
  <2>5. job' = [job EXCEPT ![j] = next] \/ End(j, "failed")
    BY <1>0, <1>3 DEF AddCheck
  <2> QED
    BY <2>3, <2>4, <2>5
<1>4. CASE NoKeys(j) \/ AllAdded(j) \/ PollGivesUp(j)
  <2>1. flight' = flight /\ \E answer \in {"failed", "done"} : End(j, answer)
    BY <1>4 DEF NoKeys, AllAdded, PollGivesUp
  <2> QED
    BY <1>a, <2>1, EndJobs
<1>5. CASE StoreSecret(j) \/ FindContract(j) \/ Found(j)
  <2>1. LocalSecret(ToStore(j)) \in Secrets
    BY <1>0 DEF ToStore, CreatePrivateState, LocalSecret, DappType, Jobs
  <2>2. flight' = flight
    BY <1>5 DEF StoreSecret, FindContract, Found
  <2>3. \E pc \in {"storing", "finding", "proving"}, h \in Secrets :
          job' = [job EXCEPT ![j] = [job[j] EXCEPT !.pc = pc, !.held = h]]
    <3>1. \A pc \in {"storing", "finding", "proving"} :
            [job[j] EXCEPT !.pc = pc] = [job[j] EXCEPT !.pc = pc, !.held = job[j].held]
      BY <1>0 DEF Jobs
    <3>2. job[j].held \in Secrets
      BY <1>0 DEF Jobs
    <3>3. CASE FindContract(j)
      BY <1>0, <2>1, <3>3 DEF FindContract, DappType
    <3>4. CASE StoreSecret(j) \/ Found(j)
      <4>1. \E pc \in {"storing", "proving"} : job' = [job EXCEPT ![j].pc = pc]
        BY <3>4 DEF StoreSecret, Found
      <4>2. PICK pc \in {"storing", "proving"} : job' = [job EXCEPT ![j].pc = pc]
        BY <4>1
      <4>3. job' = [job EXCEPT ![j] = [job[j] EXCEPT !.pc = pc]]
        BY <4>2
      <4>4. job' = [job EXCEPT ![j] = [job[j] EXCEPT !.pc = pc, !.held = job[j].held]]
        BY <3>1, <4>3
      <4> QED
        BY <3>2, <4>4
    <3> QED
      BY <1>5, <3>3, <3>4
  <2>4. PICK pc \in {"storing", "finding", "proving"} : \E h \in Secrets :
          job' = [job EXCEPT ![j] = [job[j] EXCEPT !.pc = pc, !.held = h]]
    BY <2>3
  <2>5. PICK h \in Secrets : job' = [job EXCEPT ![j] = [job[j] EXCEPT !.pc = pc, !.held = h]]
    BY <2>4
  <2> DEFINE next == [job[j] EXCEPT !.pc = pc, !.held = h]
  <2>6. next \in Jobs /\ next.pc = pc /\ next.result = job[j].result /\ next.tx = job[j].tx
    BY <1>0 DEF Jobs
  <2>7. job' = [job EXCEPT ![j] = next]
    BY <2>5
  <2> HIDE DEF next
  <2> QED
    BY <1>a, <1>b, <2>2, <2>6, <2>7
<1>6. CASE ProveClaim(j)
  <2>1. CASE ClaimAccessError(chain, store) = ""
    <3>1. ClaimAccess(chain, store) \in Txs
      BY <2>1, ClaimProved DEF DappType
    <3>2. ClaimAccess(chain, store).kind = "claim"
      BY DEF ClaimAccess, ClaimTx
    <3>3. ClaimOf(ClaimAccess(chain, store), chain)
      <4>1. store.secret \in Secrets
        BY DEF DappType
      <4>2. /\ ClaimAccess(chain, store) = ClaimTx(NullifierFor(store.secret), chain.leaves)
            /\ Listed(chain, store.secret)
        BY <2>1, ClaimProved DEF DappType
      <4>3. /\ ClaimAccess(chain, store).root = chain.leaves
            /\ ClaimAccess(chain, store).key = NullifierFor(store.secret)
        BY <4>2 DEF ClaimTx
      <4>4. CheckRoot(chain, MemberPath(chain, store).root)
        BY <2>1 DEF ClaimAccessError
      <4>5. ClaimAccess(chain, store).root \in chain.history
        BY <4>4 DEF CheckRoot, ClaimAccess, ClaimTx
      <4> QED
        BY <4>1, <4>2, <4>3, <4>5 DEF ClaimOf
    <3> QED
      BY <1>6, <2>1, <3>1, <3>2, <3>3, SubmitSafe DEF ProveClaim
  <2>2. CASE ClaimAccessError(chain, store) # ""
    BY <1>6, <1>a, <2>2, EndJobs DEF ProveClaim
  <2> QED
    BY <2>1, <2>2
<1>7. ASSUME NEW c \in Commitments, ProveAdd(j, c) PROVE FlightsOK' /\ JobsOK'
  <2>1. AddTx(c) \in Txs /\ AddTx(c).kind = "add"
    BY DEF AddTx, Txs, Roots, NoRoot
  <2>2. job[j].kind = "add"
    BY <1>7 DEF ProveAdd, At
  <2>3. CASE AddMemberError(chain, store) = ""
    BY <1>7, <2>1, <2>2, <2>3, SubmitSafe DEF ProveAdd
  <2>4. CASE AddMemberError(chain, store) # ""
    BY <1>7, <1>a, <2>4, EndJobs DEF ProveAdd
  <2> QED
    BY <2>3, <2>4
<1>8. CASE PollSettled(j)
  <2>1. /\ flight'[j] = NoFlight
        /\ \A i \in Senders : i # j => flight'[i] = flight[i]
    BY <1>0, <1>8 DEF PollSettled, DappType
  <2>2. FlightOK(NoFlight, chain)
    BY DEF FlightOK, NoFlight, NoJob, AddTx
  <2>3. FlightsOK'
    BY <2>1, <2>2 DEF FlightsOK
  <2>4. CASE End(j, "failed")
    BY <1>0, <2>1, <2>3, <2>4, EndJobs
  <2>5. CASE flight[j].state # "failed" /\ job[j].kind = "claim" /\ End(j, "through")
    <3>1. flight[j].tx.key \in chain.nullifiers
      <4>1. flight[j].state = "confirmed" /\ flight[j].tx.kind = "claim"
        BY <1>8, <2>5 DEF PollSettled, JobsOK, JobOK
      <4> QED
        BY <1>0, <4>1 DEF FlightsOK, FlightOK
    <3> DEFINE next == [NoJob EXCEPT !.kind = job[j].kind, !.pc = "closing",
                          !.tx = IF "through" = "through" THEN flight[j].tx ELSE @, !.result = "through"]
    <3>2. next.pc = "closing" /\ next.tx = flight[j].tx
      BY DEF NoJob
    <3>3. next \in Jobs
      BY <1>0, NoJobType DEF NoJob, Jobs, Flights
    <3>4. job' = [job EXCEPT ![j] = next]
      BY <2>5 DEF End
    <3>5. JobOK(next, flight'[j], chain)
      BY <3>1, <3>2 DEF JobOK
    <3> HIDE DEF next
    <3> QED
      BY <1>0, <2>1, <2>3, <3>3, <3>4, <3>5, GoOnJobs
  <2>6. CASE job' = [job EXCEPT ![j].pc = "proving"]
    <3> DEFINE next == [job[j] EXCEPT !.pc = "proving"]
    <3>1. next \in Jobs /\ next.pc = "proving" /\ next.result = job[j].result /\ next.tx = job[j].tx
      BY <1>0 DEF Jobs
    <3>2. JobOK(next, flight'[j], chain)
      BY <3>1 DEF JobsOK, JobOK
    <3>3. job' = [job EXCEPT ![j] = next]
      BY <2>6
    <3> HIDE DEF next
    <3> QED
      BY <1>0, <2>1, <2>3, <3>1, <3>2, <3>3, GoOnJobs
  <2> QED
    BY <1>8, <2>4, <2>5, <2>6 DEF PollSettled
<1>9. CASE Close(j)
  <2>1. job' = [job EXCEPT ![j] = NoJob] /\ flight' = flight
    BY <1>9 DEF Close
  <2>2. NoJob.pc = "free" /\ NoJob.result = ""
    BY DEF NoJob
  <2> QED
    BY <1>a, <1>b, <2>1, <2>2, NoJobType
<1> QED
  BY <1>1, <1>2, <1>3, <1>4, <1>5, <1>6, <1>7, <1>8, <1>9 DEF Handler
(* The service and the chain decide; the script sends.                     *)
LEMMA DecideSafe ==
  ASSUME DappType, DappType', FlightsOK, JobsOK, Grows(chain, chain'), job' = job,
         NEW i \in Senders, NEW answer \in {"confirmed", "failed"}, Decide(i, answer),
         answer = "confirmed" /\ flight[i].tx.kind = "claim" => flight[i].tx.key \in chain'.nullifiers
  PROVE  FlightsOK' /\ JobsOK'
<1>0. flight \in [Senders -> Flights] /\ flight[i] \in Flights /\ Slots \subseteq Senders
  BY DEF DappType, Senders
<1>1. FlightOK(NoFlight, chain')
  BY DEF FlightOK, NoFlight, NoJob, AddTx
<1>2. \A k \in Senders : k # i => flight'[k] = flight[k]
  BY <1>0 DEF Decide
<1>3. CASE i \in Slots /\ job[i].pc = "polling"
  <2>1. flight'[i] = [flight[i] EXCEPT !.state = answer]
    BY <1>0, <1>3 DEF Decide
  <2>2. flight'[i].tx = flight[i].tx /\ flight'[i].state = answer
    BY <1>0, <2>1 DEF Flights
  <2>3. FlightOK(flight'[i], chain')
    BY <2>2 DEF FlightOK
  <2>4. FlightsOK'
    BY <1>2, <2>3, KeptWhileGrowing DEF FlightsOK
  <2>5. \A j \in Slots : flight'[j].tx = flight[j].tx
    BY <1>0, <1>2, <2>2
  <2>6. JobsOK'
    BY <2>5, KeptWhileGrowing DEF JobsOK, JobOK, Grows
  <2> QED
    BY <2>4, <2>6
<1>4. CASE ~(i \in Slots /\ job[i].pc = "polling")
  <2>1. flight'[i] = NoFlight
    BY <1>0, <1>4 DEF Decide
  <2>2. FlightsOK'
    BY <1>1, <1>2, <2>1, KeptWhileGrowing DEF FlightsOK
  <2>3. \A j \in Slots : JobOK(job[j], flight'[j], chain')
    BY <1>0, <1>2, <1>4, KeptWhileGrowing DEF JobsOK, JobOK, Grows
  <2> QED
    BY <2>2, <2>3 DEF JobsOK
<1> QED
  BY <1>3, <1>4

(* What is included or sent is as the invariant says.                      *)
LEMMA OutsideSafe ==
  ASSUME DappType, ChainOK, FlightsOK, JobsOK, Outside
  PROVE  FlightsOK' /\ JobsOK'
<1>0. DappType'
  BY OutsideType
<1>a. Script \in Senders /\ Script \notin Slots
  BY ScriptAssumption DEF Senders
<1>b. ASSUME NEW tx \in Txs, Send(Script, tx), UNCHANGED <<chain, job>>,
             tx.kind = "claim" => ClaimOf(tx, chain)
      PROVE  FlightsOK' /\ JobsOK'
  <2>1. FlightsOK'
    BY <1>a, <1>b, SendFlights
  <2>2. \A j \in Slots : flight'[j] = flight[j]
    BY <1>a, <1>b DEF Send, DappType, Senders
  <2> QED
    BY <1>b, <2>1, <2>2 DEF JobsOK
<1>1. ASSUME NEW i \in Senders, Include(i) PROVE FlightsOK' /\ JobsOK'
  <2>1. Grows(chain, chain') /\ (flight[i].tx.kind = "claim" => flight[i].tx.key \in chain'.nullifiers)
    BY <1>1, IncludeChain
  <2>2. job' = job /\ \E answer \in {"confirmed", "failed"} : Decide(i, answer)
    BY <1>1 DEF Include
  <2> QED
    BY <1>0, <2>1, <2>2, DecideSafe
<1>2. ASSUME NEW i \in Senders, Drop(i) PROVE FlightsOK' /\ JobsOK'
  <2>1. Grows(chain, chain')
    BY <1>2 DEF Drop, Grows
  <2>2. job' = job /\ Decide(i, "failed")
    BY <1>2 DEF Drop
  <2> QED
    BY <1>0, <2>1, <2>2, DecideSafe
<1>3. ASSUME NEW s \in Joining, ScriptClaim(s) PROVE FlightsOK' /\ JobsOK'
  <2> DEFINE st == CreatePrivateState(s)
             tx == ClaimAccess(chain, st)
  <2>1. st \in [secret : Secrets] /\ st.secret \in Secrets
    BY JoiningAssumption DEF CreatePrivateState
  <2>2. ClaimAccessError(chain, st) = "" /\ chain \in Ledgers
    BY <1>3 DEF ScriptClaim, DappType
  <2>3. tx = ClaimTx(NullifierFor(st.secret), chain.leaves) /\ tx \in Txs /\ Listed(chain, st.secret)
    BY <2>1, <2>2, ClaimProved
  <2>4. ClaimOf(tx, chain)
    BY <2>1, <2>3 DEF ClaimOf, ClaimTx, ChainOK, Root
  <2>5. Send(Script, tx) /\ UNCHANGED <<chain, job>>
    BY <1>3 DEF ScriptClaim, PayItself
  <2> QED
    BY <1>b, <2>3, <2>4, <2>5
<1>4. ASSUME NEW s \in Joining, ScriptAdd(CommitmentFor(s)) PROVE FlightsOK' /\ JobsOK'
  <2>1. CommitmentFor(s) \in Commitments
    BY JoiningAssumption DEF Commitments
  <2>2. AddTx(CommitmentFor(s)) \in Txs /\ AddTx(CommitmentFor(s)).kind = "add"
    BY <2>1 DEF AddTx, Txs, Roots, NoRoot
  <2> QED
    BY <1>4, <1>b, <2>2 DEF ScriptAdd, PayItself
<1> QED
  BY <1>1, <1>2, <1>3, <1>4 DEF Outside

(* A step of the page touches no request, but a reload.                    *)
LEMMA PageSafe ==
  ASSUME DappType, FlightsOK, JobsOK, Page
  PROVE  FlightsOK' /\ JobsOK'
<1>1. ASSUME UNCHANGED <<chain, flight, job>> PROVE FlightsOK' /\ JobsOK'
  BY <1>1 DEF FlightsOK, JobsOK
<1>2. ASSUME NEW r \in PageReads, Reload(r) PROVE FlightsOK' /\ JobsOK'
  <2>1. \A i \in Senders : flight'[i] \in {flight[i], NoFlight}
    BY <1>2 DEF Reload
  <2>2. FlightOK(NoFlight, chain)
    BY DEF FlightOK, NoFlight, NoJob, AddTx
  <2>3. \A j \in Slots : job'[j].pc = "free" /\ job'[j].result = ""
    BY <1>2 DEF Reload, NoJob
  <2>4. chain' = chain
    BY <1>2 DEF Reload
  <2>5. FlightsOK'
    BY <2>1, <2>2, <2>4 DEF FlightsOK
  <2> QED
    BY <2>3, <2>5 DEF JobsOK, JobOK
<1> QED
  BY <1>1, <1>2 DEF Page, FieldChange, ReadFails, Render, SetSecret, Connect, Disconnect, Move

(* What the page reads and shows.                                          *)
LEMMA RefreshReads ==
  ASSUME DappType, ReadsOK, NEW r \in PageReads, Refresh(r), chain' = chain
  PROVE  ReadsOK'
  BY DEF DappType, ReadsOK, Refresh, Grows

(* A read under way stays behind the chain.                                *)
LEMMA ReadsStep ==
  ASSUME DappType, ChainOK, ReadsOK, Next, Grows(chain, chain')
  PROVE  ReadsOK'
<1>0. Grows(Quiet.view, chain)
  BY QuietGrows
<1>1. ASSUME read' = read PROVE ReadsOK'
  BY <1>1, GrowsOn DEF ReadsOK
<1>2. ASSUME NEW r \in PageReads, read' = [read EXCEPT ![r] = Quiet], chain' = chain PROVE ReadsOK'
  BY <1>0, <1>2 DEF DappType, ReadsOK
<1>3. ASSUME NEW r \in PageReads, Reload(r) PROVE ReadsOK'
  <2>1. \A q \in PageReads : read'[q].view \in {chain, Quiet.view}
    BY <1>3 DEF Reload
  <2>2. chain' = chain /\ Grows(chain, chain)
    BY <1>3 DEF Reload, Grows
  <2> QED
    BY <1>0, <2>1, <2>2 DEF ReadsOK
<1>4. ASSUME Page PROVE ReadsOK'
  BY <1>2, <1>3, <1>4, RefreshReads
     DEF Page, FieldChange, ReadFails, Render, SetSecret, Connect, Disconnect, Move
<1>5. ASSUME Outside PROVE ReadsOK'
  BY <1>1, <1>5 DEF Outside, Include, Drop, ScriptClaim, ScriptAdd, pageVars
<1>6. ASSUME NEW j \in Slots, Handler(j) PROVE ReadsOK'
  BY <1>1, <1>6 DEF Handler, ClaimClick, AddClick, AddCheck, NoKeys, StoreSecret,
     FindContract, Found, ProveClaim, AllAdded, ProveAdd, PollSettled, PollGivesUp, Close,
     Submit, Unbalanced, Refused, CallFails, Accepted, End, pageVars
<1> QED
  BY <1>4, <1>5, <1>6 DEF Next

(* A view the chain has grown from is rendered truly.                      *)
LEMMA ShowTrue ==
  ASSUME NEW view, Grows(view, chain'), Show(view), secret \in Secrets
  PROVE  ShownYesIsTrue'
<1>1. shown'.of = secret /\ (shown'.listed = "yes" => Listed(view, secret))
      /\ (shown'.entered = "yes" => Entered(view, secret))
  BY DEF Show, Verdict
<1> QED
  BY <1>1 DEF ShownYesIsTrue, Grows, Entered, Member

(* What the page shows stays true.                                         *)
LEMMA ShownStep ==
  ASSUME DappType, ReadsOK, ShownYesIsTrue, Next, Grows(chain, chain')
  PROVE  ShownYesIsTrue'
<1>0. secret \in Secrets /\ shown.of \in Secrets
  BY DEF DappType, Renderings
<1>1. ASSUME shown' = shown PROVE ShownYesIsTrue'
  BY <1>0, <1>1 DEF ShownYesIsTrue, Grows, Entered, Member
<1>2. ASSUME NEW r \in PageReads, Render(r) PROVE ShownYesIsTrue'
  <2>1. Grows(read[r].view, chain') /\ Show(read[r].view)
    BY <1>2 DEF Render, ReadsOK
  <2> QED
    BY <1>0, <2>1, ShowTrue
<1>3. ASSUME NEW r \in PageReads, Reload(r) PROVE ShownYesIsTrue'
  BY <1>3 DEF Reload, Unrendered, ShownYesIsTrue
<1>4. ASSUME Page PROVE ShownYesIsTrue'
  BY <1>1, <1>2, <1>3, <1>4
     DEF Page, FieldChange, ReadFails, SetSecret, Connect, Disconnect, Move
<1>5. ASSUME Outside PROVE ShownYesIsTrue'
  BY <1>1, <1>5 DEF Outside, Include, Drop, ScriptClaim, ScriptAdd, pageVars
<1>6. ASSUME NEW j \in Slots, Close(j) PROVE ShownYesIsTrue'
  <2>1. Grows(chain, chain') /\ (Show(chain) \/ shown' = shown)
    BY <1>6 DEF Close
  <2> QED
    BY <1>0, <1>1, <2>1, ShowTrue
<1>7. ASSUME NEW j \in Slots, Handler(j) PROVE ShownYesIsTrue'
  BY <1>1, <1>6, <1>7 DEF Handler, ClaimClick, AddClick, AddCheck, NoKeys, StoreSecret,
     FindContract, Found, ProveClaim, AllAdded, ProveAdd, PollSettled, PollGivesUp,
     Submit, Unbalanced, Refused, CallFails, Accepted, End, pageVars
<1> QED
  BY <1>4, <1>5, <1>7 DEF Next
-----------------------------------------------------------------------------
(* The invariant.                                                          *)
LEMMA InvInit == Init => Inv
<1> SUFFICES ASSUME Init PROVE Inv
  OBVIOUS
<1>1. PICK c \in Setup : chain = InsertMember(Deployed, c)
  BY DEF Init
<1>2. c \in Commitments /\ Deployed \in Ledgers
  BY SetupAssumption, NoJobType
<1>3. AddTx(c) \in Txs /\ chain = Applied(Deployed, AddTx(c))
  BY <1>1, <1>2 DEF AddTx, Txs, Roots, NoRoot, Applied
<1>4. chain \in Ledgers /\ Grows(Deployed, chain)
  BY <1>2, <1>3, AppliedGrows
<1>5. ChainOK
  <2>1. /\ chain.nullifiers = {} /\ chain.admissions = 0
        /\ {Root(chain.leaves), Root(<<>>)} \subseteq chain.history
    BY <1>1 DEF InsertMember, Deployed, InitialState, Root
  <2> QED
    BY <2>1, FS_EmptySet DEF ChainOK
<1>6. store \in [secret : Secrets] /\ shown \in Renderings
  BY DEF Init, CreatePrivateState, Unrendered, Renderings, Answers
<1>7. DappType
  BY <1>4, <1>6, NoJobType, QuietType DEF Init, DappType
<1>8. FlightsOK /\ JobsOK
  BY DEF Init, FlightsOK, JobsOK, FlightOK, JobOK, NoFlight, NoJob, AddTx
<1>9. ReadsOK
  BY <1>4 DEF Init, ReadsOK, Quiet
<1>10. ShownYesIsTrue
  BY DEF Init, Unrendered, ShownYesIsTrue
<1> QED
  BY <1>5, <1>7, <1>8, <1>9, <1>10 DEF Inv

(* Every step keeps the invariant.                                         *)
LEMMA InvStep == Inv /\ [Next]_vars => Inv'
<1> SUFFICES ASSUME Inv, [Next]_vars PROVE Inv'
  OBVIOUS
<1>0. DappType /\ ChainOK /\ FlightsOK /\ JobsOK /\ ReadsOK /\ ShownYesIsTrue
  BY DEF Inv
<1>1. DappType'
  BY <1>0, TypeStep
<1>2. CASE UNCHANGED vars
  BY <1>0, <1>1, <1>2 DEF Inv, vars, ChainOK, FlightsOK, JobsOK, ReadsOK, ShownYesIsTrue
<1>3. CASE Next
  <2>1. ChainOK' /\ Grows(chain, chain')
    BY <1>0, <1>3, ChainStep
  <2>2. ReadsOK' /\ ShownYesIsTrue'
    BY <1>0, <1>3, <2>1, ReadsStep, ShownStep
  <2>3. FlightsOK' /\ JobsOK'
    <3>1. CASE Page
      BY <1>0, <3>1, PageSafe
    <3>2. CASE Outside
      BY <1>0, <3>2, OutsideSafe
    <3>3. ASSUME NEW j \in Slots, Handler(j) PROVE FlightsOK' /\ JobsOK'
      <4>1. chain' = chain
        BY <3>3 DEF Handler, ClaimClick, AddClick, AddCheck, NoKeys, StoreSecret,
           FindContract, Found, ProveClaim, AllAdded, ProveAdd, PollSettled, PollGivesUp, Close
      <4> QED
        BY <1>0, <3>3, <4>1, HandlerSafe
    <3> QED
      BY <1>3, <3>1, <3>2, <3>3 DEF Next
  <2> QED
    BY <1>1, <2>1, <2>2, <2>3 DEF Inv
<1> QED
  BY <1>2, <1>3

(* Inv holds in every reachable state.                                     *)
THEOREM Invariance == Spec => []Inv
<1>1. Init => Inv
  BY InvInit
<1>2. Inv /\ [Next]_vars => Inv'
  BY InvStep
<1> QED
  BY <1>1, <1>2, PTL DEF Spec

(* The values every part of the dapp, the service and the chain hold have  *)
(* the types TypeOK gives them (main.ts, allowlist.compact).               *)
THEOREM TypeCorrect == Spec => []TypeOK
<1>1. Inv => TypeOK
  <2> SUFFICES ASSUME DappType PROVE TypeOK
    BY DEF Inv
  <2>1. \A l \in Ledgers : LedgerType(l)
    BY DEF Ledgers, LedgerType
  <2>2. \A tx \in Txs : TxType(tx)
    BY DEF Txs, TxType, Roots
  <2>3. LedgerType(chain) /\ \A r \in PageReads : read[r].busy \in BOOLEAN /\ LedgerType(read[r].view)
    BY <2>1 DEF DappType, Reads
  <2>4. \A i \in Senders : TxType(flight[i].tx) /\ flight[i].state \in {"none", "queued", "confirmed", "failed"}
    BY <2>2 DEF DappType, Flights
  <2>5. \A j \in Slots : job[j].held \in Secrets /\ TxType(job[j].tx)
    BY <2>2 DEF DappType, Jobs
  <2>6. store \in PrivateStates
    <3>1. store.secret \in Secrets /\ store = CreatePrivateState(store.secret)
      BY DEF DappType, CreatePrivateState
    <3> QED
      BY <3>1 DEF PrivateStates
  <2>7. /\ shown.of \in Secrets
        /\ shown.listed \in {"yes", "no", "unknown"} /\ shown.entered \in {"yes", "no", "unknown"}
    BY DEF DappType, Renderings, Answers
  <2> QED
    BY <2>3, <2>4, <2>5, <2>6, <2>7 DEF TypeOK, DappType
<1> QED
  BY <1>1, Invariance, PTL

(* Nobody enters twice, nobody enters unlisted, and the admissions count   *)
(* those who entered (allowlist.compact:61-78).                            *)
THEOREM OneAdmissionEachCorrect == Spec => []OneAdmissionEach
<1>1. Inv => OneAdmissionEach
  BY DEF Inv, ChainOK, OneAdmissionEach, Admissions
<1> QED
  BY <1>1, Invariance, PTL

(* A claim that was proved stays acceptable however many members join      *)
(* before it reaches the chain (allowlist.compact:29-30).                  *)
THEOREM ProofsSurviveJoinsCorrect == Spec => []ProofsSurviveJoins
<1>1. Inv => ProofsSurviveJoins
  BY DEF Inv, FlightsOK, FlightOK, ClaimOf, ProofsSurviveJoins, Accepts, CheckRoot, Member
<1> QED
  BY <1>1, Invariance, PTL

(* "You are through the door" is only said of a nullifier on chain         *)
(* (main.ts:331-333).                                                      *)
THEOREM ThroughIsOnChainCorrect == Spec => []ThroughIsOnChain
<1>1. Inv => ThroughIsOnChain
  BY DEF Inv, JobsOK, JobOK, ThroughIsOnChain
<1> QED
  BY <1>1, Invariance, PTL

(* A "yes" on the page is true of the secret it was rendered for           *)
(* (main.ts:227-283).                                                      *)
THEOREM ShownYesIsTrueCorrect == Spec => []ShownYesIsTrue
<1>1. Inv => ShownYesIsTrue
  BY DEF Inv
<1> QED
  BY <1>1, Invariance, PTL
-----------------------------------------------------------------------------
(* The refinement of the door.                                             *)
DoorListed == {s \in Secrets : Listed(chain, s)}
DoorEntered == {s \in Secrets : Entered(chain, s)}

(* A new leaf lists one member more, or one that was listed.               *)
LEMMA AddIsEnlist ==
  ASSUME DappType, NEW s \in Secrets, chain' = InsertMember(chain, CommitmentFor(s))
  PROVE  Door!Enlist(s)
<1> DEFINE new == Append(chain.leaves, CommitmentFor(s))
<1>1. chain.leaves \in Seq(Commitments) /\ CommitmentFor(s) \in Commitments
  BY DEF DappType, Ledgers, Commitments
<1>2. /\ chain'.leaves = new
      /\ chain'.nullifiers = chain.nullifiers
      /\ chain'.admissions = chain.admissions
  BY DEF InsertMember
<1>3. /\ DOMAIN chain.leaves = 1..Len(chain.leaves) /\ DOMAIN new = 1..(Len(chain.leaves) + 1)
      /\ Len(chain.leaves) \in Nat
      /\ new[Len(chain.leaves) + 1] = CommitmentFor(s)
      /\ \A i \in 1..Len(chain.leaves) : new[i] = chain.leaves[i]
  BY <1>1
<1> HIDE DEF new
<1>4. \A t \in Secrets : CommitmentFor(t) = CommitmentFor(s) => t = s
  BY DEF CommitmentFor
<1>5. \A t \in Secrets : Listed(chain', t) <=> Listed(chain, t) \/ t = s
  <2> TAKE t \in Secrets
  <2>1. Listed(chain', t) <=> \E i \in 1..(Len(chain.leaves) + 1) : new[i] = CommitmentFor(t)
    BY <1>2, <1>3 DEF Listed
  <2>2. (\E i \in 1..(Len(chain.leaves) + 1) : new[i] = CommitmentFor(t))
          <=> \/ \E i \in 1..Len(chain.leaves) : chain.leaves[i] = CommitmentFor(t)
              \/ CommitmentFor(s) = CommitmentFor(t)
    BY <1>3
  <2> QED
    BY <1>3, <1>4, <2>1, <2>2 DEF Listed
<1>6. DoorListed' = DoorListed \cup {s}
  BY <1>5 DEF DoorListed
<1>7. DoorEntered' = DoorEntered /\ Admissions(chain)' = Admissions(chain)
  BY <1>2 DEF DoorEntered, Entered, Member, Admissions
<1> QED
  BY <1>6, <1>7 DEF Door!Enlist, DoorListed, DoorEntered

(* A claim on chain is one member who enters.                              *)
LEMMA ClaimIsEnter ==
  ASSUME DappType, NEW s \in Secrets, Listed(chain, s), ~Entered(chain, s),
         chain' = InsertNullifier(chain, NullifierFor(s))
  PROVE  Door!Enter(s)
<1>1. /\ chain'.leaves = chain.leaves
      /\ chain'.nullifiers = chain.nullifiers \cup {NullifierFor(s)}
      /\ chain'.admissions = chain.admissions + 1
  BY DEF InsertNullifier
<1>2. \A t \in Secrets : NullifierFor(t) = NullifierFor(s) => t = s
  BY DEF NullifierFor
<1>3. DoorListed' = DoorListed
  BY <1>1 DEF DoorListed, Listed
<1>4. DoorEntered' = DoorEntered \cup {s}
  BY <1>1, <1>2 DEF DoorEntered, Entered, Member
<1>5. s \in DoorListed /\ s \notin DoorEntered
  BY DEF DoorListed, DoorEntered
<1>6. Admissions(chain)' = Admissions(chain) + 1
  BY <1>1 DEF Admissions
<1> QED
  BY <1>3, <1>4, <1>5, <1>6 DEF Door!Enter, DoorListed, DoorEntered

(* A step of the dapp is a step of the door, or none of it.                *)
LEMMA DoorStep == Inv /\ [Next]_vars => [Door!Next]_(Door!vars)
<1> SUFFICES ASSUME Inv, [Next]_vars PROVE Door!Next \/ UNCHANGED Door!vars
  OBVIOUS
<1>1. CASE chain' = chain
  BY <1>1 DEF Door!vars, Listed, Entered, Member, Admissions
<1>2. ASSUME NEW i \in Senders, Include(i) PROVE Door!Next
  <2> DEFINE tx == flight[i].tx
  <2>1. /\ DappType /\ tx \in Txs /\ flight[i].state = "queued"
        /\ Accepts(chain, tx) /\ chain' = Applied(chain, tx)
    BY <1>2 DEF Inv, DappType, Flights, Include
  <2>2. CASE tx.kind = "add"
    <3>1. PICK s \in Secrets : tx.key = CommitmentFor(s)
      BY <2>1, <2>2 DEF Txs, Commitments
    <3>2. chain' = InsertMember(chain, CommitmentFor(s))
      BY <2>1, <2>2, <3>1 DEF Applied
    <3> QED
      BY <2>1, <3>2, AddIsEnlist DEF Door!Next
  <2>3. CASE tx.kind = "claim"
    <3>1. PICK s \in Secrets : tx.key = NullifierFor(s) /\ Listed(chain, s)
      BY <2>1, <2>3 DEF Inv, FlightsOK, FlightOK, ClaimOf
    <3>2. ~Entered(chain, s)
      BY <2>1, <2>3, <3>1 DEF Accepts, Entered, Member
    <3>3. chain' = InsertNullifier(chain, NullifierFor(s))
      BY <2>1, <2>3, <3>1 DEF Applied
    <3> QED
      BY <2>1, <3>1, <3>2, <3>3, ClaimIsEnter DEF Door!Next
  <2> QED
    BY <2>1, <2>2, <2>3 DEF Txs
<1> QED
  BY <1>1, <1>2, OnlyIncludes DEF vars

(* A deployed contract is an empty door.                                   *)
LEMMA DoorInit == Init => Door!Init
<1> SUFFICES ASSUME Init PROVE Door!Init
  OBVIOUS
<1>1. chain.nullifiers = {} /\ chain.admissions = 0
  <2>1. PICK c \in Setup : chain = InsertMember(Deployed, c)
    BY DEF Init
  <2> QED
    BY <2>1 DEF InsertMember, Deployed, InitialState
<1> QED
  BY <1>1 DEF Door!Init, Entered, Member, Admissions

(* The dapp implements the door: the list only grows, and each member of   *)
(* it enters once and is counted once.                                     *)
THEOREM DoorCorrect == Spec => ImplementsDoor
<1>1. Init => Door!Init
  BY DoorInit
<1>2. Inv /\ [Next]_vars => [Door!Next]_(Door!vars)
  BY DoorStep
<1> QED
  BY <1>1, <1>2, Invariance, PTL DEF Spec, ImplementsDoor, Door!Spec
=============================================================================
