---------------------------- MODULE AllowlistDapp ----------------------------
(***************************************************************************)
(* The example dapp around its contract: one browser page (main.ts) with   *)
(* its secret, its private store, its wallet, its reads of the public      *)
(* record and the handlers of its two buttons; the sponsored provider and  *)
(* the client library they submit through; the operator's script           *)
(* (deploy.ts); the service and the chain, which are external and may lose *)
(* an answer, refuse, drop or delay a transaction.                         *)
(***************************************************************************)
EXTENDS AllowlistContract

CONSTANTS
  Owner,        \* the operator's secret
  Slots,        \* handlers of clicks that run at once (bound)
  Script,       \* the operator's script
  Setup,        \* commitments the script may set up when it deploys
  Batches,      \* lists of commitments the operator types into the page
  Joining,      \* secrets the script lists or claims for, after the deployment
  PageReads     \* reads of the record under way for the page itself (bound)

ASSUME OwnerAssumption == Owner \in Secrets
ASSUME SetupAssumption == Setup \subseteq Commitments
ASSUME JoiningAssumption == Joining \subseteq Secrets
ASSUME BatchAssumption == Batches \subseteq ((SUBSET Commitments) \ {{}})
ASSUME ScriptAssumption == Script \notin Slots

VARIABLES
  chain,     \* ledger of the contract
  flight,    \* per sender: its transaction at the service, or on the script's wallet
  secret,    \* the page's secret
  store,     \* private state under 'allowlistPrivateState'
  wallet,    \* connection of the page to the wallet
  button,    \* whether the claim button is enabled
  read,      \* per reader: a query of the contract's state under way
  shown,     \* what the page says of the secret it last rendered
  job        \* per click: the handler it runs

pageVars == <<secret, wallet, button, read, shown>>
vars == <<chain, flight, secret, store, wallet, button, read, shown, job>>

Senders == Slots \cup {Script}
Deployed == InitialState(CommitmentFor(Owner))
Quiet == [busy |-> FALSE, view |-> Deployed]
Unrendered == [of |-> secret, listed |-> "unknown", entered |-> "unknown"]
NoJob == [kind |-> "none", pc |-> "free", held |-> Owner, todo |-> {},
          tx |-> AddTx(CommitmentFor(Owner)), result |-> ""]
NoFlight == [tx |-> NoJob.tx, state |-> "none"]

(* The script deployed the contract and set one member up.                 *)
Init ==
  /\ chain \in {InsertMember(Deployed, c) : c \in Setup}
  /\ flight = [i \in Senders |-> NoFlight]
  /\ secret \in Secrets
  /\ store = CreatePrivateState(secret)
  /\ wallet = "none"
  /\ button = FALSE
  /\ read = [r \in PageReads |-> Quiet]
  /\ shown = Unrendered
  /\ job = [j \in Slots |-> NoJob]

(***************************************************************************)
(* Reading the public record.  The indexer answers with the ledger of that *)
(* moment; the answer may arrive late, after that of a later read, or      *)
(* never, and is rendered for the secret the page holds then.              *)
(***************************************************************************)
Refresh(r) ==
  /\ ~read[r].busy
  /\ read' = [read EXCEPT ![r] = [busy |-> TRUE, view |-> chain]]

(* The address, the network or the indexer was edited. *)
FieldChange(r) ==
  /\ Refresh(r)
  /\ UNCHANGED <<chain, flight, secret, store, wallet, button, shown, job>>

ReadFails(r) ==
  /\ read[r].busy
  /\ read' = [read EXCEPT ![r] = Quiet]
  /\ UNCHANGED <<chain, flight, secret, store, wallet, button, shown, job>>

Verdict(holds) == IF holds THEN "yes" ELSE "no"
\* Mutant: any stamp counts as the page's own.
ShowAnyStamp(view) ==
  shown' = [of |-> secret, listed |-> Verdict(Listed(view, secret)),
            entered |-> Verdict(view.nullifiers # {})]
Show(view) ==
  shown' = [of |-> secret, listed |-> Verdict(Listed(view, secret)),
            entered |-> Verdict(Entered(view, secret))]
MayClaim(view) ==
  wallet # "none" /\ Listed(view, secret) /\ ~Entered(view, secret)

Render(r) ==
  /\ read[r].busy
  /\ read' = [read EXCEPT ![r] = Quiet]
  /\ Show(read[r].view)
  /\ button' = MayClaim(read[r].view)
  /\ UNCHANGED <<chain, flight, secret, store, wallet, job>>

SetSecret(s, r) ==
  /\ s # secret
  /\ secret' = s
  /\ Refresh(r)
  /\ UNCHANGED <<chain, flight, store, wallet, button, shown, job>>

(***************************************************************************)
(* The wallet button.  A wallet that connects and then does not give its   *)
(* configuration is as good as none.                                       *)
(***************************************************************************)
Move(from, to, r) ==
  /\ wallet = from
  /\ wallet' = to
  /\ Refresh(r)
  /\ UNCHANGED <<chain, flight, secret, store, button, shown, job>>

Connect(r) == Move("none", "connected", r)
Disconnect(r) == Move("connected", "none", r)

(***************************************************************************)
(* The handlers of "claim" and "add members".                              *)
(***************************************************************************)
At(j, kind, pc) == job[j].kind = kind /\ job[j].pc = pc

IsFree(j) == job[j].pc = "free" /\ flight[j].state = "none"

(* providers() refuses at once when no wallet is connected; the wallet it  *)
(* finds is the handler's own to the end, connected or not.                *)
Providers(b) ==
  IF wallet = "connected" THEN [b EXCEPT !.pc = "keys"]
  ELSE [NoJob EXCEPT !.kind = b.kind, !.pc = "closing", !.result = "failed"]

ClaimClick(j) ==
  /\ IsFree(j)
  /\ button
  /\ button' = FALSE
  /\ job' = [job EXCEPT ![j] = Providers([NoJob EXCEPT !.kind = "claim"])]
  /\ UNCHANGED <<chain, flight, secret, store, wallet, read, shown>>

(* The button of "add members" is disabled while its handler runs. *)
AddClick(j, typed, commitments) ==
  /\ IsFree(j)
  /\ \A i \in Slots : job[i].kind # "add"
  /\ job' = [job EXCEPT ![j] = [NoJob EXCEPT !.kind = "add", !.pc = "checking",
                                             !.held = typed, !.todo = commitments]]
  /\ UNCHANGED <<chain, flight, secret, store, wallet, button, read, shown>>

(* The words for the different failures are left out.                      *)
End(j, result) ==
  /\ job' = [job EXCEPT ![j] = [NoJob EXCEPT !.kind = job[j].kind, !.pc = "closing",
                            !.tx = IF result = "through" THEN flight[j].tx ELSE @,
                            !.result = result]]
  /\ UNCHANGED pageVars

(* Every ending reads the record once more, which may fail, and then gives *)
(* the button back.                                                        *)
Close(j) ==
  /\ job[j].pc = "closing"
  /\ job' = [job EXCEPT ![j] = NoJob]
  /\ \/ Show(chain) /\ button' = (job[j].kind = "claim" \/ MayClaim(chain))
     \/ UNCHANGED shown /\ button' = (job[j].kind = "claim" \/ button)
  /\ UNCHANGED <<chain, flight, secret, store, wallet, read>>

(* The operator's secret is checked and the list is read, once. *)
AddCheck(j) ==
  /\ At(j, "add", "checking")
  /\ IF CommitmentFor(job[j].held) = OwnerOf(chain)
     THEN /\ job' = [job EXCEPT ![j] =
                       Providers([job[j] EXCEPT !.todo = {c \in @ : FindPathForLeaf(chain, c) = {}}])]
          /\ UNCHANGED pageVars
     ELSE End(j, "failed")
  /\ UNCHANGED <<chain, flight, store>>

NoKeys(j) ==
  /\ job[j].pc = "keys"
  /\ End(j, "failed")
  /\ UNCHANGED <<chain, flight, store>>

(* The claim stores the secret the page holds now, "add" the typed one. *)
ToStore(j) ==
  CreatePrivateState(IF job[j].kind = "claim" THEN secret ELSE job[j].held)
StoreSecret(j) ==
  /\ job[j].pc = "keys"
  /\ store' = ToStore(j)
  /\ job' = [job EXCEPT ![j].pc = "storing"]
  /\ UNCHANGED <<chain, flight>> /\ UNCHANGED pageVars

FindContract(j) ==
  /\ job[j].pc = "storing"
  /\ job' = [job EXCEPT ![j].pc = "finding", ![j].held = LocalSecret(ToStore(j))]
  /\ UNCHANGED <<chain, flight, store>> /\ UNCHANGED pageVars

(* Finding the contract stores the initial private state once more. *)
Found(j) ==
  /\ job[j].pc = "finding"
  /\ store' = CreatePrivateState(job[j].held)
  /\ job' = [job EXCEPT ![j].pc = "proving"]
  /\ UNCHANGED <<chain, flight>> /\ UNCHANGED pageVars

(* Submission through the client.                                          *)
Send(sender, tx) ==
  flight' = [flight EXCEPT ![sender] = [tx |-> tx, state |-> "queued"]]

Unbalanced(j) == End(j, "failed") /\ UNCHANGED flight
Refused(j) == End(j, "failed") /\ UNCHANGED flight
(* The service answers with another error, or the request or its answer is *)
(* lost: an error says nothing of whether the service took the request.    *)
CallFails(j, tx) == End(j, "failed") /\ (UNCHANGED flight \/ Send(j, tx))
Accepted(j, tx) ==
  /\ job' = [job EXCEPT ![j].pc = "polling", ![j].held = Owner, ![j].todo = @ \ {tx.key}]
  /\ Send(j, tx)
  /\ UNCHANGED pageVars

Submit(j, tx) ==
  Unbalanced(j) \/ Refused(j) \/ CallFails(j, tx) \/ Accepted(j, tx)

(* A circuit runs on the ledger and the private state of this moment.      *)
ProveClaim(j) ==
  /\ At(j, "claim", "proving")
  /\ IF ClaimAccessError(chain, store) = ""
     THEN Submit(j, ClaimAccess(chain, store))
     ELSE End(j, "failed") /\ UNCHANGED flight
  /\ UNCHANGED <<chain, store>>

ProveAdd(j, commitment) ==
  /\ At(j, "add", "proving")
  /\ commitment \in job[j].todo
  /\ IF AddMemberError(chain, store) = ""
     THEN Submit(j, AddTx(commitment))
     ELSE End(j, "failed") /\ UNCHANGED flight
  /\ UNCHANGED <<chain, store>>

AllAdded(j) ==
  /\ At(j, "add", "proving")
  /\ job[j].todo = {}
  /\ End(j, "done")
  /\ UNCHANGED <<chain, flight, store>>

\* Mutant: settle() lets a failed request pass as well.
PollTerminal(j) ==
  /\ job[j].pc = "polling"
  /\ flight[j].state \in {"confirmed", "failed"}
  /\ flight' = [flight EXCEPT ![j] = NoFlight]
  /\ IF job[j].kind = "claim" THEN End(j, "through")
     ELSE job' = [job EXCEPT ![j].pc = "proving"] /\ UNCHANGED pageVars
  /\ UNCHANGED <<chain, store>>
(* A terminal status settles the call. *)
PollSettled(j) ==
  /\ job[j].pc = "polling"
  /\ flight[j].state \in {"confirmed", "failed"}
  /\ flight' = [flight EXCEPT ![j] = NoFlight]
  /\ IF flight[j].state = "failed" THEN End(j, "failed")
     ELSE IF job[j].kind = "claim" THEN End(j, "through")
     ELSE /\ job' = [job EXCEPT ![j].pc = "proving"]
          /\ UNCHANGED pageVars
  /\ UNCHANGED <<chain, store>>

(* The deadline passes, or a poll cannot reach the service; the request    *)
(* stays with the service.                                                 *)
PollGivesUp(j) ==
  /\ job[j].pc = "polling"
  /\ flight[j].state = "queued"
  /\ End(j, "failed")
  /\ UNCHANGED <<chain, flight, store>>

(***************************************************************************)
(* The service and the chain (external), and the operator's script, whose  *)
(* wallet pays for itself and whose private state is its own.  What nobody *)
(* waits for is forgotten once it is decided.                              *)
(***************************************************************************)
Decide(sender, answer) ==
  flight' = [flight EXCEPT ![sender] =
               IF sender \in Slots /\ job[sender].pc = "polling"
               THEN [@ EXCEPT !.state = answer] ELSE NoFlight]

Include(i) ==
  /\ flight[i].state = "queued"
  /\ Accepts(chain, flight[i].tx)
  /\ chain' = Applied(chain, flight[i].tx)
  /\ \E answer \in {"confirmed", "failed"} : Decide(i, answer)
  /\ UNCHANGED <<store, job>> /\ UNCHANGED pageVars

Drop(i) ==
  /\ flight[i].state = "queued"
  /\ Decide(i, "failed")
  /\ UNCHANGED <<chain, store, job>> /\ UNCHANGED pageVars

PayItself(tx) ==
  /\ flight[Script].state = "none"
  /\ Send(Script, tx)

ScriptClaim(member) ==
  /\ ClaimAccessError(chain, CreatePrivateState(member)) = ""
  /\ PayItself(ClaimAccess(chain, CreatePrivateState(member)))
  /\ UNCHANGED <<chain, store, job>> /\ UNCHANGED pageVars

ScriptAdd(commitment) ==
  /\ AddMemberError(chain, CreatePrivateState(Owner)) = ""
  /\ PayItself(AddTx(commitment))
  /\ UNCHANGED <<chain, store, job>> /\ UNCHANGED pageVars

(* The page is loaded again: its handlers are gone, its secret and store   *)
(* are in the browser's storage, and requests stay with the service.       *)
Reload(r) ==
  /\ job' = [j \in Slots |-> NoJob]
  /\ flight' = [i \in Senders |-> IF flight[i].state = "queued" THEN flight[i] ELSE NoFlight]
  /\ wallet' = "none"
  /\ button' = FALSE
  /\ shown' = Unrendered
  /\ read' = [[q \in PageReads |-> Quiet] EXCEPT ![r] = [busy |-> TRUE, view |-> chain]]
  /\ UNCHANGED <<chain, secret, store>>

Page ==
  \/ \E r \in PageReads : FieldChange(r) \/ ReadFails(r) \/ Render(r)
  \/ \E r \in PageReads, s \in Secrets : SetSecret(s, r)
  \/ \E r \in PageReads : Connect(r) \/ Disconnect(r) \/ Reload(r)

Handler(j) ==
  \/ ClaimClick(j)
  \/ \E s \in Secrets, cs \in Batches : AddClick(j, s, cs)
  \/ AddCheck(j) \/ NoKeys(j)
  \/ StoreSecret(j) \/ FindContract(j) \/ Found(j)
  \/ ProveClaim(j) \/ AllAdded(j)
  \/ \E c \in Commitments : ProveAdd(j, c)
  \/ PollSettled(j) \/ PollGivesUp(j)
  \/ Close(j)

Outside ==
  \/ \E i \in Senders : Include(i) \/ Drop(i)
  \/ \E s \in Joining : ScriptClaim(s) \/ ScriptAdd(CommitmentFor(s))

Next == Page \/ Outside \/ \E j \in Slots : Handler(j)

Spec == Init /\ [][Next]_vars
-----------------------------------------------------------------------------
LedgerType(ledger) ==
  /\ ledger.leaves \in Seq(Commitments)
  /\ ledger.history \subseteq Seq(Commitments)
  /\ ledger.nullifiers \subseteq Nullifiers
  /\ ledger.admissions \in Nat
  /\ ledger.owner = CommitmentFor(Owner)

TxType(tx) ==
  /\ tx.root \in Seq(Commitments \cup {Unset})
  /\ \/ tx.kind = "add" /\ tx.key \in Commitments
     \/ tx.kind = "claim" /\ tx.key \in Nullifiers

(* The kinds of value every part of the dapp, the service and the chain    *)
(* can hold.                                                               *)
TypeOK ==
  /\ LedgerType(chain)
  /\ \A i \in Senders : /\ TxType(flight[i].tx)
                        /\ flight[i].state \in {"none", "queued", "confirmed", "failed"}
  /\ secret \in Secrets /\ store \in PrivateStates
  /\ wallet \in {"none", "connected"}
  /\ button \in BOOLEAN
  /\ \A r \in PageReads : /\ read[r].busy \in BOOLEAN
                        /\ LedgerType(read[r].view)
  /\ shown.of \in Secrets
  /\ shown.listed \in {"yes", "no", "unknown"} /\ shown.entered \in {"yes", "no", "unknown"}
  /\ \A j \in Slots : /\ job[j].held \in Secrets
                      /\ TxType(job[j].tx)

(* The tally counts the nullifiers, and each nullifier is of one member of *)
(* the list: whatever secrets two clicks, a script and a reset of the      *)
(* secret mix up, nobody enters twice and nobody enters unlisted           *)
(* (allowlist.compact:61-78).                                              *)
OneAdmissionEach ==
  /\ Admissions(chain) = Cardinality(chain.nullifiers)
  /\ \A n \in chain.nullifiers :
       \E s \in Secrets : n = NullifierFor(s) /\ Listed(chain, s)

(* "A member's proof cannot be invalidated by someone else joining"        *)
(* (allowlist.compact:29-30): a claim that was proved and whose nullifier  *)
(* is unspent is accepted whenever it reaches the chain.                   *)
ProofsSurviveJoins ==
  \A i \in Senders :
    LET tx == flight[i].tx IN
    tx.kind = "claim" /\ flight[i].state = "queued" /\ tx.key \notin chain.nullifiers
      => Accepts(chain, tx)

(* A handler that reports "you are through the door" has its nullifier on  *)
(* chain, in spite of lost answers, retries, reloads of the page and       *)
(* dropped transactions.                                                   *)
ThroughIsOnChain ==
  \A j \in Slots : job[j].result = "through" => job[j].tx.key \in chain.nullifiers

(* The page may lag behind the chain but never claims too much: a "yes" it *)
(* shows was and stays true of the secret it was rendered for, in whatever *)
(* order answers arrive and secrets change in between.                     *)
ShownYesIsTrue ==
  /\ shown.listed = "yes" => Listed(chain, shown.of)
  /\ shown.entered = "yes" => Entered(chain, shown.of)

(* The dapp implements the door: what it lists, admits and counts.         *)
Door == INSTANCE AllowlistDoor WITH
  People <- Secrets,
  listed <- {s \in Secrets : Listed(chain, s)},
  entered <- {s \in Secrets : Entered(chain, s)},
  tally <- Admissions(chain)
ImplementsDoor == Door!Spec
=============================================================================
