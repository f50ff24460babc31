-------------------------- MODULE AllowlistContract --------------------------
(***************************************************************************)
(* The contract of the example dapp (allowlist.compact and the code        *)
(* compiled from it): its ledger as a record, its two circuits as they run *)
(* in the browser against a copy of the ledger, and what the chain checks  *)
(* again when the transaction is included.                                 *)
(***************************************************************************)
EXTENDS Naturals, Sequences, FiniteSets

CONSTANTS
  Secrets,      \* the 32-byte secrets of members and of the operator
  Capacity      \* leaves of the Merkle tree: 1024 in the code

ASSUME CapacityAssumption == Capacity \in Nat

(* Hashes are one to one and domain-separated: no commitment is a nullifier. *)
CommitmentFor(secret) == <<"commitment", secret>>
NullifierFor(secret) == <<"nullifier", secret>>
Commitments == {CommitmentFor(s) : s \in Secrets}
Nullifiers == {NullifierFor(s) : s \in Secrets}
Unset == <<"zeros">>

(* A root determines the leaves below it, and is modelled as those leaves. *)
Root(leaves) == leaves
NoRoot == <<Unset>>

InitialState(ownerCommitment) ==
  [leaves |-> <<>>, history |-> {Root(<<>>)}, nullifiers |-> {},
   admissions |-> 0, owner |-> ownerCommitment]

FindPathForLeaf(ledger, leaf) ==
  {[leaf |-> leaf, root |-> Root(ledger.leaves)] :
     i \in {j \in DOMAIN ledger.leaves : ledger.leaves[j] = leaf}}
Listed(ledger, secret) ==
  \E i \in DOMAIN ledger.leaves : ledger.leaves[i] = CommitmentFor(secret)
CheckRoot(ledger, root) == root \in ledger.history
Member(ledger, nullifier) == nullifier \in ledger.nullifiers
Admissions(ledger) == ledger.admissions
OwnerOf(ledger) == ledger.owner
Entered(ledger, secret) == Member(ledger, NullifierFor(secret))
FirstFree(ledger) == Len(ledger.leaves)
IsFull(ledger) == FirstFree(ledger) >= Capacity

(* The private half: a state that only holds the secret, and the witnesses  *)
(* that read it.  The path is one of this secret's leaf, else a             *)
(* placeholder.                                                             *)
CreatePrivateState(secret) == [secret |-> secret]
PrivateStates == {CreatePrivateState(s) : s \in Secrets}
LocalSecret(state) == state.secret
EmptyPath == [leaf |-> Unset, root |-> NoRoot]
\* Mutant: the leaf of the path is not bound to the tree.
PathOfAnyone(ledger, state) ==
  [leaf |-> CommitmentFor(state.secret), root |-> Root(ledger.leaves)]
MemberPath(ledger, state) ==
  LET found == FindPathForLeaf(ledger, CommitmentFor(state.secret)) IN
  IF found = {} THEN EmptyPath ELSE CHOOSE path \in found : TRUE

(* What a circuit leaves public in its transaction. *)
AddTx(leaf) == [kind |-> "add", key |-> leaf, root |-> NoRoot]
ClaimTx(nullifier, root) == [kind |-> "claim", key |-> nullifier, root |-> root]

(* Why a circuit stops before it makes a transaction; "" when it does not. *)
AddMemberError(ledger, state) ==
  CASE CommitmentFor(LocalSecret(state)) # OwnerOf(ledger) -> "not the allowlist owner"
    [] IsFull(ledger) -> "tree is full"
    [] OTHER -> ""
ClaimAccessError(ledger, state) ==
  LET path == MemberPath(ledger, state) IN
  CASE path.leaf # CommitmentFor(LocalSecret(state)) -> "path is not for this member"
    [] ~CheckRoot(ledger, path.root) -> "not on the allowlist"
    [] Entered(ledger, LocalSecret(state)) -> "already claimed"
    [] OTHER -> ""
\* Mutant: the nullifier has no domain of its own.
ClaimUnseparated(ledger, state) ==
  ClaimTx(CommitmentFor(LocalSecret(state)), MemberPath(ledger, state).root)
ClaimAccess(ledger, state) ==
  ClaimTx(NullifierFor(LocalSecret(state)), MemberPath(ledger, state).root)

(* The reads a transaction recorded must give the same answers on chain.   *)
(* The index of a new leaf is computed on chain: two additions do not      *)
(* exclude each other.                                                     *)
\* Mutant: only the browser looks the nullifier up.
AcceptsUnread(ledger, tx) ==
  (tx.kind = "add" /\ ~IsFull(ledger)) \/ (tx.kind = "claim" /\ CheckRoot(ledger, tx.root))
Accepts(ledger, tx) ==
  \/ tx.kind = "add" /\ ~IsFull(ledger)
  \/ tx.kind = "claim" /\ CheckRoot(ledger, tx.root) /\ ~Member(ledger, tx.key)

\* Mutant: a plain Merkle tree knows its present root only.
InsertForgetful(ledger, leaf) ==
  LET leaves == Append(ledger.leaves, leaf) IN
  [leaves |-> leaves, history |-> {Root(leaves)},
   nullifiers |-> ledger.nullifiers, admissions |-> ledger.admissions,
   owner |-> ledger.owner]
InsertMember(ledger, leaf) ==
  LET leaves == Append(ledger.leaves, leaf) IN
  [leaves |-> leaves, history |-> ledger.history \cup {Root(leaves)},
   nullifiers |-> ledger.nullifiers, admissions |-> ledger.admissions,
   owner |-> ledger.owner]
InsertNullifier(ledger, nullifier) ==
  [leaves |-> ledger.leaves, history |-> ledger.history,
   nullifiers |-> ledger.nullifiers \cup {nullifier},
   admissions |-> ledger.admissions + 1, owner |-> ledger.owner]
Applied(ledger, tx) ==
  IF tx.kind = "add" THEN InsertMember(ledger, tx.key)
                     ELSE InsertNullifier(ledger, tx.key)
=============================================================================
