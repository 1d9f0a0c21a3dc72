------------------------------ MODULE LedgerOps ------------------------------
(***************************************************************************)
(* The operations users' deposits go through, as the storage receives them *)
(* from UsersDepositsService, and what each is worth to a PAW wallet.      *)
(*                                                                         *)
(* An operation is a record                                                *)
(*   kind      the storage method called                                   *)
(*   wallet    the lower-cased PAW wallet, which names the balance key     *)
(*   spelling  the wallet as the caller spelt it; two methods build their  *)
(*             lock name from it                                           *)
(*   amount    the amount, in the smallest unit (0 for a read)             *)
(*   hash      what the audit entry is filed under: a transaction hash, a  *)
(*             receipt, or for a swap to PAW the pair of the blockchain    *)
(*             wallet and the transaction hash                             *)
(*   stamp     the timestamp, the score of the audit entry                 *)
(***************************************************************************)
EXTENDS Integers

CONSTANTS
  Wallets,   \* lower-cased PAW wallets
  Names,     \* every spelling of a wallet
  Hashes,    \* transaction hashes and receipts
  Stamps,    \* timestamps
  Ops        \* the operations the environment may ask for

Kinds == {"read", "deposit", "withdrawal", "swapToWPaw", "swapToPaw"}

Operations == [kind : Kinds, wallet : Wallets, spelling : Names,
               amount : Nat, hash : Hashes, stamp : Stamps]

ASSUME OpsAssumption == Wallets \subseteq Names /\ Ops \subseteq Operations

(***************************************************************************)
(* A swap to PAW is an event of one transaction: its hash says which       *)
(* wallet is to be credited.                                               *)
(***************************************************************************)
ASSUME SwapHashAssumption ==
  \A o, p \in Ops : o.kind = "swapToPaw" /\ p.kind = "swapToPaw" /\ o.hash = p.hash
                      => o.wallet = p.wallet

Writes(o) == o.kind # "read"

\* Mutant of Delta: the sign of a debit is lost.
DeltaUnsigned(o) == IF Writes(o) THEN o.amount ELSE 0

\* What a posted operation adds to the balance of its wallet.
Delta(o) == CASE o.kind \in {"deposit", "swapToPaw"}     -> o.amount
              [] o.kind \in {"withdrawal", "swapToWPaw"} -> -o.amount
              [] OTHER                                   -> 0

\* Mutant of Entry: the audit entry is stored without its timestamp.
EntryUnstamped(o) == [kind |-> o.kind, wallet |-> o.wallet, amount |-> o.amount, hash |-> o.hash]

\* The member and score added to a sorted set of the wallet, with its audit hash.
Entry(o) == [kind |-> o.kind, wallet |-> o.wallet, amount |-> o.amount,
             hash |-> o.hash, stamp |-> o.stamp]

Entries == [kind : Kinds, wallet : Wallets, amount : Nat, hash : Hashes, stamp : Stamps]

EntryAmount == [e \in Entries |-> e.amount]

\* Is the transaction of a swap to PAW among the entries?
SwapPosted(o, entrySet) == \E e \in entrySet : e.kind = "swapToPaw" /\ e.hash = o.hash
=============================================================================
