--------------------------- MODULE DepositsStorage ---------------------------
(***************************************************************************)
(* RedisUsersDepositsStorage: the balance of every PAW wallet and the      *)
(* audit entries, kept in Redis, with the methods that read and write them.*)
(*                                                                         *)
(* A call is suspended at every await and other calls run meanwhile; "pc"  *)
(* says where.  Commands go down one connection in order, so a command     *)
(* takes effect where it is issued: a call makes its first attempt at a    *)
(* lock in the step that invokes it.                                       *)
(*                                                                         *)
(*   lock, recheck, get, exec, unlock   inside the lock of a balance       *)
(*   swapLock, swapUnlock               the outer lock of a swap to wPAW   *)
(*   resolved, rejected, dead           the call is over (dead: the        *)
(*                                      process died under it)             *)
(***************************************************************************)
EXTENDS LedgerOps, FiniteSets

CONSTANTS
  Calls,      \* the calls that may be in progress at the same time
  Opening,    \* the balances at the start; a wallet outside its support has no key
  Faults      \* which of FaultKinds may happen

FaultKinds == {"lockTimeout", "redisError", "leaseExpiry", "crash"}

\* A call to Redis that is waited for may reject.
RedisFails == "redisError" \in Faults

Free   == "free"      \* nobody holds the lock
Orphan == "orphan"    \* held, and nobody will release it: only its TTL ends it

ASSUME StorageAssumption ==
  /\ Opening \in [Wallets -> Nat]
  /\ Faults \subseteq FaultKinds
  /\ {Free, Orphan} \cap Calls = {}

VARIABLES
  balance,    \* paw-balance:<wallet>, 0 where there is no such key
  known,      \* the wallets whose paw-balance key exists
  entries,    \* the members of the sorted sets, with their audit hashes
  lock,       \* locks:paw-balance:<name>
  swapLock,   \* locks:swaps:paw-to-wpaw:<wallet>
  pc,         \* where every call stands
  op,         \* the operation every call serves
  read        \* the balance every call has read

dataVars    == <<balance, known, entries>>
lockVars    == <<lock, swapLock>>
callVars    == <<pc, op, read>>
storageVars == <<balance, known, entries, lock, swapLock, pc, op, read>>

NoOp == [kind |-> "none"]

Settled  == {"idle", "resolved", "rejected", "dead"}
Critical == {"recheck", "get", "exec", "unlock"}
Pcs      == Settled \cup Critical \cup {"lock", "swapLock", "swapUnlock"}

StorageInit ==
  /\ balance = Opening
  /\ known = {w \in Wallets : Opening[w] # 0}
  /\ entries = {}
  /\ lock = [n \in Names |-> Free]
  /\ swapLock = [w \in Wallets |-> Free]
  /\ pc = [c \in Calls |-> "idle"]
  /\ op = [c \in Calls |-> NoOp]
  /\ read = [c \in Calls |-> 0]

-----------------------------------------------------------------------------
(***************************************************************************)
(* Locks.  Deposits and withdrawals lower-case the wallet before they name *)
(* the lock, and so does a swap to wPAW for the read it makes; a read and  *)
(* a swap to PAW use the wallet as it was given.                           *)
(***************************************************************************)
LockName(o) == IF o.kind \in {"read", "swapToPaw"} THEN o.spelling ELSE o.wallet

IsSwapToWPaw(o) == o.kind = "swapToWPaw"

\* Where a call goes once it has the lock of the balance.
Entered(o) == IF o.kind = "swapToPaw" THEN "recheck" ELSE "get"

Goto(c, where) == pc' = [pc EXCEPT ![c] = where]

\* The call is over: only a resolved read leaves a value behind.
Settle(c, how, value) ==
  /\ Goto(c, how)
  /\ op' = [op EXCEPT ![c] = NoOp]
  /\ read' = [read EXCEPT ![c] = value]

\* unlock() deletes the lock only if the caller still owns it.
Release(table, n, c) == [table EXCEPT ![n] = IF @ = c THEN Free ELSE @]
Abandon(table, n, c) == [table EXCEPT ![n] = IF @ = c THEN Orphan ELSE @]

\* Mutant of TryLock: the lock is taken over whoever holds it.
TryLockUnchecked(c, o) ==
  /\ lock' = [lock EXCEPT ![LockName(o)] = c]
  /\ Goto(c, Entered(o))

\* An attempt fails because the lock is taken, or because Redis does not answer.
AttemptFails(holder) == holder # Free \/ RedisFails

TryLock(c, o) ==
  \/ /\ lock[LockName(o)] = Free
     /\ lock' = [lock EXCEPT ![LockName(o)] = c]
     /\ Goto(c, Entered(o))
  \/ /\ AttemptFails(lock[LockName(o)])
     /\ Goto(c, "lock")
     /\ UNCHANGED lock

TrySwapLock(c, o) ==
  \/ /\ swapLock[o.wallet] = Free
     /\ swapLock' = [swapLock EXCEPT ![o.wallet] = c]
     /\ Goto(c, "lock")
  \/ /\ AttemptFails(swapLock[o.wallet])
     /\ Goto(c, "swapLock")
     /\ UNCHANGED swapLock

\* A method is called: it makes its first attempt at the lock it needs first.
Invoke(c, o) ==
  /\ pc[c] \in Settled
  /\ op' = [op EXCEPT ![c] = o]
  /\ read' = [read EXCEPT ![c] = 0]
  /\ \/ IsSwapToWPaw(o) /\ TrySwapLock(c, o) /\ UNCHANGED lock
     \/ ~IsSwapToWPaw(o) /\ TryLock(c, o) /\ UNCHANGED swapLock
  /\ UNCHANGED dataVars

\* A retry that succeeds; one that fails changes nothing.
Acquire(c) ==
  /\ pc[c] = "lock"
  /\ lock[LockName(op[c])] = Free
  /\ TryLock(c, op[c])
  /\ UNCHANGED <<dataVars, swapLock, op, read>>

AcquireSwap(c) ==
  /\ pc[c] = "swapLock"
  /\ swapLock[op[c].wallet] = Free
  /\ TrySwapLock(c, op[c])
  /\ UNCHANGED <<dataVars, lock, op, read>>

\* The retries are used up: others held the lock all along, or Redis did not answer.
RetriesRunOut(holder) == ("lockTimeout" \in Faults /\ holder # Free) \/ RedisFails

\* Mutant of LockError: a swap to wPAW lets the error of its read through.
LockErrorThrown(c) ==
  /\ pc[c] = "lock"
  /\ RetriesRunOut(lock[LockName(op[c])])
  /\ Settle(c, "rejected", 0)
  /\ UNCHANGED <<dataVars, lockVars>>

(***************************************************************************)
(* Redlock gives up after its retries: LockError.  A swap to wPAW catches  *)
(* the one of its inner read and goes on to unlock; every other call       *)
(* rejects (and nobody hears it where the promise is detached).            *)
(***************************************************************************)
LockError(c) ==
  /\ pc[c] = "lock"
  /\ RetriesRunOut(lock[LockName(op[c])])
  /\ \/ IsSwapToWPaw(op[c]) /\ Goto(c, "swapUnlock") /\ UNCHANGED <<op, read>>
     \/ ~IsSwapToWPaw(op[c]) /\ Settle(c, "rejected", 0)
  /\ UNCHANGED <<dataVars, lockVars>>

SwapLockError(c) ==
  /\ pc[c] = "swapLock"
  /\ RetriesRunOut(swapLock[op[c].wallet])
  /\ Settle(c, "rejected", 0)
  /\ UNCHANGED <<dataVars, lockVars>>

-----------------------------------------------------------------------------
(***************************************************************************)
(* Inside the lock.                                                        *)
(***************************************************************************)
\* Mutant of Recheck: the question is not asked again.
RecheckSkipped(c) ==
  /\ pc[c] = "recheck"
  /\ Goto(c, "get")
  /\ UNCHANGED <<dataVars, lockVars, op, read>>

\* swapToPawWasAlreadyDone, asked again under the lock.
Recheck(c) ==
  /\ pc[c] = "recheck"
  /\ Goto(c, IF SwapPosted(op[c], entries) THEN "unlock" ELSE "get")
  /\ UNCHANGED <<dataVars, lockVars, op, read>>

(***************************************************************************)
(* GET of the balance.  getUserAvailableBalance returns 0 for a missing    *)
(* key before it reaches its unlock, and so leaves the lock to its TTL; a  *)
(* swap to wPAW reads through it.  The other writers take 0 and go on.     *)
(***************************************************************************)
ReadsOnly(o) == o.kind \in {"read", "swapToWPaw"}

Stored(w) == IF w \in known THEN balance[w] ELSE 0

Get(c) ==
  LET o == op[c] IN
  /\ pc[c] = "get"
  /\ \/ /\ ReadsOnly(o) /\ o.wallet \in known
        /\ Goto(c, "unlock")
        /\ read' = [read EXCEPT ![c] = Stored(o.wallet)]
        /\ UNCHANGED <<lock, op>>
     \/ /\ o.kind = "read" /\ o.wallet \notin known
        /\ lock' = Abandon(lock, LockName(o), c)
        /\ Settle(c, "resolved", 0)
     \/ /\ IsSwapToWPaw(o) /\ o.wallet \notin known
        /\ lock' = Abandon(lock, LockName(o), c)
        /\ Goto(c, "exec")
        /\ read' = [read EXCEPT ![c] = 0]
        /\ UNCHANGED op
     \/ /\ ~ReadsOnly(o)
        /\ Goto(c, "exec")
        /\ read' = [read EXCEPT ![c] = Stored(o.wallet)]
        /\ UNCHANGED <<lock, op>>
  /\ UNCHANGED <<dataVars, swapLock>>

\* MULTI SET ZADD HSET EXEC: the new balance and the audit entry in one transaction.
AfterExec(o) == IF IsSwapToWPaw(o) THEN "swapUnlock" ELSE "unlock"

\* Mutants of Exec: no audit entry, and one with the balance for an amount.
ExecUnfiled(c) ==
  /\ pc[c] = "exec"
  /\ balance' = [balance EXCEPT ![op[c].wallet] = read[c] + Delta(op[c])]
  /\ known' = known \cup {op[c].wallet}
  /\ Goto(c, AfterExec(op[c]))
  /\ UNCHANGED <<entries, lockVars, op, read>>

ExecFilesBalance(c) ==
  LET o == op[c]
      new == read[c] + Delta(o) IN
  /\ pc[c] = "exec"
  /\ balance' = [balance EXCEPT ![o.wallet] = new]
  /\ known' = known \cup {o.wallet}
  /\ entries' = entries \cup {[Entry(o) EXCEPT !.amount = new]}
  /\ Goto(c, AfterExec(o))
  /\ UNCHANGED <<lockVars, op, read>>

Exec(c) ==
  LET o == op[c] IN
  /\ pc[c] = "exec"
  /\ balance' = [balance EXCEPT ![o.wallet] = read[c] + Delta(o)]
  /\ known' = known \cup {o.wallet}
  /\ entries' = entries \cup {Entry(o)}
  /\ Goto(c, AfterExec(o))
  /\ UNCHANGED <<lockVars, op, read>>

\* After the balance's lock: a swap to wPAW goes on to write, the others are done.
PassUnlock(c) ==
  \/ IsSwapToWPaw(op[c]) /\ Goto(c, "exec") /\ UNCHANGED <<op, read>>
  \/ ~IsSwapToWPaw(op[c]) /\ Settle(c, "resolved", IF op[c].kind = "read" THEN read[c] ELSE 0)

\* Mutants of Unlock: the lock is not given back; it insists on one whose lease is over.
UnlockForgotten(c) ==
  /\ pc[c] = "unlock"
  /\ PassUnlock(c)
  /\ UNCHANGED <<dataVars, lockVars>>

UnlockInsisting(c) ==
  /\ pc[c] = "unlock"
  /\ lock[LockName(op[c])] = c
  /\ lock' = Release(lock, LockName(op[c]), c)
  /\ PassUnlock(c)
  /\ UNCHANGED <<dataVars, swapLock>>

Unlock(c) ==
  /\ pc[c] = "unlock"
  /\ lock' = Release(lock, LockName(op[c]), c)
  /\ PassUnlock(c)
  /\ UNCHANGED <<dataVars, swapLock>>

UnlockSwap(c) ==
  /\ pc[c] = "swapUnlock"
  /\ swapLock' = Release(swapLock, op[c].wallet, c)
  /\ Settle(c, "resolved", 0)
  /\ UNCHANGED <<dataVars, lock>>

-----------------------------------------------------------------------------
(***************************************************************************)
(* A Redis command fails.  getUserAvailableBalance and the recheck of a    *)
(* swap to PAW are outside any try: the call rejects and its lock is left  *)
(* to the TTL.  The writers catch the error, log it and unlock; their      *)
(* promise resolves although nothing was written.  A failed unlock is      *)
(* logged and passed over.                                                 *)
(***************************************************************************)
CommandFails(c) ==
  LET o == op[c] IN
  \/ /\ pc[c] = "recheck" \/ (pc[c] = "get" /\ o.kind = "read")
     /\ lock' = Abandon(lock, LockName(o), c)
     /\ Settle(c, "rejected", 0)
     /\ UNCHANGED swapLock
  \/ /\ pc[c] = "get" /\ IsSwapToWPaw(o)
     /\ lock' = Abandon(lock, LockName(o), c)
     /\ Goto(c, "swapUnlock")
     /\ UNCHANGED <<swapLock, op, read>>
  \/ /\ (pc[c] = "get" /\ ~ReadsOnly(o)) \/ pc[c] = "exec"
     /\ Goto(c, AfterExec(o))
     /\ UNCHANGED <<lockVars, op, read>>
  \/ /\ pc[c] = "unlock"
     /\ lock' = Abandon(lock, LockName(o), c)
     /\ PassUnlock(c)
     /\ UNCHANGED swapLock
  \/ /\ pc[c] = "swapUnlock"
     /\ swapLock' = Abandon(swapLock, o.wallet, c)
     /\ Settle(c, "resolved", 0)
     /\ UNCHANGED lock

RedisError(c) ==
  /\ RedisFails
  /\ CommandFails(c)
  /\ UNCHANGED dataVars

\* The TTL of a lock nobody will release, or (a fault) of one still in use.
Ends(holder) == holder = Orphan \/ ("leaseExpiry" \in Faults /\ holder \in Calls)

Expire(n) ==
  /\ Ends(lock[n])
  /\ lock' = [lock EXCEPT ![n] = Free]
  /\ UNCHANGED <<dataVars, swapLock, callVars>>

ExpireSwap(w) ==
  /\ Ends(swapLock[w])
  /\ swapLock' = [swapLock EXCEPT ![w] = Free]
  /\ UNCHANGED <<dataVars, lock, callVars>>

\* The process dies: its calls are gone, what is in Redis stays.
Orphaned(table) == [n \in DOMAIN table |-> IF table[n] \in Calls THEN Orphan ELSE table[n]]

Crash ==
  /\ "crash" \in Faults
  /\ pc' = [c \in Calls |-> IF pc[c] \in Settled THEN pc[c] ELSE "dead"]
  /\ op' = [c \in Calls |-> NoOp]
  /\ read' = [c \in Calls |-> IF pc[c] \in Settled THEN read[c] ELSE 0]
  /\ lock' = Orphaned(lock)
  /\ swapLock' = Orphaned(swapLock)
  /\ UNCHANGED dataVars

-----------------------------------------------------------------------------
CallStep(c) ==
  \/ Acquire(c) \/ AcquireSwap(c) \/ LockError(c) \/ SwapLockError(c)
  \/ Recheck(c) \/ Get(c) \/ Exec(c) \/ Unlock(c) \/ UnlockSwap(c)

LeaseStep ==
  \/ \E n \in Names : Expire(n)
  \/ \E w \in Wallets : ExpireSwap(w)

StorageNext ==
  \/ \E c \in Calls, o \in Ops : Invoke(c, o)
  \/ \E c \in Calls : CallStep(c)
  \/ \E c \in Calls : RedisError(c)
  \/ LeaseStep
  \/ Crash

StorageSpec == StorageInit /\ [][StorageNext]_storageVars

-----------------------------------------------------------------------------
(***************************************************************************)
(* Properties.                                                             *)
(***************************************************************************)
\* Every variable has its type.
StorageTypeOK ==
  /\ balance \in [Wallets -> Int]
  /\ known \subseteq Wallets
  /\ entries \subseteq Entries
  /\ lock \in [Names -> Calls \cup {Free, Orphan}]
  /\ swapLock \in [Wallets -> Calls \cup {Free, Orphan}]
  /\ pc \in [Calls -> Pcs]
  /\ op \in [Calls -> Ops \cup {NoOp}]
  /\ read \in [Calls -> Int]

(***************************************************************************)
(* A lock in a call's name belongs to a call that is on its way to release *)
(* it: whatever fails, no call is over while a lock is still in its name   *)
(* and not left to the TTL.                                                *)
(***************************************************************************)
LocksInUse ==
  /\ \A n \in Names : lock[n] \in Calls => pc[lock[n]] \in Critical
  /\ \A w \in Wallets : swapLock[w] \in Calls =>
        /\ pc[swapLock[w]] \in Critical \cup {"lock", "swapUnlock"}
        /\ IsSwapToWPaw(op[swapLock[w]])

(***************************************************************************)
(* The abstract ledger.  The storage implements it for a wallet whose      *)
(* writers agree on a lock (none of them, or all of them, swap to wPAW),   *)
(* named by callers that spell it in lower case, as long as no lease ends  *)
(* under its holder.                                                       *)
(***************************************************************************)
L == INSTANCE Ledger WITH funds <- balance, posted <- entries

WritersAgree ==
  /\ "leaseExpiry" \notin Faults
  /\ \A o \in Ops : o.spelling = o.wallet
  /\ \A o, p \in Ops : Writes(o) /\ Writes(p) /\ o.wallet = p.wallet
                         => (IsSwapToWPaw(o) <=> IsSwapToWPaw(p))

ImplementsLedger == L!LedgerSpec

(***************************************************************************)
(* The parts of the argument: a call inside a balance's lock owns it, a    *)
(* swap to wPAW owns its outer lock until it is done, what a writer is     *)
(* about to add to is the balance as it is, and a swap to PAW that passed  *)
(* the recheck is still not posted.                                        *)
(***************************************************************************)
OwnsLock(c) ==
  pc[c] \in Critical /\ ~(IsSwapToWPaw(op[c]) /\ pc[c] = "exec") => lock[LockName(op[c])] = c

OwnsSwapLock(c) ==
  IsSwapToWPaw(op[c]) /\ pc[c] \in Critical \cup {"lock", "swapUnlock"}
    => swapLock[op[c].wallet] = c

ReadIsCurrent(c) ==
  /\ pc[c] = "exec" => read[c] = balance[op[c].wallet]
  /\ pc[c] = "unlock" /\ IsSwapToWPaw(op[c]) => read[c] = balance[op[c].wallet]

StillNotPosted(c) ==
  pc[c] \in {"get", "exec"} /\ op[c].kind = "swapToPaw" => ~SwapPosted(op[c], entries)

\* A call under way serves an operation, and a call that writes serves a writer.
ServesOp(c) ==
  /\ pc[c] \notin Settled => op[c] \in Ops
  /\ pc[c] = "exec" => Writes(op[c])
  /\ pc[c] \in {"swapLock", "swapUnlock"} => IsSwapToWPaw(op[c])
  /\ pc[c] = "recheck" => op[c].kind = "swapToPaw"

UnknownIsZero == \A w \in Wallets : w \notin known => balance[w] = 0

StorageInv ==
  /\ StorageTypeOK
  /\ UnknownIsZero
  /\ \A c \in Calls : ServesOp(c) /\ OwnsLock(c) /\ OwnsSwapLock(c)
                        /\ ReadIsCurrent(c) /\ StillNotPosted(c)

-----------------------------------------------------------------------------
(***************************************************************************)
(* Fairness: the event loop runs every continuation whose reply is in, and *)
(* Redis ends the lease of a lock that was abandoned.  That of a lock in   *)
(* use may end (a fault) and need not: its holder has to give it back.     *)
(***************************************************************************)
StorageFairness ==
  /\ \A c \in Calls : WF_storageVars(CallStep(c))
  /\ \A n \in Names : WF_storageVars(lock[n] = Orphan /\ Expire(n))
  /\ \A w \in Wallets : WF_storageVars(swapLock[w] = Orphan /\ ExpireSwap(w))

\* Every call settles.
CallsSettle == \A c \in Calls : pc[c] \notin Settled ~> pc[c] \in Settled

(***************************************************************************)
(* Every lock comes back, whatever fails under its holder: it is given     *)
(* back on every path of every method, or abandoned to its TTL where the   *)
(* method skips the unlock.  No lease has to end under its holder for it.  *)
(***************************************************************************)
LocksComeBack ==
  /\ \A n \in Names : lock[n] # Free ~> lock[n] = Free
  /\ \A w \in Wallets : swapLock[w] # Free ~> swapLock[w] = Free
=============================================================================
