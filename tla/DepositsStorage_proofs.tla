------------------------ MODULE DepositsStorage_proofs ------------------------
(***************************************************************************)
(* Proofs about DepositsStorage, for every value of its constants.         *)
(***************************************************************************)
EXTENDS DepositsStorage, TLAPS

(***************************************************************************)
(* What an operation of Ops gives the actions that serve it.               *)
(***************************************************************************)
LEMMA OpFacts ==
  ASSUME NEW o \in Ops
  PROVE  /\ o.kind \in Kinds /\ o.wallet \in Wallets /\ o.spelling \in Names
         /\ LockName(o) \in Names
         /\ Delta(o) \in Int
         /\ Entry(o) \in Entries
         /\ Entry(o).kind = o.kind /\ Entry(o).hash = o.hash
<1>1. /\ o.kind \in Kinds /\ o.wallet \in Wallets /\ o.spelling \in Names
      /\ o.amount \in Nat /\ o.hash \in Hashes /\ o.stamp \in Stamps
      /\ o.wallet \in Names
  BY OpsAssumption DEF Operations
<1>2. LockName(o) \in Names
  BY <1>1 DEF LockName
<1>3. Delta(o) \in Int
  <2>1. CASE o.kind \in {"deposit", "swapToPaw"}
    BY <1>1, <2>1 DEF Delta
  <2>2. CASE o.kind \in {"withdrawal", "swapToWPaw"}
    BY <1>1, <2>2 DEF Delta
  <2>3. CASE o.kind \notin {"deposit", "swapToPaw"} \cup {"withdrawal", "swapToWPaw"}
    BY <2>3 DEF Delta
  <2> QED
    BY <2>1, <2>2, <2>3
<1>4. Entry(o) \in Entries /\ Entry(o).kind = o.kind /\ Entry(o).hash = o.hash
  BY <1>1 DEF Entry, Entries
<1> QED
  BY <1>1, <1>2, <1>3, <1>4

-----------------------------------------------------------------------------
(***************************************************************************)
(* The part of the invariant that needs no assumption on faults or         *)
(* operations: types, what a call under way serves, and that a lock in a   *)
(* call's name is the lock of the operation the call is inside of.         *)
(***************************************************************************)
LockIsOf(n, c) ==
  /\ pc[c] \in Critical
  /\ n = LockName(op[c])
  /\ IsSwapToWPaw(op[c]) => pc[c] # "exec"

SwapLockIsOf(w, c) ==
  /\ pc[c] \in Critical \cup {"lock", "swapUnlock"}
  /\ IsSwapToWPaw(op[c])
  /\ w = op[c].wallet

LocksMatch ==
  /\ \A n \in Names : lock[n] \in Calls => LockIsOf(n, lock[n])
  /\ \A w \in Wallets : swapLock[w] \in Calls => SwapLockIsOf(w, swapLock[w])

ServesOps == \A c \in Calls : ServesOp(c)

BaseInv == StorageTypeOK /\ ServesOps /\ LocksMatch

LEMMA BaseInit == StorageInit => BaseInv
<1> SUFFICES ASSUME StorageInit PROVE BaseInv
  OBVIOUS
<1>1. StorageTypeOK
  BY StorageAssumption, OpsAssumption
  DEF StorageInit, StorageTypeOK, Pcs, Settled, Entries, Free, Orphan
<1>2. ServesOps
  BY DEF StorageInit, ServesOps, ServesOp, Settled
<1>3. LocksMatch
  BY StorageAssumption DEF StorageInit, LocksMatch, Free
<1> QED
  BY <1>1, <1>2, <1>3 DEF BaseInv

LEMMA TypeStep == BaseInv /\ [StorageNext]_storageVars => StorageTypeOK'
<1> SUFFICES ASSUME BaseInv, [StorageNext]_storageVars
             PROVE  StorageTypeOK'
  OBVIOUS
<1> USE OpFacts DEF BaseInv, StorageTypeOK, Pcs, Settled, Critical, Goto, dataVars, lockVars, callVars
<1>1. ASSUME NEW c \in Calls, NEW o \in Ops, Invoke(c, o) PROVE StorageTypeOK'
  BY <1>1 DEF Invoke, TryLock, TrySwapLock, Entered
<1>2. ASSUME NEW c \in Calls, CallStep(c) PROVE StorageTypeOK'
  <2>1. pc[c] \notin Settled => op[c] \in Ops
    BY DEF ServesOps, ServesOp
  <2>2. CASE Acquire(c)
    BY <2>1, <2>2 DEF Acquire, TryLock, Entered
  <2>3. CASE AcquireSwap(c)
    BY <2>1, <2>3 DEF AcquireSwap, TrySwapLock
  <2>4. CASE LockError(c)
    BY <2>4 DEF LockError, Settle
  <2>5. CASE SwapLockError(c)
    BY <2>5 DEF SwapLockError, Settle
  <2>6. CASE Recheck(c)
    BY <2>6 DEF Recheck
  <2>7. CASE Get(c)
    BY <2>1, <2>7 DEF Get, Settle, Abandon, Stored
  <2>8. CASE Exec(c)
    BY <2>1, <2>8 DEF Exec, AfterExec
  <2>9. CASE Unlock(c)
    BY <2>1, <2>9 DEF Unlock, PassUnlock, Settle, Release
  <2>10. CASE UnlockSwap(c)
    BY <2>1, <2>10 DEF UnlockSwap, Settle, Release
  <2> QED
    BY <1>2, <2>2, <2>3, <2>4, <2>5, <2>6, <2>7, <2>8, <2>9, <2>10 DEF CallStep
<1>3. ASSUME NEW c \in Calls, RedisError(c) PROVE StorageTypeOK'
  BY <1>3 DEF RedisError, CommandFails, PassUnlock, AfterExec, Settle, Abandon
<1>4. ASSUME NEW n \in Names, Expire(n) PROVE StorageTypeOK'
  BY <1>4 DEF Expire
<1>5. ASSUME NEW w \in Wallets, ExpireSwap(w) PROVE StorageTypeOK'
  BY <1>5 DEF ExpireSwap
<1>6. CASE Crash
  BY <1>6 DEF Crash, Orphaned
<1>7. CASE UNCHANGED storageVars
  BY <1>7 DEF storageVars
<1> QED
  BY <1>1, <1>2, <1>3, <1>4, <1>5, <1>6, <1>7 DEF StorageNext, LeaseStep

LEMMA ServesOpsStep == BaseInv /\ [StorageNext]_storageVars => ServesOps'
<1> SUFFICES ASSUME BaseInv, [StorageNext]_storageVars
             PROVE  ServesOps'
  OBVIOUS
<1> USE DEF BaseInv, StorageTypeOK, ServesOps, ServesOp, Settled, Critical, Goto, Writes,
            ReadsOnly, IsSwapToWPaw
<1>1. ASSUME NEW c \in Calls, NEW o \in Ops, Invoke(c, o) PROVE ServesOps'
  BY <1>1 DEF Invoke, TryLock, TrySwapLock, Entered
<1>2. ASSUME NEW c \in Calls, CallStep(c) PROVE ServesOps'
  <2>2. CASE Acquire(c)
    BY <2>2 DEF Acquire, TryLock, Entered
  <2>3. CASE AcquireSwap(c)
    BY <2>3 DEF AcquireSwap, TrySwapLock
  <2>4. CASE LockError(c)
    BY <2>4 DEF LockError, Settle
  <2>5. CASE SwapLockError(c)
    BY <2>5 DEF SwapLockError, Settle
  <2>6. CASE Recheck(c)
    BY <2>6 DEF Recheck
  <2>7. CASE Get(c)
    BY <2>7 DEF Get, Settle
  <2>8. CASE Exec(c)
    BY <2>8 DEF Exec, AfterExec
  <2>9. CASE Unlock(c)
    BY <2>9 DEF Unlock, PassUnlock, Settle
  <2>10. CASE UnlockSwap(c)
    BY <2>10 DEF UnlockSwap, Settle
  <2> QED
    BY <1>2, <2>2, <2>3, <2>4, <2>5, <2>6, <2>7, <2>8, <2>9, <2>10 DEF CallStep
<1>3. ASSUME NEW c \in Calls, RedisError(c) PROVE ServesOps'
  BY <1>3 DEF RedisError, CommandFails, PassUnlock, AfterExec, Settle
<1>4. CASE LeaseStep
  BY <1>4 DEF LeaseStep, Expire, ExpireSwap, callVars
<1>5. CASE Crash
  BY <1>5 DEF Crash
<1>6. CASE UNCHANGED storageVars
  BY <1>6 DEF storageVars
<1> QED
  BY <1>1, <1>2, <1>3, <1>4, <1>5, <1>6 DEF StorageNext

LEMMA LocksMatchStep == BaseInv /\ [StorageNext]_storageVars => LocksMatch'
<1> SUFFICES ASSUME BaseInv, [StorageNext]_storageVars
             PROVE  LocksMatch'
  OBVIOUS
<1> USE StorageAssumption, OpFacts
    DEF BaseInv, StorageTypeOK, LocksMatch, LockIsOf, SwapLockIsOf, Settled, Critical, Goto,
        lockVars
<1>1. ASSUME NEW c \in Calls, NEW o \in Ops, Invoke(c, o) PROVE LocksMatch'
  BY <1>1 DEF Invoke, TryLock, TrySwapLock, Entered, IsSwapToWPaw
<1>2. ASSUME NEW c \in Calls, CallStep(c) PROVE LocksMatch'
  <2>1. pc[c] \notin Settled => op[c] \in Ops
    BY DEF ServesOps, ServesOp
  <2>2. CASE Acquire(c)
    BY <2>1, <2>2 DEF Acquire, TryLock, Entered
  <2>3. CASE AcquireSwap(c)
    BY <2>1, <2>3 DEF AcquireSwap, TrySwapLock, ServesOps, ServesOp
  <2>4. CASE LockError(c)
    BY <2>4 DEF LockError, Settle
  <2>5. CASE SwapLockError(c)
    BY <2>5 DEF SwapLockError, Settle
  <2>6. CASE Recheck(c)
    BY <2>6 DEF Recheck
  <2>7. CASE Get(c)
    BY <2>1, <2>7 DEF Get, Settle, Abandon, ReadsOnly, IsSwapToWPaw
  <2>8. CASE Exec(c)
    BY <2>1, <2>8 DEF Exec, AfterExec
  <2>9. CASE Unlock(c)
    BY <2>1, <2>9 DEF Unlock, PassUnlock, Settle, Release
  <2>10. CASE UnlockSwap(c)
    BY <2>1, <2>10 DEF UnlockSwap, Settle, Release
  <2> QED
    BY <1>2, <2>2, <2>3, <2>4, <2>5, <2>6, <2>7, <2>8, <2>9, <2>10 DEF CallStep
<1>3. ASSUME NEW c \in Calls, RedisError(c) PROVE LocksMatch'
  BY <1>3 DEF RedisError, CommandFails, PassUnlock, AfterExec, Settle, Abandon,
     ReadsOnly, IsSwapToWPaw, ServesOps, ServesOp
<1>4. CASE LeaseStep
  BY <1>4 DEF LeaseStep, Expire, ExpireSwap, callVars
<1>5. CASE Crash
  BY <1>5 DEF Crash, Orphaned
<1>6. CASE UNCHANGED storageVars
  BY <1>6 DEF storageVars
<1> QED
  BY <1>1, <1>2, <1>3, <1>4, <1>5, <1>6 DEF StorageNext

LEMMA BaseStep == BaseInv /\ [StorageNext]_storageVars => BaseInv'
  BY TypeStep, ServesOpsStep, LocksMatchStep DEF BaseInv

(***************************************************************************)
(* What a step that is not the start of a call leaves alone.               *)
(***************************************************************************)
InternalStep ==
  \/ \E c \in Calls : CallStep(c) \/ RedisError(c)
  \/ LeaseStep
  \/ Crash

LEMMA InternalFrame ==
  ASSUME StorageTypeOK, InternalStep
  PROVE  /\ \A c \in Calls : op'[c] = op[c] \/ op'[c] = NoOp
         /\ UNCHANGED dataVars \/ \E c \in Calls : Exec(c)
<1> USE DEF StorageTypeOK, Settle, dataVars, lockVars, callVars
<1>1. ASSUME NEW c \in Calls, CallStep(c)
      PROVE  /\ \A d \in Calls : op'[d] = op[d] \/ op'[d] = NoOp
             /\ UNCHANGED dataVars \/ Exec(c)
  BY <1>1 DEF CallStep, Acquire, AcquireSwap, LockError, SwapLockError, Recheck, Get, Exec, Unlock,
     PassUnlock, UnlockSwap
<1>2. ASSUME NEW c \in Calls, RedisError(c)
      PROVE  (\A d \in Calls : op'[d] = op[d] \/ op'[d] = NoOp) /\ UNCHANGED dataVars
  BY <1>2 DEF RedisError, CommandFails, PassUnlock
<1>3. CASE LeaseStep
  BY <1>3 DEF LeaseStep, Expire, ExpireSwap
<1>4. CASE Crash
  BY <1>4 DEF Crash
<1> QED
  BY <1>1, <1>2, <1>3, <1>4 DEF InternalStep

\* A deposit or a withdrawal that has not been written.
Unwritten == {"lock", "get", "exec"}

LEMMA UnwrittenFrame ==
  ASSUME BaseInv, InternalStep, NEW c \in Calls, op[c].kind \in {"deposit", "withdrawal"},
         pc'[c] \in Unwritten
  PROVE  pc[c] \in Unwritten /\ op'[c] = op[c] /\ ~Exec(c)
<1> USE DEF BaseInv, StorageTypeOK, Settle, Goto, Unwritten, ServesOps, ServesOp, IsSwapToWPaw, lockVars,
            callVars, Settled
<1>0. ~Exec(c)
  BY DEF Exec, AfterExec
<1>1. ASSUME NEW d \in Calls, CallStep(d)
      PROVE  pc[c] \in Unwritten /\ op'[c] = op[c]
  <2>1. CASE Acquire(d) \/ AcquireSwap(d)
    BY <2>1 DEF Acquire, AcquireSwap, TryLock, TrySwapLock
  <2>2. CASE LockError(d) \/ SwapLockError(d)
    BY <2>2 DEF LockError, SwapLockError
  <2>3. CASE Recheck(d)
    BY <2>3 DEF Recheck
  <2>4. CASE Get(d)
    BY <2>4 DEF Get, ReadsOnly
  <2>5. CASE Exec(d)
    BY <1>0, <2>5 DEF Exec, AfterExec
  <2>6. CASE Unlock(d) \/ UnlockSwap(d)
    BY <2>6 DEF Unlock, UnlockSwap, PassUnlock
  <2> QED
    BY <1>1, <2>1, <2>2, <2>3, <2>4, <2>5, <2>6 DEF CallStep
<1>2. ASSUME NEW d \in Calls, RedisError(d)
      PROVE  pc[c] \in Unwritten /\ op'[c] = op[c]
  BY <1>2 DEF RedisError, CommandFails, PassUnlock, AfterExec, ReadsOnly
<1>3. CASE LeaseStep
  BY <1>0, <1>3 DEF LeaseStep, Expire, ExpireSwap
<1>4. CASE Crash
  BY <1>4 DEF Crash
<1> QED
  BY <1>0, <1>1, <1>2, <1>3, <1>4 DEF InternalStep

LEMMA InvokeFrame ==
  ASSUME StorageTypeOK, NEW c \in Calls, NEW o \in Ops, Invoke(c, o)
  PROVE  /\ op'[c] = o /\ \A d \in Calls \ {c} : op'[d] = op[d] /\ pc'[d] = pc[d]
         /\ UNCHANGED dataVars
  BY DEF StorageTypeOK, Invoke, TryLock, TrySwapLock, Goto

LEMMA BaseInvariance == StorageSpec => []BaseInv
  BY BaseInit, BaseStep, PTL DEF StorageSpec

(***************************************************************************)
(* Type correctness, whatever the faults.                                  *)
(***************************************************************************)
THEOREM TypeCorrect == StorageSpec => []StorageTypeOK
<1>1. BaseInv => StorageTypeOK
  BY DEF BaseInv
<1> QED
  BY <1>1, BaseInvariance, PTL

(***************************************************************************)
(* Whatever the faults, a lock in a call's name belongs to a call that is  *)
(* on its way to release it: no method of RedisUsersDepositsStorage ends   *)
(* with a lock still in its name and not left to the TTL.                  *)
(***************************************************************************)
THEOREM LocksAreInUse == StorageSpec => []LocksInUse
<1>1. BaseInv => LocksInUse
  BY DEF BaseInv, LocksMatch, LockIsOf, SwapLockIsOf, LocksInUse
<1> QED
  BY <1>1, BaseInvariance, PTL

-----------------------------------------------------------------------------
(***************************************************************************)
(* The part that needs WritersAgree: exclusion, and what exclusion gives.  *)
(***************************************************************************)
Exclusion == \A c \in Calls : OwnsLock(c) /\ OwnsSwapLock(c)

Currency == \A c \in Calls : ReadIsCurrent(c) /\ StillNotPosted(c)

LEMMA AgreedInit == StorageInit => Exclusion /\ Currency /\ UnknownIsZero
  BY StorageAssumption
  DEF StorageInit, Exclusion, Currency, OwnsLock, OwnsSwapLock, ReadIsCurrent, StillNotPosted,
      UnknownIsZero, Critical

LEMMA ExclusionStep ==
  ASSUME WritersAgree, BaseInv, Exclusion, [StorageNext]_storageVars
  PROVE  Exclusion'
<1>0. \A d \in Calls : pc[d] \notin Settled =>
        op[d] \in Ops /\ LockName(op[d]) \in Names /\ op[d].wallet \in Wallets
  BY OpFacts DEF BaseInv, ServesOps, ServesOp
<1> USE <1>0, StorageAssumption, OpFacts
    DEF BaseInv, StorageTypeOK, Exclusion, OwnsLock, OwnsSwapLock, Settled, Critical, Goto,
        lockVars, callVars
<1>1. ASSUME NEW c \in Calls, NEW o \in Ops, Invoke(c, o) PROVE Exclusion'
  BY <1>1 DEF Invoke, TryLock, TrySwapLock, Entered
<1>2. ASSUME NEW c \in Calls, CallStep(c) PROVE Exclusion'
  <2>2. CASE Acquire(c)
    BY <2>2 DEF Acquire, TryLock, Entered
  <2>3. CASE AcquireSwap(c)
    BY <2>3 DEF AcquireSwap, TrySwapLock
  <2>4. CASE LockError(c)
    BY <2>4 DEF LockError, Settle
  <2>5. CASE SwapLockError(c)
    BY <2>5 DEF SwapLockError, Settle
  <2>6. CASE Recheck(c)
    BY <2>6 DEF Recheck
  <2>7. CASE Get(c)
    BY <2>7 DEF Get, Settle, Abandon, ReadsOnly, IsSwapToWPaw
  <2>8. CASE Exec(c)
    BY <2>8 DEF Exec, AfterExec
  <2>9. CASE Unlock(c)
    BY <2>9 DEF Unlock, PassUnlock, Settle, Release
  <2>10. CASE UnlockSwap(c)
    BY <2>10 DEF UnlockSwap, Settle, Release
  <2> QED
    BY <1>2, <2>2, <2>3, <2>4, <2>5, <2>6, <2>7, <2>8, <2>9, <2>10 DEF CallStep
<1>3. ASSUME NEW c \in Calls, RedisError(c) PROVE Exclusion'
  BY <1>3 DEF RedisError, CommandFails, PassUnlock, AfterExec, Settle, Abandon,
     ReadsOnly, IsSwapToWPaw, ServesOps, ServesOp
<1>4. CASE LeaseStep
  BY <1>4 DEF LeaseStep, Expire, ExpireSwap, Ends, WritersAgree
<1>5. CASE Crash
  BY <1>5 DEF Crash
<1>6. CASE UNCHANGED storageVars
  BY <1>6 DEF storageVars
<1> QED
  BY <1>1, <1>2, <1>3, <1>4, <1>5, <1>6 DEF StorageNext

LEMMA UnknownStep == BaseInv /\ UnknownIsZero /\ [StorageNext]_storageVars => UnknownIsZero'
<1> SUFFICES ASSUME BaseInv, UnknownIsZero, [StorageNext]_storageVars
             PROVE  UnknownIsZero'
  OBVIOUS
<1>1. ASSUME NEW c \in Calls, Exec(c) PROVE UnknownIsZero'
  BY <1>1 DEF Exec, UnknownIsZero, BaseInv, StorageTypeOK
<1>2. CASE UNCHANGED dataVars
  BY <1>2 DEF dataVars, UnknownIsZero
<1> QED
  BY <1>1, <1>2 DEF StorageNext, LeaseStep, CallStep, storageVars, dataVars, Invoke, Acquire,
     AcquireSwap, LockError, SwapLockError, Recheck, Get, Unlock, UnlockSwap, RedisError,
     Expire, ExpireSwap, Crash

(***************************************************************************)
(* Two calls about to write one wallet are one call.                       *)
(***************************************************************************)
Writing(c) == pc[c] = "exec" \/ (pc[c] = "unlock" /\ IsSwapToWPaw(op[c]))

LEMMA OneWriter ==
  ASSUME WritersAgree, BaseInv, Exclusion,
         NEW c \in Calls, NEW d \in Calls, pc[c] = "exec", Writing(d),
         op[c].wallet = op[d].wallet
  PROVE  c = d
<1>1. op[c] \in Ops /\ op[d] \in Ops /\ Writes(op[c]) /\ Writes(op[d])
  BY DEF BaseInv, ServesOps, ServesOp, Writing, Settled, Writes, IsSwapToWPaw
<1>2. IsSwapToWPaw(op[c]) <=> IsSwapToWPaw(op[d])
  BY <1>1 DEF WritersAgree
<1>3. CASE IsSwapToWPaw(op[c])
  BY <1>2, <1>3 DEF Exclusion, OwnsSwapLock, Writing, Critical
<1>4. CASE ~IsSwapToWPaw(op[c])
  <2>1. LockName(op[c]) = LockName(op[d])
    BY <1>1 DEF LockName, WritersAgree
  <2> QED
    BY <1>2, <1>4, <2>1 DEF Exclusion, OwnsLock, Writing, Critical
<1> QED
  BY <1>3, <1>4

LEMMA CurrencyStep ==
  ASSUME WritersAgree, BaseInv, Exclusion, UnknownIsZero, Currency, [StorageNext]_storageVars
  PROVE  Currency'
<1>0. \A d \in Calls : pc[d] \notin Settled => op[d] \in Ops /\ op[d].wallet \in Wallets
  BY OpFacts DEF BaseInv, ServesOps, ServesOp
<1> USE <1>0
    DEF BaseInv, StorageTypeOK, Currency, ReadIsCurrent, StillNotPosted, Settled, Critical, Goto,
        dataVars, lockVars, callVars
<1>1. ASSUME NEW c \in Calls, NEW o \in Ops, Invoke(c, o) PROVE Currency'
  BY <1>1 DEF Invoke, TryLock, TrySwapLock, Entered
<1>2. ASSUME NEW c \in Calls, CallStep(c) PROVE Currency'
  <2>2. CASE Acquire(c)
    BY <2>2 DEF Acquire, TryLock, Entered
  <2>3. CASE AcquireSwap(c)
    BY <2>3 DEF AcquireSwap, TrySwapLock
  <2>4. CASE LockError(c)
    BY <2>4 DEF LockError, Settle
  <2>5. CASE SwapLockError(c)
    BY <2>5 DEF SwapLockError, Settle
  <2>6. CASE Recheck(c)
    BY <2>6 DEF Recheck, IsSwapToWPaw, ServesOps, ServesOp
  <2>7. CASE Get(c)
    BY <2>7 DEF Get, Settle, Stored, UnknownIsZero, ServesOps, ServesOp
  <2>8. CASE Exec(c)
    <3>1. \A d \in Calls : Writing(d) /\ op[d].wallet = op[c].wallet => d = c
      BY <2>8, OneWriter DEF Exec
    <3>2. ASSUME NEW d \in Calls PROVE ReadIsCurrent(d)'
      BY <2>8, <3>1 DEF Exec, AfterExec, Writing
    <3>3. ASSUME NEW d \in Calls PROVE StillNotPosted(d)'
      <4>1. SUFFICES ASSUME pc[d] \in {"get", "exec"}, op[d].kind = "swapToPaw", d # c
                     PROVE  ~SwapPosted(op[d], entries')
        BY <2>8 DEF Exec, AfterExec
      <4>2. ~SwapPosted(op[d], entries) /\ op[d] \in Ops /\ op[c] \in Ops /\ pc[c] = "exec"
        BY <2>8, <4>1 DEF Exec
      <4>3. ~(op[c].kind = "swapToPaw" /\ op[c].hash = op[d].hash)
        <5>1. SUFFICES ASSUME op[c].kind = "swapToPaw", op[c].hash = op[d].hash PROVE FALSE
          OBVIOUS
        <5>2. LockName(op[c]) = LockName(op[d])
          BY <4>1, <4>2, <5>1, SwapHashAssumption DEF LockName, WritersAgree
        <5> QED
          BY <4>1, <4>2, <5>1, <5>2 DEF Exclusion, OwnsLock, IsSwapToWPaw
      <4> QED
        BY <2>8, <4>2, <4>3, OpFacts DEF Exec, SwapPosted
    <3> QED
      BY <3>2, <3>3 DEF Currency
  <2>9. CASE Unlock(c)
    BY <2>9 DEF Unlock, PassUnlock, Settle, IsSwapToWPaw
  <2>10. CASE UnlockSwap(c)
    BY <2>10 DEF UnlockSwap, Settle
  <2> QED
    BY <1>2, <2>2, <2>3, <2>4, <2>5, <2>6, <2>7, <2>8, <2>9, <2>10 DEF CallStep
<1>3. ASSUME NEW c \in Calls, RedisError(c) PROVE Currency'
  BY <1>3 DEF RedisError, CommandFails, PassUnlock, AfterExec, Settle, ReadsOnly, IsSwapToWPaw,
     ServesOps, ServesOp
<1>4. CASE LeaseStep
  BY <1>4 DEF LeaseStep, Expire, ExpireSwap
<1>5. CASE Crash
  BY <1>5 DEF Crash
<1>6. CASE UNCHANGED storageVars
  BY <1>6 DEF storageVars
<1> QED
  BY <1>1, <1>2, <1>3, <1>4, <1>5, <1>6 DEF StorageNext

AgreedInv == BaseInv /\ Exclusion /\ UnknownIsZero /\ Currency

LEMMA AgreedInvariance == WritersAgree => (StorageSpec => []AgreedInv)
<1> SUFFICES ASSUME WritersAgree PROVE StorageSpec => []AgreedInv
  OBVIOUS
<1>1. StorageInit => AgreedInv
  BY BaseInit, AgreedInit DEF AgreedInv
<1>2. AgreedInv /\ [StorageNext]_storageVars => AgreedInv'
  BY BaseStep, ExclusionStep, UnknownStep, CurrencyStep DEF AgreedInv
<1> QED
  BY <1>1, <1>2, PTL DEF StorageSpec

(***************************************************************************)
(* The inductive invariant the runs check.                                 *)
(***************************************************************************)
THEOREM StorageInvariant == WritersAgree => (StorageSpec => []StorageInv)
<1>1. AgreedInv => StorageInv
  BY DEF AgreedInv, BaseInv, ServesOps, Exclusion, Currency, StorageInv
<1> QED
  BY <1>1, AgreedInvariance, PTL

-----------------------------------------------------------------------------
(***************************************************************************)
(* The storage implements the abstract ledger: no write is lost under      *)
(* another, none is applied without its audit entry, and a swap to PAW is  *)
(* credited once, for any number of wallets, calls and operations and      *)
(* whatever lock timeouts, Redis errors and crashes happen.                *)
(***************************************************************************)
LEMMA LedgerStep ==
  ASSUME AgreedInv, [StorageNext]_storageVars
  PROVE  [L!LedgerNext]_L!ledgerVars
<1>1. ASSUME NEW c \in Calls, Exec(c) PROVE L!LedgerNext
  <2>1. op[c] \in Ops /\ Writes(op[c]) /\ op[c].wallet \in Wallets
    BY <1>1, OpFacts DEF Exec, AgreedInv, BaseInv, ServesOps, ServesOp, Settled
  <2>2. read[c] = balance[op[c].wallet]
    BY <1>1 DEF Exec, AgreedInv, Currency, ReadIsCurrent
  <2>3. op[c].kind = "swapToPaw" => ~SwapPosted(op[c], entries)
    BY <1>1 DEF Exec, AgreedInv, Currency, StillNotPosted
  <2>4. L!Post(op[c])
    BY <1>1, <2>1, <2>2, <2>3 DEF Exec, L!Post, Writes, L!Writes, SwapPosted, L!SwapPosted,
       Delta, L!Delta, Entry, L!Entry, AgreedInv, BaseInv, StorageTypeOK
  <2> QED
    BY <2>1, <2>4 DEF L!LedgerNext
<1>2. CASE UNCHANGED dataVars
  BY <1>2 DEF dataVars, L!ledgerVars
<1> QED
  BY <1>1, <1>2 DEF StorageNext, LeaseStep, CallStep, storageVars, dataVars, Invoke, Acquire,
     AcquireSwap, LockError, SwapLockError, Recheck, Get, Unlock, UnlockSwap, RedisError,
     Expire, ExpireSwap, Crash

THEOREM StorageImplementsLedger == WritersAgree => (StorageSpec => ImplementsLedger)
<1>1. StorageInit => L!LedgerInit
  BY DEF StorageInit, L!LedgerInit
<1> QED
  BY <1>1, LedgerStep, AgreedInvariance, PTL DEF StorageSpec, ImplementsLedger, L!LedgerSpec
=============================================================================
