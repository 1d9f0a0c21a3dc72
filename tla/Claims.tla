-------------------------------- MODULE Claims --------------------------------
(***************************************************************************)
(* Claims of a PAW wallet by a blockchain wallet: Service.claim, the two   *)
(* kinds of Redis keys it reads and writes, and the confirmation a deposit *)
(* makes of a pending claim.                                               *)
(*                                                                         *)
(* A claim request is suspended at each of its questions ("at"):           *)
(*   blacklist, hasClaim, hasPending, recheck, store                       *)
(* and then keeps the answer it gave.                                      *)
(***************************************************************************)
EXTENDS Naturals, FiniteSets

CONSTANTS
  PawWallets,     \* lower-cased PAW wallets, which the keys are named after
  Spellings,      \* PAW wallets as requests spell them
  LowerCase,      \* the lower-cased wallet of a spelling
  Owners,         \* lower-cased blockchain wallets
  ClaimCalls,     \* the claim requests that may be in progress at once
  Blacklist       \* the spellings of PAW wallets on the blacklist

ASSUME ClaimsAssumption ==
  /\ IsFiniteSet(ClaimCalls)
  /\ LowerCase \in [Spellings -> PawWallets]

VARIABLES
  pending,     \* claims:pending:<wallet>:<owner>, each with a TTL of five minutes
  claims,      \* claims:<wallet>:<owner>
  stored,      \* the pairs a pending claim was ever stored for
  claimCall    \* the claim requests

claimVars == <<pending, claims, stored, claimCall>>

Pairs == [wallet : PawWallets, owner : Owners]

Questions == {"blacklist", "hasClaim", "hasPending", "recheck", "store"}
Answers   == {"Ok", "AlreadyDone", "InvalidSignature", "InvalidOwner", "Error", "Blacklisted",
              "Unanswered"}

NoRequest == [at |-> "idle"]

ClaimInit ==
  /\ pending = {} /\ claims = {} /\ stored = {}
  /\ claimCall = [c \in ClaimCalls |-> NoRequest]

PendingOf(w) == {p \in pending : p.wallet = w}

\* Mutant of HasPendingClaim: the claims are looked up, not the pending ones.
HasConfirmedClaim(w) == \E p \in claims : p.wallet = w

HasPendingClaim(w) == PendingOf(w) # {}
HasClaim(p)        == p \in claims
IsClaimed(w)       == \E p \in claims : p.wallet = w

-----------------------------------------------------------------------------
Asks(c, question) == claimCall' = [claimCall EXCEPT ![c].at = question]

AnswerClaim(c, answer) == Asks(c, answer)

PairOf(spelling, owner) == [wallet |-> LowerCase[spelling], owner |-> owner]

\* POST /claim: a bad signature is answered at once.
RequestClaim(c, spelling, owner) ==
  /\ claimCall[c].at \in Answers \cup {"idle"}
  /\ \E at \in {"InvalidSignature", "blacklist"} :
        claimCall' = [claimCall EXCEPT ![c] =
                        [at |-> at, spelling |-> spelling, pair |-> PairOf(spelling, owner)]]
  /\ UNCHANGED <<pending, claims, stored>>

\* Mutant of CheckBlacklist: the answer is not looked at.
CheckBlacklistIgnored(c) ==
  /\ claimCall[c].at = "blacklist"
  /\ Asks(c, "hasClaim")
  /\ UNCHANGED <<pending, claims, stored>>

\* The wallet is compared with the list as it is spelt; what is stored is named after its
\* lower case.
CheckBlacklist(c) ==
  /\ claimCall[c].at = "blacklist"
  /\ IF claimCall[c].spelling \in Blacklist THEN AnswerClaim(c, "Blacklisted")
                                            ELSE Asks(c, "hasClaim")
  /\ UNCHANGED <<pending, claims, stored>>

CheckClaim(c) ==
  /\ claimCall[c].at = "hasClaim"
  /\ IF HasClaim(claimCall[c].pair) THEN AnswerClaim(c, "AlreadyDone")
                                    ELSE Asks(c, "hasPending")
  /\ UNCHANGED <<pending, claims, stored>>

CheckPendingClaim(c) ==
  /\ claimCall[c].at = "hasPending"
  /\ IF HasPendingClaim(claimCall[c].pair.wallet) THEN AnswerClaim(c, "InvalidOwner")
                                                  ELSE Asks(c, "recheck")
  /\ UNCHANGED <<pending, claims, stored>>

\* UsersDepositsService.storePendingClaim asks once more before it stores.
RecheckPendingClaim(c) ==
  /\ claimCall[c].at = "recheck"
  /\ IF HasPendingClaim(claimCall[c].pair.wallet) THEN AnswerClaim(c, "Error")
                                                  ELSE Asks(c, "store")
  /\ UNCHANGED <<pending, claims, stored>>

\* Mutant of StorePendingClaim: a claim at once.
StoreAsClaim(c) ==
  /\ claimCall[c].at = "store"
  /\ claims' = claims \cup {claimCall[c].pair}
  /\ stored' = stored \cup {claimCall[c].pair}
  /\ AnswerClaim(c, "Ok")
  /\ UNCHANGED pending

(***************************************************************************)
(* SET and EXPIRE in one transaction.  An error of Redis is caught and     *)
(* answered: with nothing stored, or after the transaction if its reply is *)
(* what is lost.                                                           *)
(***************************************************************************)
StorePendingClaim(c) ==
  /\ claimCall[c].at = "store"
  /\ \/ /\ pending' = pending \cup {claimCall[c].pair}
        /\ stored' = stored \cup {claimCall[c].pair}
        /\ \E answer \in {"Ok", "Error"} : AnswerClaim(c, answer)
     \/ AnswerClaim(c, "Error") /\ UNCHANGED <<pending, stored>>
  /\ UNCHANGED claims

\* A question to Redis or to the list fails: the route throws, and answers nothing.
QuestionFails(c) ==
  /\ claimCall[c].at \in Questions \ {"store"}
  /\ AnswerClaim(c, "Unanswered")
  /\ UNCHANGED <<pending, claims, stored>>

\* The five minutes of a pending claim are over.
ExpirePendingClaim(p) ==
  /\ p \in pending
  /\ pending' = pending \ {p}
  /\ UNCHANGED <<claims, stored, claimCall>>

(***************************************************************************)
(* A deposit of the wallet's owner confirms a pending claim: KEYS lists    *)
(* the pending claims of the wallet in no particular order and the first   *)
(* is set as a claim.  The pending key is left to its TTL, and may have    *)
(* ended between the two: any pair that was ever pending may be set.       *)
(***************************************************************************)
ConfirmClaim(p) ==
  /\ claims' = claims \cup {p}
  /\ UNCHANGED <<pending, stored, claimCall>>

\* The process dies, and the requests with it.
LoseRequests ==
  /\ claimCall' = [c \in ClaimCalls |-> NoRequest]
  /\ UNCHANGED <<pending, claims, stored>>

ClaimStep(c) ==
  \/ CheckBlacklist(c) \/ CheckClaim(c) \/ CheckPendingClaim(c)
  \/ RecheckPendingClaim(c) \/ StorePendingClaim(c) \/ QuestionFails(c)

ClaimNext ==
  \/ \E c \in ClaimCalls, s \in Spellings, o \in Owners : RequestClaim(c, s, o)
  \/ \E c \in ClaimCalls : ClaimStep(c)
  \/ \E p \in Pairs : ExpirePendingClaim(p)
  \/ \E p \in stored : ConfirmClaim(p)
  \/ LoseRequests

ClaimSpec == ClaimInit /\ [][ClaimNext]_claimVars

-----------------------------------------------------------------------------
(***************************************************************************)
(* Properties.                                                             *)
(***************************************************************************)
\* Every variable has its type; DepositTypeOK takes it in.
ClaimTypeOK ==
  /\ pending \subseteq Pairs /\ claims \subseteq Pairs /\ stored \subseteq Pairs
  /\ claimCall \in [ClaimCalls -> {NoRequest} \cup [at : Questions \cup Answers, spelling : Spellings,
                                                   pair : Pairs]]

(***************************************************************************)
(* A claim comes from a request that was let through: a pending claim was  *)
(* stored for its pair, and a wallet all of whose spellings are on the     *)
(* blacklist has none, whatever requests race, fail or are cut off.        *)
(***************************************************************************)
ClaimsWereAccepted ==
  \A p \in claims : /\ p \in stored
                    /\ \E s \in Spellings \ Blacklist : LowerCase[s] = p.wallet

(***************************************************************************)
(* A wallet has no more pending claims than requests can race: the checks  *)
(* turn everybody away while one is pending, so that only requests already *)
(* past the checks get in, and with one request at a time nobody does.     *)
(***************************************************************************)
PendingClaimsBounded ==
  \A w \in PawWallets : Cardinality(PendingOf(w)) <= Cardinality(ClaimCalls)
=============================================================================
