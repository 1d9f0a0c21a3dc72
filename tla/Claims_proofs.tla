----------------------------- MODULE Claims_proofs -----------------------------
(***************************************************************************)
(* Proofs about Claims, for every number of wallets, owners and requests.  *)
(***************************************************************************)
EXTENDS Claims, FiniteSetTheorems, TLAPS

AskedBeyond(c, w) == claimCall[c].at = "store" /\ claimCall[c].pair.wallet = w

(***************************************************************************)
(* Accepted: the pending claims and the claims were stored, whatever was   *)
(* stored has a spelling that is not on the blacklist, and a request past  *)
(* the first question asks with one.                                       *)
(***************************************************************************)
Accepted ==
  /\ pending \cup claims \subseteq stored
  /\ \A p \in stored : \E s \in Spellings \ Blacklist : LowerCase[s] = p.wallet
  /\ \A c \in ClaimCalls :
        claimCall[c].at \in Questions \ {"blacklist"}
          => claimCall[c].spelling \notin Blacklist
  /\ \A c \in ClaimCalls :
        claimCall[c].at \in Questions
          => claimCall[c].pair.wallet = LowerCase[claimCall[c].spelling]

AcceptedInv == ClaimTypeOK /\ Accepted

LEMMA ClaimTypeInit == ClaimInit => ClaimTypeOK
  BY DEF ClaimInit, ClaimTypeOK

LEMMA ClaimTypeStep == ClaimTypeOK /\ [ClaimNext]_claimVars => ClaimTypeOK'
<1> SUFFICES ASSUME ClaimTypeOK, [ClaimNext]_claimVars PROVE ClaimTypeOK'
  OBVIOUS
<1> USE DEF ClaimTypeOK, Questions, Answers, NoRequest, Asks, AnswerClaim
<1>1. ASSUME NEW c \in ClaimCalls, NEW s \in Spellings, NEW o \in Owners,
             RequestClaim(c, s, o)
      PROVE  ClaimTypeOK'
  BY <1>1, ClaimsAssumption DEF RequestClaim, PairOf, Pairs
<1>2. ASSUME NEW c \in ClaimCalls, ClaimStep(c) PROVE ClaimTypeOK'
  <2>1. CASE CheckBlacklist(c)
    BY <2>1 DEF CheckBlacklist
  <2>2. CASE CheckClaim(c)
    BY <2>2 DEF CheckClaim
  <2>3. CASE CheckPendingClaim(c)
    BY <2>3 DEF CheckPendingClaim
  <2>4. CASE RecheckPendingClaim(c)
    BY <2>4 DEF RecheckPendingClaim
  <2>5. CASE StorePendingClaim(c)
    BY <2>5 DEF StorePendingClaim
  <2>6. CASE QuestionFails(c)
    BY <2>6 DEF QuestionFails
  <2> QED
    BY <1>2, <2>1, <2>2, <2>3, <2>4, <2>5, <2>6 DEF ClaimStep
<1>3. ASSUME NEW p \in Pairs, ExpirePendingClaim(p) PROVE ClaimTypeOK'
  BY <1>3 DEF ExpirePendingClaim
<1>4. ASSUME NEW p \in stored, ConfirmClaim(p) PROVE ClaimTypeOK'
  BY <1>4 DEF ConfirmClaim
<1>5. CASE LoseRequests
  BY <1>5 DEF LoseRequests
<1>6. CASE UNCHANGED claimVars
  BY <1>6 DEF claimVars
<1> QED
  BY <1>1, <1>2, <1>3, <1>4, <1>5, <1>6 DEF ClaimNext

LEMMA AcceptedStep == AcceptedInv /\ [ClaimNext]_claimVars => Accepted'
<1> SUFFICES ASSUME AcceptedInv, [ClaimNext]_claimVars PROVE Accepted'
  OBVIOUS
<1> USE DEF AcceptedInv, Accepted, ClaimTypeOK, Questions, Answers, NoRequest, Asks,
            AnswerClaim
<1>1. ASSUME NEW c \in ClaimCalls, NEW s \in Spellings, NEW o \in Owners,
             RequestClaim(c, s, o)
      PROVE  Accepted'
  BY <1>1, ClaimsAssumption DEF RequestClaim, PairOf, Pairs
<1>2. ASSUME NEW c \in ClaimCalls, ClaimStep(c) PROVE Accepted'
  <2>1. CASE CheckBlacklist(c)
    BY <2>1 DEF CheckBlacklist
  <2>2. CASE CheckClaim(c)
    BY <2>2 DEF CheckClaim
  <2>3. CASE CheckPendingClaim(c)
    BY <2>3 DEF CheckPendingClaim
  <2>4. CASE RecheckPendingClaim(c)
    BY <2>4 DEF RecheckPendingClaim
  <2>5. CASE StorePendingClaim(c)
    BY <2>5 DEF StorePendingClaim
  <2>6. CASE QuestionFails(c)
    BY <2>6 DEF QuestionFails
  <2> QED
    BY <1>2, <2>1, <2>2, <2>3, <2>4, <2>5, <2>6 DEF ClaimStep
<1>3. ASSUME NEW p \in Pairs, ExpirePendingClaim(p) PROVE Accepted'
  BY <1>3 DEF ExpirePendingClaim
<1>4. ASSUME NEW p \in stored, ConfirmClaim(p) PROVE Accepted'
  BY <1>4 DEF ConfirmClaim
<1>5. CASE LoseRequests
  BY <1>5 DEF LoseRequests
<1>6. CASE UNCHANGED claimVars
  BY <1>6 DEF claimVars
<1> QED
  BY <1>1, <1>2, <1>3, <1>4, <1>5, <1>6 DEF ClaimNext

LEMMA AcceptedInvariance == ClaimSpec => []AcceptedInv
<1>1. ClaimInit => AcceptedInv
  BY ClaimTypeInit DEF ClaimInit, NoRequest, AcceptedInv, Accepted, Questions
<1>2. AcceptedInv /\ [ClaimNext]_claimVars => AcceptedInv'
  BY ClaimTypeStep, AcceptedStep DEF AcceptedInv
<1> QED
  BY <1>1, <1>2, PTL DEF ClaimSpec

(***************************************************************************)
(* Every claim Service.claim and a deposit leave behind comes from a       *)
(* pending claim that was stored, for a wallet not all of whose spellings  *)
(* are on the blacklist, whatever requests race, fail or are cut off.      *)
(***************************************************************************)
THEOREM ClaimsAccepted == ClaimSpec => []ClaimsWereAccepted
<1>1. AcceptedInv => ClaimsWereAccepted
  BY DEF AcceptedInv, Accepted, ClaimsWereAccepted
<1> QED
  BY <1>1, AcceptedInvariance, PTL

-----------------------------------------------------------------------------
(***************************************************************************)
(* PendingClaimsBounded is not inductive: a request that is past its last  *)
(* question is going to be one more pending claim.  It passed when there   *)
(* was none, so that the pending claims and the requests about to store    *)
(* another never exceed the requests that can be in progress.              *)
(***************************************************************************)
Storing(w) == {c \in ClaimCalls : AskedBeyond(c, w)}

BoundedFor(w) == Cardinality(PendingOf(w)) + Cardinality(Storing(w)) <= Cardinality(ClaimCalls)

BoundInv == ClaimTypeOK /\ IsFiniteSet(pending) /\ \A w \in PawWallets : BoundedFor(w)

LEMMA FiniteParts ==
  ASSUME IsFiniteSet(pending)
  PROVE  /\ Cardinality(ClaimCalls) \in Nat
         /\ \A w \in PawWallets :
              /\ IsFiniteSet(PendingOf(w)) /\ Cardinality(PendingOf(w)) \in Nat
              /\ IsFiniteSet(Storing(w)) /\ Cardinality(Storing(w)) \in Nat
              /\ Cardinality(Storing(w)) <= Cardinality(ClaimCalls)
<1>1. ASSUME NEW w \in PawWallets
      PROVE  PendingOf(w) \in SUBSET pending /\ Storing(w) \in SUBSET ClaimCalls
  BY DEF PendingOf, Storing
<1>2. ASSUME NEW w \in PawWallets
      PROVE  /\ IsFiniteSet(PendingOf(w)) /\ IsFiniteSet(Storing(w))
             /\ Cardinality(Storing(w)) <= Cardinality(ClaimCalls)
  BY <1>1, ClaimsAssumption, FS_Subset
<1> QED
  BY <1>2, ClaimsAssumption, FS_CardinalityType

LEMMA OneMore ==
  ASSUME NEW S, IsFiniteSet(S), NEW x
  PROVE  Cardinality(S \cup {x}) \in Nat /\ Cardinality(S \cup {x}) <= Cardinality(S) + 1
<1>1. Cardinality(S \cup {x}) \in {Cardinality(S), Cardinality(S) + 1}
  BY FS_AddElement
<1>2. Cardinality(S) \in Nat
  BY FS_CardinalityType
<1> QED
  BY <1>1, <1>2

(***************************************************************************)
(* A step that adds no pending claim and lets nobody store keeps the bound.*)
(***************************************************************************)
LEMMA NoMorePending ==
  ASSUME IsFiniteSet(pending), pending' \subseteq pending, NEW w \in PawWallets, BoundedFor(w),
         Storing(w)' \subseteq Storing(w)
  PROVE  BoundedFor(w)'
<1>1. PendingOf(w)' \in SUBSET PendingOf(w)
  BY DEF PendingOf
<1>2. /\ Cardinality(PendingOf(w)') <= Cardinality(PendingOf(w))
      /\ Cardinality(Storing(w)') <= Cardinality(Storing(w))
      /\ IsFiniteSet(PendingOf(w)') /\ IsFiniteSet(Storing(w)')
  BY <1>1, FiniteParts, FS_Subset
<1>3. /\ Cardinality(PendingOf(w)') \in Nat /\ Cardinality(Storing(w)') \in Nat
      /\ Cardinality(PendingOf(w)) \in Nat /\ Cardinality(Storing(w)) \in Nat
      /\ Cardinality(ClaimCalls) \in Nat
  BY <1>2, FiniteParts, FS_CardinalityType
<1>4. Cardinality(PendingOf(w)') + Cardinality(Storing(w)') <= Cardinality(ClaimCalls)
  BY <1>2, <1>3 DEF BoundedFor
<1> QED
  BY <1>4 DEF BoundedFor

LEMMA BoundStep == BoundInv /\ [ClaimNext]_claimVars => BoundInv'
<1> SUFFICES ASSUME BoundInv, [ClaimNext]_claimVars PROVE BoundInv'
  OBVIOUS
<1>0. ClaimTypeOK'
  BY ClaimTypeStep DEF BoundInv
<1> USE DEF BoundInv, Asks, AnswerClaim
<1>1. ASSUME pending' \subseteq pending,
             \A w \in PawWallets : Storing(w)' \subseteq Storing(w)
      PROVE  BoundInv'
  BY <1>0, <1>1, NoMorePending, FS_Subset
<1>2. ASSUME NEW c \in ClaimCalls, ClaimStep(c) PROVE BoundInv'
  <2>1. CASE CheckBlacklist(c)
    BY <1>1, <2>1 DEF CheckBlacklist, Storing, AskedBeyond, ClaimTypeOK, Questions, Answers,
       NoRequest
  <2>2. CASE CheckClaim(c)
    BY <1>1, <2>2 DEF CheckClaim, Storing, AskedBeyond, ClaimTypeOK, Questions, Answers, NoRequest
  <2>3. CASE CheckPendingClaim(c)
    BY <1>1, <2>3 DEF CheckPendingClaim, Storing, AskedBeyond, ClaimTypeOK, Questions, Answers,
       NoRequest
  <2>4. CASE RecheckPendingClaim(c)
    <3>1. CASE HasPendingClaim(claimCall[c].pair.wallet)
      BY <1>1, <2>4, <3>1 DEF RecheckPendingClaim, Storing, AskedBeyond, ClaimTypeOK, Questions,
         Answers, NoRequest
    <3>2. CASE ~HasPendingClaim(claimCall[c].pair.wallet)
      <4>1. UNCHANGED pending /\ claimCall' = [claimCall EXCEPT ![c].at = "store"]
        BY <2>4, <3>2 DEF RecheckPendingClaim
      <4>2. ASSUME NEW w \in PawWallets PROVE BoundedFor(w)'
        <5>1. CASE w = claimCall[c].pair.wallet
          <6>1. PendingOf(w)' = {}
            BY <3>2, <4>1, <5>1 DEF HasPendingClaim, PendingOf
          <6>2. Cardinality(PendingOf(w)') = 0
            BY <6>1, FS_EmptySet
          <6>3. Storing(w)' \in SUBSET ClaimCalls
            BY DEF Storing
          <6>4. /\ Cardinality(Storing(w)') <= Cardinality(ClaimCalls)
                /\ Cardinality(Storing(w)') \in Nat /\ Cardinality(ClaimCalls) \in Nat
            BY <6>3, ClaimsAssumption, FS_Subset, FS_CardinalityType
          <6>5. Cardinality(PendingOf(w)') + Cardinality(Storing(w)') <= Cardinality(ClaimCalls)
            BY <6>2, <6>4
          <6> QED
            BY <6>5 DEF BoundedFor
        <5>2. CASE w # claimCall[c].pair.wallet
          <6>1. Storing(w)' \subseteq Storing(w)
            BY <4>1, <5>2 DEF Storing, AskedBeyond, ClaimTypeOK, NoRequest
          <6> QED
            BY <4>1, <6>1, NoMorePending
        <5> QED
          BY <5>1, <5>2
      <4> QED
        BY <1>0, <4>1, <4>2
    <3> QED
      BY <3>1, <3>2
  <2>5. CASE StorePendingClaim(c)
    <3> DEFINE p == claimCall[c].pair
    <3>0. /\ claimCall[c].at = "store" /\ p \in Pairs
          /\ claimCall' \in {[claimCall EXCEPT ![c].at = "Ok"], [claimCall EXCEPT ![c].at = "Error"]}
          /\ pending' = pending \cup {p} \/ pending' = pending
      BY <2>5 DEF StorePendingClaim, ClaimTypeOK, NoRequest
    <3>1. ASSUME NEW w \in PawWallets
          PROVE  Storing(w)' = IF w = p.wallet THEN Storing(w) \ {c} ELSE Storing(w)
      BY <3>0 DEF Storing, AskedBeyond, ClaimTypeOK, NoRequest
    <3>2. CASE pending' = pending
      <4>1. \A w \in PawWallets : Storing(w)' \subseteq Storing(w)
        BY <3>1
      <4> QED
        BY <1>1, <3>2, <4>1
    <3>3. CASE pending' = pending \cup {p}
      <4>1. ASSUME NEW w \in PawWallets PROVE BoundedFor(w)'
        <5>1. CASE w = p.wallet
          <6>1. PendingOf(w)' = PendingOf(w) \cup {p}
            BY <3>3, <5>1 DEF PendingOf
          <6>2. c \in Storing(w)
            BY <3>0, <5>1 DEF Storing, AskedBeyond
          <6>3. Storing(w)' = Storing(w) \ {c}
            BY <3>1, <5>1
          <6>4. /\ Cardinality(PendingOf(w)) \in Nat /\ Cardinality(Storing(w)) \in Nat
                /\ Cardinality(ClaimCalls) \in Nat
                /\ IsFiniteSet(PendingOf(w)) /\ IsFiniteSet(Storing(w))
            BY FiniteParts
          <6>5. Cardinality(PendingOf(w)') <= Cardinality(PendingOf(w)) + 1
                /\ Cardinality(PendingOf(w)') \in Nat
            BY <6>1, <6>4, OneMore
          <6>6. Cardinality(Storing(w)') = Cardinality(Storing(w)) - 1
            BY <6>2, <6>3, <6>4, FS_RemoveElement
          <6>7. Cardinality(PendingOf(w)') + Cardinality(Storing(w)') <= Cardinality(ClaimCalls)
            BY <6>4, <6>5, <6>6 DEF BoundedFor
          <6> QED
            BY <6>7 DEF BoundedFor
        <5>2. CASE w # p.wallet
          <6>1. PendingOf(w)' = PendingOf(w) /\ Storing(w)' = Storing(w)
            BY <3>1, <3>3, <5>2 DEF PendingOf
          <6>2. Cardinality(PendingOf(w)') + Cardinality(Storing(w)') <= Cardinality(ClaimCalls)
            BY <6>1 DEF BoundedFor
          <6> QED
            BY <6>2 DEF BoundedFor
        <5> QED
          BY <5>1, <5>2
      <4>2. IsFiniteSet(pending')
        BY <3>3, FS_AddElement
      <4> QED
        BY <1>0, <4>1, <4>2
    <3> QED
      BY <3>0, <3>2, <3>3
  <2>6. CASE QuestionFails(c)
    BY <1>1, <2>6 DEF QuestionFails, Storing, AskedBeyond, ClaimTypeOK, Questions, Answers, NoRequest
  <2> QED
    BY <1>2, <2>1, <2>2, <2>3, <2>4, <2>5, <2>6 DEF ClaimStep
<1>3. ASSUME NEW c \in ClaimCalls, NEW s \in Spellings, NEW o \in Owners,
             RequestClaim(c, s, o)
      PROVE  BoundInv'
  BY <1>1, <1>3, ClaimsAssumption DEF RequestClaim, PairOf, Pairs, Storing, AskedBeyond, ClaimTypeOK
<1>4. ASSUME NEW p \in Pairs, ExpirePendingClaim(p) PROVE BoundInv'
  BY <1>1, <1>4 DEF ExpirePendingClaim, Storing, AskedBeyond
<1>5. ASSUME NEW p \in stored, ConfirmClaim(p) PROVE BoundInv'
  BY <1>1, <1>5 DEF ConfirmClaim, Storing, AskedBeyond
<1>6. CASE LoseRequests
  BY <1>1, <1>6 DEF LoseRequests, Storing, AskedBeyond, NoRequest
<1>7. CASE UNCHANGED claimVars
  BY <1>1, <1>7 DEF claimVars, Storing, AskedBeyond
<1> QED
  BY <1>2, <1>3, <1>4, <1>5, <1>6, <1>7 DEF ClaimNext

(***************************************************************************)
(* A wallet has no more pending claims than requests that can race, though *)
(* Service.claim looks for them and stores one in separate steps.          *)
(***************************************************************************)
THEOREM PendingBounded == ClaimSpec => []PendingClaimsBounded
<1>1. ClaimInit => BoundInv
  <2> SUFFICES ASSUME ClaimInit PROVE BoundInv
    OBVIOUS
  <2>1. IsFiniteSet(pending)
    BY FS_EmptySet DEF ClaimInit
  <2>2. ASSUME NEW w \in PawWallets PROVE BoundedFor(w)
    <3>1. PendingOf(w) = {} /\ Storing(w) = {}
      BY DEF ClaimInit, PendingOf, Storing, AskedBeyond, NoRequest
    <3>2. Cardinality(ClaimCalls) \in Nat
      BY ClaimsAssumption, FS_CardinalityType
    <3> QED
      BY <3>1, <3>2, FS_EmptySet DEF BoundedFor
  <2> QED
    BY <2>1, <2>2, ClaimTypeInit DEF BoundInv
<1>2. BoundInv => PendingClaimsBounded
  <2> SUFFICES ASSUME BoundInv, NEW w \in PawWallets
               PROVE  Cardinality(PendingOf(w)) <= Cardinality(ClaimCalls)
    BY DEF PendingClaimsBounded
  <2>1. /\ Cardinality(PendingOf(w)) \in Nat /\ Cardinality(Storing(w)) \in Nat
        /\ Cardinality(ClaimCalls) \in Nat
    BY FiniteParts DEF BoundInv
  <2> QED
    BY <2>1 DEF BoundInv, BoundedFor
<1> QED
  BY <1>1, <1>2, BoundStep, PTL DEF ClaimSpec
=============================================================================
