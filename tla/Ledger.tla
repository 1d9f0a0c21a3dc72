-------------------------------- MODULE Ledger --------------------------------
(***************************************************************************)
(* What the deposits storage promises its callers: every operation is      *)
(* posted in one indivisible step that moves the balance of its wallet by  *)
(* exactly the operation's amount and files its audit entry, and a swap to *)
(* PAW is posted at most once.  No operation is lost under another.        *)
(***************************************************************************)
EXTENDS LedgerOps

CONSTANT Opening   \* the balances at the start

VARIABLES
  funds,    \* the balance of every wallet
  posted    \* the audit entries

ledgerVars == <<funds, posted>>

LedgerInit == funds = Opening /\ posted = {}

Post(o) ==
  /\ Writes(o)
  /\ o.kind = "swapToPaw" => ~SwapPosted(o, posted)
  /\ funds' = [funds EXCEPT ![o.wallet] = @ + Delta(o)]
  /\ posted' = posted \cup {Entry(o)}

LedgerNext == \E o \in Ops : Post(o)

LedgerSpec == LedgerInit /\ [][LedgerNext]_ledgerVars
=============================================================================
