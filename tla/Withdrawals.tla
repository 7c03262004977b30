---------------------------- MODULE Withdrawals ----------------------------
(***************************************************************************)
(* The money of one tenant: its wallet row, the ledger entries that are    *)
(* evidence for it, its withdrawals and its bank accounts, under concurrent *)
(* success callbacks, withdrawal requests, cancellations, decisions of the *)
(* platform and account operations.                                        *)
(*                                                                         *)
(* A call is split where its transaction waits for a row lock or has read  *)
(* what it later relies on.  A transaction's writes become visible when it *)
(* commits, with its last step.  A call that changes nothing (a refusal, a *)
(* retry answered with the stored row) takes no step.  Withdrawals are     *)
(* named by their idempotency key, which is unique within the tenant.      *)
(***************************************************************************)
EXTENDS Integers, FiniteSets

CONSTANTS
    Calls,     \* calls in flight at a time
    Payments,  \* payments of the tenant's students
    Net,       \* net amount of each payment
    Keys,      \* idempotency keys
    Amounts,   \* amounts requested
    Accounts,  \* bank accounts
    None

ASSUME ConstantsAssumption ==
    /\ Net \in Nat
    /\ Amounts \subseteq Nat \ {0}
    /\ None \notin Calls \cup Payments \cup Keys \cup Accounts

VARIABLES
    opened,      \* the tenant has a wallets row
    wallet,      \* its available_balance and pending_balance
    ledger,      \* the sum of its ledger_entries
    credited,    \* payments recorded as paid
    withdrawals, \* the withdrawals rows
    entries,     \* how many ledger entries of each type a withdrawal has
    accounts,    \* whether each bank_accounts row is absent, live or deleted
    primary,     \* the live account with is_primary: a unique index allows one
    call         \* what each call in flight has read and is about to write

moneyVars == <<opened, wallet, ledger, credited>>
accountVars == <<accounts, primary>>
vars == <<moneyVars, withdrawals, entries, accountVars, call>>

Balances == [available : Nat, held : Nat]

Empty == [available |-> 0, held |-> 0]

Decisions == {"cancelled", "rejected", "paid"}

NoWithdrawal == [status |-> "none", amount |-> 0, account |-> None]

EntryTypes == {"hold", "release", "paid"}

WalletSteps == {"credit", "request", "settle"}

Steps == WalletSteps \cup {"idle", "open", "create", "insert", "promote", "edit", "delete"}

\* seen is the wallet row as the call read it, was the primary account.
Idle == [step |-> "idle", payment |-> None, key |-> None, amount |-> 0,
         decision |-> "none", account |-> None, was |-> None, seen |-> Empty]

TypeOK ==
    /\ opened \in BOOLEAN
    /\ wallet \in Balances
    /\ ledger \in Nat
    /\ credited \subseteq Payments
    /\ withdrawals \in [Keys -> [status : {"none", "requested"} \cup Decisions,
                                 amount : Nat, account : Accounts \cup {None}]]
    /\ entries \in [Keys -> [EntryTypes -> Nat]]
    /\ accounts \in [Accounts -> {"absent", "live", "deleted"}]
    /\ primary \in Accounts \cup {None}
    /\ call \in [Calls -> [step : Steps, payment : Payments \cup {None},
                           key : Keys \cup {None}, amount : Nat,
                           decision : Decisions \cup {"none"},
                           account : Accounts \cup {None}, was : Accounts \cup {None},
                           seen : Balances]]

Init ==
    /\ opened = FALSE
    /\ wallet = Empty
    /\ ledger = 0
    /\ credited = {}
    /\ withdrawals = [k \in Keys |-> NoWithdrawal]
    /\ entries = [k \in Keys |-> [t \in EntryTypes |-> 0]]
    /\ accounts = [a \in Accounts |-> "absent"]
    /\ primary = None
    /\ call = [c \in Calls |-> Idle]

-----------------------------------------------------------------------------
(* Locks *)

\* Mutant: the wallet is read without FOR UPDATE.
WalletUnlocked == TRUE

\* Nobody holds the lock on the wallets row.
WalletFree == \A d \in Calls : call[d].step \notin WalletSteps

\* Mutant: accounts are read without FOR UPDATE.
AccountUnlocked(c, a) == TRUE

\* No other call holds the lock on the row of account a.
AccountFree(c, a) ==
    \A d \in Calls \ {c} :
        ~ (call[d].account = a /\ call[d].step \in {"promote", "edit", "delete"})

\* Mutant: the primary flag of every account is cleared.
EveryLastLock(c) ==
    CASE call[c].step = "request" -> {call[c].account}
      [] call[c].step \in {"insert", "promote"} -> {a \in Accounts : accounts[a] = "live"}
      [] OTHER -> {}

\* The account rows the last step of a call waits for: the destination of a
\* request, and the account that loses the primary flag.
LastLocks(c) ==
    CASE call[c].step = "request" -> {call[c].account}
      [] call[c].step \in {"insert", "promote"} -> {call[c].was} \ {None}
      [] OTHER -> {}

Begin(c, r) == call[c] = Idle /\ call' = [call EXCEPT ![c] = r]

\* Step s of call c ends the call, once it has its last locks.
Ends(c, s) ==
    /\ call[c].step = s
    /\ \A a \in LastLocks(c) : AccountFree(c, a)
    /\ call' = [call EXCEPT ![c] = Idle]

-----------------------------------------------------------------------------
(* Payments *)

\* The callback holds the lock on the transactions row, so a payment is handled
\* by one call at a time.  A tenant without a wallet has no row to lock.
CreditBegins(c, p) ==
    /\ p \notin credited
    /\ \A d \in Calls : call[d].payment # p
    /\ opened => WalletFree
    /\ Begin(c, [Idle EXCEPT !.step = IF opened THEN "credit" ELSE "open",
                             !.payment = p, !.seen = wallet])
    /\ UNCHANGED <<moneyVars, withdrawals, entries, accountVars>>

Credits(c) ==
    /\ Ends(c, "credit")
    /\ wallet' = [call[c].seen EXCEPT !.available = @ + Net]
    /\ ledger' = ledger + Net
    /\ credited' = credited \cup {call[c].payment}
    /\ UNCHANGED <<opened, withdrawals, entries, accountVars>>

\* A second first wallet is refused by the unique tenant_id, and the callback
\* fails as a whole.
OpensWallet(c) ==
    /\ Ends(c, "open")
    /\ IF opened
       THEN UNCHANGED moneyVars
       ELSE /\ opened' = TRUE
            /\ wallet' = [available |-> Net, held |-> 0]
            /\ ledger' = ledger + Net
            /\ credited' = credited \cup {call[c].payment}
    /\ UNCHANGED <<withdrawals, entries, accountVars>>

-----------------------------------------------------------------------------
(* Withdrawals *)

\* Mutant: only the request with the same key is looked for.
NoOpenWithKey(k) == withdrawals[k].status = "none"

\* The key is unused and CountOpenByTenant is 0.
NoOpen(k) ==
    /\ withdrawals[k].status = "none"
    /\ \A j \in Keys : withdrawals[j].status # "requested"

\* RequestWithdrawal up to the lock on the destination account.
RequestBegins(c, k, n, a) ==
    /\ opened
    /\ WalletFree
    /\ NoOpen(k)
    /\ n <= wallet.available
    /\ accounts[a] = "live"
    /\ Begin(c, [Idle EXCEPT !.step = "request", !.key = k, !.amount = n,
                             !.account = a, !.seen = wallet])
    /\ UNCHANGED <<moneyVars, withdrawals, entries, accountVars>>

\* The destination is the tenant's live primary account.
Destination(a) == accounts[a] = "live" /\ primary = a

\* A ledger entry of type t is added to the entries e of a withdrawal.
Written(e, t) == [e EXCEPT ![t] = @ + 1]

HoldsAmount(c) ==
    LET k == call[c].key
        n == call[c].amount
    IN  /\ wallet' = [available |-> call[c].seen.available - n,
                      held |-> call[c].seen.held + n]
        /\ ledger' = ledger - n
        /\ withdrawals' = [withdrawals EXCEPT ![k] =
               [status |-> "requested", amount |-> n, account |-> call[c].account]]
        /\ entries' = [entries EXCEPT ![k] = Written(@, "hold")]

RequestEnds(c) ==
    /\ Ends(c, "request")
    /\ IF Destination(call[c].account)
       THEN HoldsAmount(c)
       ELSE UNCHANGED <<wallet, ledger, withdrawals, entries>>
    /\ UNCHANGED <<opened, credited, accountVars>>

\* CancelWithdrawal and Decide lock the wallet first.
SettleBegins(c, k, d) ==
    /\ opened
    /\ WalletFree
    /\ withdrawals[k].status # "none"
    /\ Begin(c, [Idle EXCEPT !.step = "settle", !.key = k, !.decision = d, !.seen = wallet])
    /\ UNCHANGED <<moneyVars, withdrawals, entries, accountVars>>

\* Mutant: the claim does not look at the status.
ClaimsAny(k) == TRUE

\* ClaimCancelled and ClaimDecision move a requested row only, and the amount
\* must still be held.
Claims(k) ==
    /\ withdrawals[k].status = "requested"
    /\ withdrawals[k].amount <= wallet.held

\* A paid withdrawal releases its hold and leaves the wallet; the others return.
PaysOut(c) ==
    LET k == call[c].key
        n == withdrawals[k].amount
        paid == call[c].decision = "paid"
    IN  /\ wallet' = [available |-> call[c].seen.available + (IF paid THEN 0 ELSE n),
                      held |-> call[c].seen.held - n]
        /\ ledger' = ledger + n - (IF paid THEN n ELSE 0)
        /\ withdrawals' = [withdrawals EXCEPT ![k].status = call[c].decision]
        /\ entries' = [entries EXCEPT ![k] =
               IF paid THEN Written(Written(@, "release"), "paid") ELSE Written(@, "release")]

SettleEnds(c) ==
    /\ Ends(c, "settle")
    /\ IF Claims(call[c].key)
       THEN PaysOut(c)
       ELSE UNCHANGED <<wallet, ledger, withdrawals, entries>>
    /\ UNCHANGED <<opened, credited, accountVars>>

-----------------------------------------------------------------------------
(* Bank accounts *)

\* Create reads whether there is a primary outside its transaction.
CreateBegins(c, a, wants) ==
    /\ accounts[a] = "absent"
    /\ \A d \in Calls : call[d].account # a
    /\ Begin(c, [Idle EXCEPT !.step = "create", !.account = a,
                             !.was = IF wants \/ primary = None THEN a ELSE None])
    /\ UNCHANGED <<moneyVars, withdrawals, entries, accountVars>>

\* Without the flag the row is inserted as it is.
CreatePlain(c) ==
    /\ call[c].was = None
    /\ Ends(c, "create")
    /\ accounts' = [accounts EXCEPT ![call[c].account] = "live"]
    /\ UNCHANGED <<moneyVars, withdrawals, entries, primary>>

\* ClearPrimary finds the account to clear, and may have to wait for its row.
CreateClears(c) ==
    /\ call[c].step = "create"
    /\ call[c].was # None
    /\ call' = [call EXCEPT ![c].step = "insert", ![c].was = primary]
    /\ UNCHANGED <<moneyVars, withdrawals, entries, accountVars>>

\* SetPrimary locks the account and finds the one to clear.
PromoteBegins(c, a) ==
    /\ accounts[a] = "live"
    /\ AccountFree(c, a)
    /\ Begin(c, [Idle EXCEPT !.step = "promote", !.account = a, !.was = primary])
    /\ UNCHANGED <<moneyVars, withdrawals, entries, accountVars>>

\* The unique index refuses a second primary, one promoted since the statement
\* that clears the flag looked, and the transaction fails as a whole.
Places(c, s) ==
    /\ Ends(c, s)
    /\ IF primary \in {None, call[c].was, call[c].account}
       THEN /\ primary' = call[c].account
            /\ accounts' = [accounts EXCEPT ![call[c].account] = "live"]
       ELSE UNCHANGED accountVars
    /\ UNCHANGED <<moneyVars, withdrawals, entries>>

EditBegins(c, a) ==
    /\ accounts[a] = "live"
    /\ AccountFree(c, a)
    /\ Begin(c, [Idle EXCEPT !.step = "edit", !.account = a, !.was = primary])
    /\ UNCHANGED <<moneyVars, withdrawals, entries, accountVars>>

\* Save writes the whole row, with is_primary as it was read.
Edits(c) ==
    LET a == call[c].account
    IN  /\ Ends(c, "edit")
        /\ primary' = CASE call[c].was = a /\ primary = None -> a
                        [] call[c].was # a /\ primary = a    -> None
                        [] OTHER                             -> primary
        /\ UNCHANGED <<moneyVars, withdrawals, entries, accounts>>

\* Mutant: only the primary account is in use.
InUseIfPrimary(a) == primary = a

\* The destination of a withdrawal that still holds balance.
InUse(a) ==
    \E k \in Keys : withdrawals[k].status = "requested" /\ withdrawals[k].account = a

DeleteBegins(c, a) ==
    /\ accounts[a] = "live"
    /\ AccountFree(c, a)
    /\ ~InUse(a)
    /\ Begin(c, [Idle EXCEPT !.step = "delete", !.account = a])
    /\ UNCHANGED <<moneyVars, withdrawals, entries, accountVars>>

Deletes(c) ==
    /\ Ends(c, "delete")
    /\ accounts' = [accounts EXCEPT ![call[c].account] = "deleted"]
    /\ primary' = IF primary = call[c].account THEN None ELSE primary
    /\ UNCHANGED <<moneyVars, withdrawals, entries>>

-----------------------------------------------------------------------------

\* The process dies or a statement fails: the transaction is rolled back.
Fails(c) ==
    /\ call[c] # Idle
    /\ call' = [call EXCEPT ![c] = Idle]
    /\ UNCHANGED <<moneyVars, withdrawals, entries, accountVars>>

Starts(c) ==
    \/ \E p \in Payments : CreditBegins(c, p)
    \/ \E k \in Keys, n \in Amounts, a \in Accounts : RequestBegins(c, k, n, a)
    \/ \E k \in Keys, d \in Decisions : SettleBegins(c, k, d)
    \/ \E a \in Accounts, wants \in BOOLEAN : CreateBegins(c, a, wants)
    \/ \E a \in Accounts : PromoteBegins(c, a) \/ EditBegins(c, a) \/ DeleteBegins(c, a)

Continues(c) ==
    \/ Credits(c) \/ OpensWallet(c) \/ RequestEnds(c) \/ SettleEnds(c)
    \/ CreatePlain(c) \/ CreateClears(c) \/ Places(c, "insert") \/ Places(c, "promote")
    \/ Edits(c) \/ Deletes(c)

Next == \E c \in Calls : Starts(c) \/ Continues(c) \/ Fails(c)

Spec == Init /\ [][Next]_vars

\* PostgreSQL grants row locks in the order they were asked for.
FairSpec == Spec /\ \A c \in Calls : SF_vars(Continues(c))

-----------------------------------------------------------------------------
(* Properties *)

\* At most one withdrawal is open at a time, also when two requests arrive together.
AtMostOneOpen ==
    \A j, k \in Keys :
        withdrawals[j].status = "requested" /\ withdrawals[k].status = "requested" => j = k

\* The available balance is the signed sum of the ledger, whatever callbacks,
\* requests and decisions update the wallet at the same time.
AvailableMatchesLedger == wallet.available = ledger

\* The held balance is the amount of the open withdrawal, and 0 without one.
HeldMatchesOpen ==
    /\ \A k \in Keys : withdrawals[k].status = "requested" => wallet.held = withdrawals[k].amount
    /\ (\A k \in Keys : withdrawals[k].status # "requested") => wallet.held = 0

\* The two halves of WalletLedgerInvariant.
WalletLedgerInvariant == AvailableMatchesLedger /\ HeldMatchesOpen

\* The ledger entries a withdrawal of status s has.
Evidence(s) ==
    [t \in EntryTypes |->
        CASE t = "hold"    -> IF s = "none" THEN 0 ELSE 1
          [] t = "release" -> IF s \in Decisions THEN 1 ELSE 0
          [] t = "paid"    -> IF s = "paid" THEN 1 ELSE 0]

\* A withdrawal is held, released and paid out at most once, and its ledger
\* entries tell how it ended, also when a cancellation races a decision.
EvidenceMatchesStatus == \A k \in Keys : entries[k] = Evidence(withdrawals[k].status)

\* The account an open withdrawal pays out to is not deleted under it.
OpenDestinationKept ==
    \A k \in Keys : withdrawals[k].status = "requested" => accounts[withdrawals[k].account] = "live"

\* A withdrawal pays out to the account that is primary when it is stored, also
\* when the primary changes while the request waits for the account.
PaysOutToPrimary ==
    [][\A k \in Keys : withdrawals[k].status = "none" /\ withdrawals'[k].status # "none"
           => withdrawals'[k].account = primary]_vars

\* Editing an account leaves the choice of the primary alone.
EditKeepsPrimary ==
    [][\A c \in Calls : call[c].step = "edit" /\ call'[c] = Idle => primary' = primary]_vars

\* The wallet never has more than the payments recorded brought, whatever is
\* held, given back and paid out, and whoever does it at the same time.
WalletMakesNoMoney == wallet.available + wallet.held <= Net * Cardinality(credited)

\* No call waits for locks for ever.
CallsEnd == \A c \in Calls : call[c] # Idle ~> call[c] = Idle

Balance == INSTANCE TenantBalance
    WITH received  <- credited,
         available <- wallet.available,
         held      <- wallet.held,
         claims    <- [k \in Keys |-> [status |-> withdrawals[k].status,
                                       amount |-> withdrawals[k].amount]]

\* Callbacks, requests and decisions that run together have the effect of
\* operations on the balance that happen one at a time.
ImplementsBalance == Balance!Spec

=============================================================================
