------------------------- MODULE WithdrawalsProofs -------------------------
(***************************************************************************)
(* Theorems about Withdrawals, for any number of calls, payments, keys and *)
(* accounts, and any amounts.  The invariant has two halves: what the lock *)
(* on the wallet protects, and what the locks on the accounts do.  The last *)
(* part shows that the calls implement TenantBalance.                      *)
(***************************************************************************)
EXTENDS Withdrawals, FiniteSetTheorems, TLAPS

AccountSteps == {"promote", "edit", "delete"}

InsertSteps == {"create", "insert"}

CreditSteps == {"credit", "open"}

CallRecords == [step : Steps, payment : Payments \cup {None},
                key : Keys \cup {None}, amount : Nat,
                decision : Decisions \cup {"none"},
                account : Accounts \cup {None}, was : Accounts \cup {None},
                seen : Balances]

\* What a call is about to use is there.
Arguments ==
    \A c \in Calls :
        /\ call[c].step \in CreditSteps => call[c].payment \in Payments
        /\ call[c].step \in {"request", "settle"} => call[c].key \in Keys
        /\ call[c].step = "request" => call[c].amount \in Amounts
        /\ call[c].step = "settle" => call[c].decision \in Decisions
        /\ call[c].step \in {"request"} \cup AccountSteps \cup InsertSteps
               => call[c].account \in Accounts

\* One call at a time holds the lock on the wallet, and it has read the row.
WalletLock ==
    /\ \A c, d \in Calls :
           call[c].step \in WalletSteps /\ call[d].step \in WalletSteps => c = d
    /\ \A c \in Calls : call[c].step \in WalletSteps => opened /\ call[c].seen = wallet

\* What a request has checked still holds when it is stored.
CheckedRequest ==
    \A c \in Calls : call[c].step = "request" =>
        NoOpen(call[c].key) /\ call[c].amount <= wallet.available

\* Without a wallets row there is no money.
NoMoneyBefore ==
    ~opened => wallet = Empty /\ ledger = 0 /\ \A k \in Keys : withdrawals[k].status = "none"

\* A payment is handled by one call at a time, and is not recorded yet.
PaymentLock ==
    \A c \in Calls : call[c].step \in CreditSteps =>
        /\ call[c].payment \notin credited
        /\ \A d \in Calls : call[d].step \in CreditSteps /\ call[d].payment = call[c].payment
               => c = d

MoneyInv ==
    /\ WalletLock
    /\ CheckedRequest
    /\ NoMoneyBefore
    /\ AtMostOneOpen
    /\ WalletLedgerInvariant
    /\ EvidenceMatchesStatus

\* One call at a time holds the lock on an account, which is live.
AccountLock ==
    /\ \A c, d \in Calls :
           call[c].step \in AccountSteps /\ call[d].step \in AccountSteps
               /\ call[c].account = call[d].account => c = d
    /\ \A c \in Calls : call[c].step \in AccountSteps => accounts[call[c].account] = "live"

\* An account is inserted by one call, and not there before.
InsertedOnce ==
    /\ \A c, d \in Calls :
           call[c].step \in InsertSteps /\ call[d].step \in InsertSteps
               /\ call[c].account = call[d].account => c = d
    /\ \A c \in Calls : call[c].step \in InsertSteps => accounts[call[c].account] = "absent"

\* An edit writes back the flag the account still has.
FlagIsCurrent ==
    \A c \in Calls : call[c].step = "edit" =>
        (call[c].was = call[c].account <=> primary = call[c].account)

\* An account about to be deleted is not a destination.
DeletedUnused ==
    \A c \in Calls : call[c].step = "delete" => ~InUse(call[c].account)

\* An open withdrawal has a destination.
DestinationKnown ==
    \A k \in Keys : withdrawals[k].status = "requested" => withdrawals[k].account \in Accounts

AccountInv ==
    /\ AccountLock
    /\ InsertedOnce
    /\ FlagIsCurrent
    /\ DeletedUnused
    /\ DestinationKnown
    /\ OpenDestinationKept

IInv == TypeOK /\ Arguments /\ PaymentLock /\ MoneyInv /\ AccountInv

-----------------------------------------------------------------------------
(* Calls *)

\* What a step that begins, moves on or ends a call leaves alone.
LEMMA Begins ==
    ASSUME TypeOK, NEW c \in Calls, NEW r, Begin(c, r)
    PROVE  /\ call[c].step = "idle" /\ call[c].account = None /\ call'[c] = r
           /\ \A d \in Calls \ {c} : call'[d] = call[d]
  BY DEF TypeOK, Begin, Idle

\* The call that ends is idle, the others are as before.
LEMMA Ended ==
    ASSUME TypeOK, NEW c \in Calls, call' = [call EXCEPT ![c] = Idle]
    PROVE  /\ call'[c].step = "idle"
           /\ \A d \in Calls \ {c} : call'[d] = call[d]
           /\ \A d \in Calls : call'[d].step # "idle" => call'[d] = call[d]
  BY DEF TypeOK, Idle

\* What an operation on account a begins with.
LEMMA BeginsAccount ==
    ASSUME TypeOK, NEW c \in Calls, NEW a \in Accounts
    PROVE  /\ \A wants \in BOOLEAN : CreateBegins(c, a, wants) =>
                 call'[c].step = "create" /\ call'[c].account = a
           /\ PromoteBegins(c, a) => call'[c].step = "promote" /\ call'[c].account = a
           /\ EditBegins(c, a) =>
                 call'[c].step = "edit" /\ call'[c].account = a /\ call'[c].was = primary
           /\ DeleteBegins(c, a) => call'[c].step = "delete" /\ call'[c].account = a
           /\ \/ \E wants \in BOOLEAN : CreateBegins(c, a, wants)
              \/ PromoteBegins(c, a) \/ EditBegins(c, a) \/ DeleteBegins(c, a)
              => /\ call[c].step = "idle"
                 /\ \A d \in Calls \ {c} : call'[d] = call[d]
<1>1. ASSUME NEW wants \in BOOLEAN, CreateBegins(c, a, wants)
      PROVE  /\ call'[c].step = "create" /\ call'[c].account = a /\ call[c].step = "idle"
             /\ \A d \in Calls \ {c} : call'[d] = call[d]
  <2> DEFINE r == [Idle EXCEPT !.step = "create", !.account = a,
                               !.was = IF wants \/ primary = None THEN a ELSE None]
  <2>1. r.step = "create" /\ r.account = a
    BY DEF Idle
  <2>2. QED
    BY <1>1, <2>1, Begins DEF CreateBegins
<1>2. ASSUME PromoteBegins(c, a)
      PROVE  /\ call'[c].step = "promote" /\ call'[c].account = a /\ call[c].step = "idle"
             /\ \A d \in Calls \ {c} : call'[d] = call[d]
  <2> DEFINE r == [Idle EXCEPT !.step = "promote", !.account = a, !.was = primary]
  <2>1. r.step = "promote" /\ r.account = a
    BY DEF Idle
  <2>2. QED
    BY <1>2, <2>1, Begins DEF PromoteBegins
<1>3. ASSUME EditBegins(c, a)
      PROVE  /\ call'[c].step = "edit" /\ call'[c].account = a /\ call'[c].was = primary
             /\ call[c].step = "idle" /\ \A d \in Calls \ {c} : call'[d] = call[d]
  <2> DEFINE r == [Idle EXCEPT !.step = "edit", !.account = a, !.was = primary]
  <2>1. r.step = "edit" /\ r.account = a /\ r.was = primary
    BY DEF Idle
  <2>2. QED
    BY <1>3, <2>1, Begins DEF EditBegins
<1>4. ASSUME DeleteBegins(c, a)
      PROVE  /\ call'[c].step = "delete" /\ call'[c].account = a /\ call[c].step = "idle"
             /\ \A d \in Calls \ {c} : call'[d] = call[d]
  <2> DEFINE r == [Idle EXCEPT !.step = "delete", !.account = a]
  <2>1. r.step = "delete" /\ r.account = a
    BY DEF Idle
  <2>2. QED
    BY <1>4, <2>1, Begins DEF DeleteBegins
<1>5. QED
  BY <1>1, <1>2, <1>3, <1>4

\* A record of a call that is well formed and has its arguments.
HasArguments(r) ==
    /\ r.step \in CreditSteps => r.payment \in Payments
    /\ r.step \in {"request", "settle"} => r.key \in Keys
    /\ r.step = "request" => r.amount \in Amounts
    /\ r.step = "settle" => r.decision \in Decisions
    /\ r.step \in {"request"} \cup AccountSteps \cup InsertSteps => r.account \in Accounts

\* A well-formed record is all a call needs to begin or move on.
LEMMA BeginTyped ==
    ASSUME TypeOK, Arguments, NEW c \in Calls, NEW r \in CallRecords, HasArguments(r),
           call' = [call EXCEPT ![c] = r],
           UNCHANGED <<moneyVars, withdrawals, entries, accountVars>>
    PROVE  TypeOK' /\ Arguments'
<1>1. call \in [Calls -> CallRecords]
  BY DEF TypeOK, CallRecords
<1>2. call' \in [Calls -> CallRecords] /\ \A d \in Calls : call'[d] = IF d = c THEN r ELSE call[d]
  BY <1>1
<1>3. TypeOK'
  BY <1>2 DEF TypeOK, CallRecords, moneyVars, accountVars
<1>4. Arguments'
  BY <1>2 DEF Arguments, HasArguments
<1>5. QED
  BY <1>3, <1>4

\* A call that ends leaves the other calls their arguments.
LEMMA EndTyped ==
    ASSUME TypeOK, Arguments, NEW c \in Calls, call' = [call EXCEPT ![c] = Idle]
    PROVE  call' \in [Calls -> CallRecords] /\ Arguments'
<1>1. call \in [Calls -> CallRecords] /\ Idle \in CallRecords /\ Idle.step = "idle"
  BY DEF TypeOK, CallRecords, Idle, Steps, Balances, Empty
<1>2. call' \in [Calls -> CallRecords] /\ \A d \in Calls : call'[d] = IF d = c THEN Idle ELSE call[d]
  BY <1>1
<1>3. Arguments'
  BY <1>1, <1>2 DEF Arguments, AccountSteps, InsertSteps, CreditSteps
<1>4. QED
  BY <1>2, <1>3

\* Every call begins with a well-formed record.
LEMMA StartsTyped ==
    ASSUME TypeOK, Arguments, NEW c \in Calls, Starts(c)
    PROVE  TypeOK' /\ Arguments'
<1> USE DEF HasArguments, CallRecords, Idle, Begin, AccountSteps, InsertSteps, CreditSteps, Steps,
            WalletSteps,
            Balances, Empty
<1>0. wallet \in Balances /\ primary \in Accounts \cup {None}
  BY DEF TypeOK
<1>1. ASSUME NEW p \in Payments, CreditBegins(c, p) PROVE TypeOK' /\ Arguments'
  <2> DEFINE r == [Idle EXCEPT !.step = IF opened THEN "credit" ELSE "open",
                               !.payment = p, !.seen = wallet]
  <2>1. r \in CallRecords /\ HasArguments(r)
    BY <1>0
  <2>2. QED
    BY <1>1, <2>1, BeginTyped DEF CreditBegins
<1>2. ASSUME NEW k \in Keys, NEW n \in Amounts, NEW a \in Accounts, RequestBegins(c, k, n, a)
      PROVE  TypeOK' /\ Arguments'
  <2> DEFINE r == [Idle EXCEPT !.step = "request", !.key = k, !.amount = n,
                               !.account = a, !.seen = wallet]
  <2>1. r \in CallRecords /\ HasArguments(r)
    BY <1>0, ConstantsAssumption
  <2>2. QED
    BY <1>2, <2>1, BeginTyped DEF RequestBegins
<1>3. ASSUME NEW k \in Keys, NEW d \in Decisions, SettleBegins(c, k, d)
      PROVE  TypeOK' /\ Arguments'
  <2> DEFINE r == [Idle EXCEPT !.step = "settle", !.key = k, !.decision = d, !.seen = wallet]
  <2>1. r \in CallRecords /\ HasArguments(r)
    BY <1>0
  <2>2. QED
    BY <1>3, <2>1, BeginTyped DEF SettleBegins
<1>4. ASSUME NEW a \in Accounts, NEW wants \in BOOLEAN, CreateBegins(c, a, wants)
      PROVE  TypeOK' /\ Arguments'
  <2> DEFINE r == [Idle EXCEPT !.step = "create", !.account = a,
                               !.was = IF wants \/ primary = None THEN a ELSE None]
  <2>1. r \in CallRecords /\ HasArguments(r)
    BY <1>0
  <2>2. QED
    BY <1>4, <2>1, BeginTyped DEF CreateBegins
<1>5. ASSUME NEW a \in Accounts, PromoteBegins(c, a) PROVE TypeOK' /\ Arguments'
  <2> DEFINE r == [Idle EXCEPT !.step = "promote", !.account = a, !.was = primary]
  <2>1. r \in CallRecords /\ HasArguments(r)
    BY <1>0
  <2>2. QED
    BY <1>5, <2>1, BeginTyped DEF PromoteBegins
<1>6. ASSUME NEW a \in Accounts, EditBegins(c, a) PROVE TypeOK' /\ Arguments'
  <2> DEFINE r == [Idle EXCEPT !.step = "edit", !.account = a, !.was = primary]
  <2>1. r \in CallRecords /\ HasArguments(r)
    BY <1>0
  <2>2. QED
    BY <1>6, <2>1, BeginTyped DEF EditBegins
<1>7. ASSUME NEW a \in Accounts, DeleteBegins(c, a)
      PROVE  TypeOK' /\ Arguments'
  <2> DEFINE r == [Idle EXCEPT !.step = "delete", !.account = a]
  <2>1. r \in CallRecords /\ HasArguments(r)
    BY <1>0
  <2>2. QED
    BY <1>7, <2>1, BeginTyped DEF DeleteBegins
<1>8. QED
  BY <1>1, <1>2, <1>3, <1>4, <1>5, <1>6, <1>7 DEF Starts

\* Writing an entry keeps the entries of a withdrawal numbers.
LEMMA WrittenTyped ==
    ASSUME NEW e \in [EntryTypes -> Nat], NEW t \in EntryTypes
    PROVE  Written(e, t) \in [EntryTypes -> Nat]
  BY DEF Written

\* The evidence of a status, entry by entry.
LEMMA EvidenceTyped ==
    ASSUME NEW s
    PROVE  /\ Evidence(s) \in [EntryTypes -> Nat]
           /\ Evidence(s)["hold"] = (IF s = "none" THEN 0 ELSE 1)
           /\ Evidence(s)["release"] = (IF s \in Decisions THEN 1 ELSE 0)
           /\ Evidence(s)["paid"] = (IF s = "paid" THEN 1 ELSE 0)
  BY DEF Evidence, EntryTypes

\* Entries that agree with the evidence of a status are that evidence.
LEMMA EvidenceIs ==
    ASSUME NEW s, NEW e \in [EntryTypes -> Nat],
           e["hold"] = (IF s = "none" THEN 0 ELSE 1),
           e["release"] = (IF s \in Decisions THEN 1 ELSE 0),
           e["paid"] = (IF s = "paid" THEN 1 ELSE 0)
    PROVE  e = Evidence(s)
<1>1. \A t \in EntryTypes : e[t] = Evidence(s)[t]
  BY EvidenceTyped DEF EntryTypes
<1>2. QED
  BY <1>1, EvidenceTyped

\* Every later step of a call keeps the types; what it stores was checked.
LEMMA ContinuesTyped ==
    ASSUME TypeOK, Arguments, MoneyInv, NEW c \in Calls, Continues(c)
    PROVE  TypeOK' /\ Arguments'
<1> DEFINE T == call' \in [Calls -> CallRecords] /\ Arguments'
<1> USE DEF Ends
<1>0. /\ wallet \in Balances /\ primary \in Accounts \cup {None} /\ Net \in Nat
      /\ call[c] \in CallRecords /\ call[c].seen \in Balances
      /\ ledger \in Nat /\ credited \subseteq Payments
      /\ wallet.available \in Nat /\ wallet.held \in Nat
  BY ConstantsAssumption DEF TypeOK, CallRecords, Balances
<1>1. CASE Credits(c)
  <2>1. T
    BY <1>1, EndTyped DEF Credits
  <2>2. ledger' \in Nat /\ credited' \subseteq Payments
    BY <1>0, <1>1 DEF Credits, Ends, Arguments, CreditSteps
  <2>3. wallet' \in Balances
    <3>1. wallet' = [call[c].seen EXCEPT !.available = @ + Net]
      BY <1>1 DEF Credits
    <3>2. call[c].seen.available + Net \in Nat
      BY <1>0 DEF Balances
    <3>3. QED
      BY <1>0, <3>1, <3>2 DEF Balances
  <2>4. QED
    BY <1>1, <2>1, <2>2, <2>3 DEF Credits, TypeOK, CallRecords, accountVars
<1>2. CASE OpensWallet(c)
  <2>1. T
    BY <1>2, EndTyped DEF OpensWallet
  <2>2. opened' \in BOOLEAN /\ wallet' \in Balances /\ ledger' \in Nat /\ credited' \subseteq Payments
    <3>1. call[c].payment \in Payments
      BY <1>2 DEF OpensWallet, Ends, Arguments, CreditSteps
    <3>2. CASE opened
      BY <1>0, <1>2, <3>2 DEF OpensWallet, moneyVars
    <3>3. CASE ~opened
      BY <1>0, <1>2, <3>1, <3>3 DEF OpensWallet, Balances
    <3>4. QED
      BY <3>2, <3>3
  <2>3. QED
    BY <1>2, <2>1, <2>2 DEF OpensWallet, TypeOK, CallRecords, accountVars
<1>3. CASE RequestEnds(c)
  <2>1. T
    BY <1>3, EndTyped DEF RequestEnds
  <2>2. CASE Destination(call[c].account)
    <3>1. /\ call[c].amount \in Nat /\ call[c].amount <= wallet.available /\ call[c].seen = wallet
          /\ call[c].key \in Keys /\ call[c].account \in Accounts /\ ledger = wallet.available
      <4>1. call[c].step = "request"
        BY <1>3 DEF RequestEnds
      <4>2. call[c].amount \in Nat
        BY <1>0 DEF CallRecords
      <4>3. QED
        BY <4>1, <4>2 DEF MoneyInv, WalletLock, CheckedRequest, Arguments, WalletSteps,
              WalletLedgerInvariant, AvailableMatchesLedger
    <3>2. wallet' \in Balances /\ ledger' \in Nat
      BY <1>0, <1>3, <2>2, <3>1 DEF RequestEnds, HoldsAmount, Balances
    <3>3. /\ withdrawals' \in [Keys -> [status : {"none", "requested"} \cup Decisions,
                                        amount : Nat, account : Accounts \cup {None}]]
          /\ entries' \in [Keys -> [EntryTypes -> Nat]]
      <4>1. withdrawals' \in [Keys -> [status : {"none", "requested"} \cup Decisions,
                                          amount : Nat, account : Accounts \cup {None}]]
        BY <1>3, <2>2, <3>1 DEF RequestEnds, HoldsAmount, TypeOK
      <4>2. entries[call[c].key] \in [EntryTypes -> Nat] /\ {"hold", "release", "paid"} = EntryTypes
        BY <3>1 DEF TypeOK, EntryTypes
      <4>3. entries' \in [Keys -> [EntryTypes -> Nat]]
        BY <1>3, <2>2, <3>1, <4>2, WrittenTyped DEF RequestEnds, HoldsAmount, TypeOK
      <4>4. QED
        BY <4>1, <4>3
    <3>4. QED
      BY <1>3, <2>1, <3>2, <3>3 DEF RequestEnds, TypeOK, CallRecords, accountVars
  <2>3. CASE ~Destination(call[c].account)
    BY <1>3, <2>1, <2>3 DEF RequestEnds, TypeOK, CallRecords, accountVars
  <2>4. QED
    BY <2>2, <2>3
<1>4. CASE SettleEnds(c)
  <2>1. T
    BY <1>4, EndTyped DEF SettleEnds
  <2>2. CASE Claims(call[c].key)
    <3> DEFINE n == withdrawals[call[c].key].amount
    <3>1. /\ call[c].key \in Keys /\ call[c].decision \in Decisions /\ call[c].seen = wallet
          /\ n \in Nat /\ n <= wallet.held /\ ledger \in Nat
      <4>1. call[c].step = "settle"
        BY <1>4 DEF SettleEnds
      <4>2. call[c].key \in Keys /\ call[c].decision \in Decisions /\ call[c].seen = wallet
        BY <4>1 DEF MoneyInv, WalletLock, Arguments, WalletSteps
      <4>3. n \in Nat /\ n <= wallet.held
        BY <2>2, <4>2 DEF Claims, TypeOK
      <4>4. QED
        BY <1>0, <4>2, <4>3
    <3>2. wallet' \in Balances /\ ledger' \in Nat
      BY <1>0, <1>4, <2>2, <3>1 DEF SettleEnds, PaysOut, Balances
    <3>3. /\ withdrawals' \in [Keys -> [status : {"none", "requested"} \cup Decisions,
                                        amount : Nat, account : Accounts \cup {None}]]
          /\ entries' \in [Keys -> [EntryTypes -> Nat]]
      <4>1. withdrawals' \in [Keys -> [status : {"none", "requested"} \cup Decisions,
                                          amount : Nat, account : Accounts \cup {None}]]
        <5> DEFINE Rows == [status : {"none", "requested"} \cup Decisions,
                            amount : Nat, account : Accounts \cup {None}]
                   row == withdrawals[call[c].key]
        <5>1. withdrawals \in [Keys -> Rows] /\ row \in Rows
          BY <3>1 DEF TypeOK
        <5>2. [row EXCEPT !.status = call[c].decision] \in Rows
          BY <3>1, <5>1
        <5>3. withdrawals' = [withdrawals EXCEPT ![call[c].key] = [row EXCEPT !.status = call[c].decision]]
          BY <1>4, <2>2, <3>1, <5>1 DEF SettleEnds, PaysOut
        <5> HIDE DEF Rows, row
        <5>4. withdrawals' \in [Keys -> Rows]
          BY <5>1, <5>2, <5>3
        <5>5. QED
          BY <5>4 DEF Rows
      <4>2. entries[call[c].key] \in [EntryTypes -> Nat] /\ {"hold", "release", "paid"} = EntryTypes
        BY <3>1 DEF TypeOK, EntryTypes
      <4>3. entries' \in [Keys -> [EntryTypes -> Nat]]
        <5> DEFINE e == entries[call[c].key]
        <5>1. /\ Written(e, "release") \in [EntryTypes -> Nat]
              /\ Written(Written(e, "release"), "paid") \in [EntryTypes -> Nat]
          BY <4>2, WrittenTyped
        <5>2. entries' = [entries EXCEPT ![call[c].key] =
                  IF call[c].decision = "paid"
                  THEN Written(Written(e, "release"), "paid") ELSE Written(e, "release")]
          BY <1>4, <2>2, <3>1 DEF SettleEnds, PaysOut
        <5>3. QED
          BY <5>1, <5>2 DEF TypeOK
      <4>4. QED
        BY <4>1, <4>3
    <3>4. QED
      BY <1>4, <2>1, <3>2, <3>3 DEF SettleEnds, TypeOK, CallRecords, accountVars
  <2>3. CASE ~Claims(call[c].key)
    BY <1>4, <2>1, <2>3 DEF SettleEnds, TypeOK, CallRecords, accountVars
  <2>4. QED
    BY <2>2, <2>3
<1>5. CASE CreatePlain(c)
  BY <1>5, EndTyped DEF CreatePlain, TypeOK, CallRecords, moneyVars
<1>6. CASE CreateClears(c)
  <2> DEFINE r == [call[c] EXCEPT !.step = "insert", !.was = primary]
  <2>1. r \in CallRecords /\ call' = [call EXCEPT ![c] = r]
    BY <1>0, <1>6 DEF CreateClears, CallRecords, Steps, TypeOK
  <2>2. HasArguments(r)
    BY <1>0, <1>6 DEF CreateClears, CallRecords, Arguments, HasArguments, InsertSteps, AccountSteps,
          CreditSteps
  <2>3. QED
    BY <1>6, <2>1, <2>2, BeginTyped DEF CreateClears
<1>7. ASSUME NEW s \in {"insert", "promote"}, Places(c, s) PROVE TypeOK' /\ Arguments'
  <2>1. T
    BY <1>7, EndTyped DEF Places
  <2>2. call[c].account \in Accounts
    BY <1>7 DEF Places, Arguments, InsertSteps, AccountSteps
  <2>3. QED
    BY <1>7, <2>1, <2>2 DEF Places, TypeOK, CallRecords, moneyVars, accountVars
<1>8. CASE Edits(c)
  <2>1. T
    BY <1>8, EndTyped DEF Edits
  <2>2. primary' \in Accounts \cup {None}
    BY <1>0, <1>8 DEF Edits, Arguments, AccountSteps
  <2>3. QED
    BY <1>8, <2>1, <2>2 DEF Edits, TypeOK, CallRecords, moneyVars
<1>9. CASE Deletes(c)
  BY <1>0, <1>9, EndTyped DEF Deletes, TypeOK, CallRecords, moneyVars
<1>10. QED
  BY <1>1, <1>2, <1>3, <1>4, <1>5, <1>6, <1>7, <1>8, <1>9 DEF Continues

-----------------------------------------------------------------------------
(* What the lock on the wallet protects *)

\* A step that writes no money and takes no lock on the wallet.
LEMMA MoneyQuiet ==
    ASSUME TypeOK, MoneyInv, NEW c \in Calls,
           UNCHANGED <<moneyVars, withdrawals, entries>>,
           call'[c].step \notin WalletSteps,
           \A d \in Calls \ {c} : call'[d] = call[d]
    PROVE  MoneyInv'
<1>1. \A d \in Calls : call'[d].step \in WalletSteps => d # c /\ call'[d] = call[d]
  OBVIOUS
<1>2. WalletLock'
  BY <1>1 DEF MoneyInv, WalletLock, moneyVars
<1>3. CheckedRequest'
  <2>1. \A d \in Calls : call'[d].step = "request" => call'[d] = call[d]
    BY <1>1 DEF WalletSteps
  <2>2. QED
    BY <2>1 DEF MoneyInv, CheckedRequest, NoOpen, moneyVars
<1>4. QED
  BY <1>2, <1>3 DEF MoneyInv, NoMoneyBefore, AtMostOneOpen, WalletLedgerInvariant,
        AvailableMatchesLedger, HeldMatchesOpen, EvidenceMatchesStatus, moneyVars

\* A step that takes the lock on the wallet and reads the row.
LEMMA MoneyLocked ==
    ASSUME TypeOK, MoneyInv, NEW c \in Calls,
           UNCHANGED <<moneyVars, withdrawals, entries>>,
           opened, WalletFree, call'[c].seen = wallet,
           call'[c].step = "request"
               => NoOpen(call'[c].key) /\ call'[c].amount <= wallet.available,
           \A d \in Calls \ {c} : call'[d] = call[d]
    PROVE  MoneyInv'
<1>1. \A d \in Calls : call'[d].step \in WalletSteps => d = c
  BY DEF WalletFree
<1>2. WalletLock'
  BY <1>1 DEF WalletLock, moneyVars
<1>3. CheckedRequest'
  <2>1. \A d \in Calls : call'[d].step = "request" => d = c
    BY <1>1 DEF WalletSteps
  <2>2. QED
    BY <2>1 DEF CheckedRequest, NoOpen, moneyVars
<1>4. QED
  BY <1>2, <1>3 DEF MoneyInv, NoMoneyBefore, AtMostOneOpen, WalletLedgerInvariant,
        AvailableMatchesLedger, HeldMatchesOpen, EvidenceMatchesStatus, moneyVars

\* When the call that holds the lock ends, nobody holds it.
LEMMA NobodyHolds ==
    ASSUME TypeOK, MoneyInv, NEW c \in Calls,
           call[c].step \in WalletSteps \/ ~opened,
           call' = [call EXCEPT ![c] = Idle]
    PROVE  /\ \A d \in Calls : call'[d].step \notin WalletSteps
           /\ WalletLock' /\ CheckedRequest'
<1>1. "idle" \notin WalletSteps
  BY DEF WalletSteps
<1>2. \A d \in Calls : call'[d].step \notin WalletSteps
  <2> SUFFICES ASSUME NEW d \in Calls, call'[d].step \in WalletSteps PROVE FALSE
    OBVIOUS
  <2>1. d # c /\ call[d].step \in WalletSteps
    BY <1>1, Ended
  <2>2. QED
    BY <2>1 DEF MoneyInv, WalletLock
<1>3. QED
  BY <1>2 DEF WalletLock, CheckedRequest, WalletSteps

\* The payment is credited to the wallet as it is, in the ledger too.
LEMMA CreditsMoney ==
    ASSUME TypeOK, Arguments, MoneyInv, NEW c \in Calls, Credits(c) \/ OpensWallet(c)
    PROVE  MoneyInv'
<1>0. /\ wallet \in Balances /\ wallet.available \in Nat /\ ledger \in Nat /\ Net \in Nat
      /\ withdrawals' = withdrawals /\ entries' = entries
      /\ call' = [call EXCEPT ![c] = Idle]
  BY ConstantsAssumption DEF TypeOK, Balances, Credits, OpensWallet, Ends
<1>1. CASE OpensWallet(c) /\ opened
  <2>1. call'[c].step \notin WalletSteps /\ \A d \in Calls \ {c} : call'[d] = call[d]
    BY <1>0, Ended DEF WalletSteps
  <2>2. QED
    BY <1>0, <1>1, <2>1, MoneyQuiet DEF OpensWallet
<1>2. CASE Credits(c) \/ ~opened
  <2>1. /\ opened' /\ wallet'.held = wallet.held
        /\ wallet'.available = wallet.available + Net
        /\ ledger' = ledger + Net
    <3>1. CASE Credits(c)
      <4>1. call[c].seen = wallet /\ opened
        BY <3>1 DEF Credits, Ends, MoneyInv, WalletLock, WalletSteps
      <4>2. wallet' = [wallet EXCEPT !.available = @ + Net]
        BY <3>1, <4>1 DEF Credits
      <4>3. QED
        BY <1>0, <3>1, <4>1, <4>2 DEF Credits, Balances
    <3>2. CASE OpensWallet(c) /\ ~opened
      BY <1>0, <3>2 DEF OpensWallet, MoneyInv, NoMoneyBefore, Empty
    <3>3. QED
      BY <1>2, <3>1, <3>2
  <2>2. WalletLock' /\ CheckedRequest'
    BY <1>0, <1>2, NobodyHolds DEF Credits, Ends, WalletSteps
  <2>3. WalletLedgerInvariant'
    BY <1>0, <2>1 DEF MoneyInv, WalletLedgerInvariant, AvailableMatchesLedger, HeldMatchesOpen
  <2>4. QED
    BY <1>0, <2>1, <2>2, <2>3 DEF MoneyInv, NoMoneyBefore, AtMostOneOpen, EvidenceMatchesStatus
<1>3. QED
  BY <1>1, <1>2

\* The amount of a request moves from available to held, and is written once.
LEMMA HoldsMoney ==
    ASSUME TypeOK, Arguments, MoneyInv, NEW c \in Calls, RequestEnds(c),
           Destination(call[c].account)
    PROVE  MoneyInv'
<1> DEFINE k == call[c].key
           n == call[c].amount
<1>1. /\ k \in Keys /\ n \in Nat /\ NoOpen(k) /\ n <= wallet.available
      /\ call[c].seen = wallet /\ opened /\ opened'
  BY DEF TypeOK, Arguments, MoneyInv, WalletLock, CheckedRequest, RequestEnds, Ends, WalletSteps
<1>2. /\ wallet.available \in Nat /\ wallet.held = 0 /\ ledger = wallet.available
  BY <1>1 DEF TypeOK, Balances, NoOpen, MoneyInv, WalletLedgerInvariant, AvailableMatchesLedger,
        HeldMatchesOpen
<1>3. /\ wallet'.available = wallet.available - n /\ wallet'.held = wallet.held + n
      /\ ledger' = ledger - n
      /\ withdrawals'[k].status = "requested" /\ withdrawals'[k].amount = n
      /\ \A j \in Keys \ {k} : withdrawals'[j] = withdrawals[j]
      /\ entries'[k] = Written(entries[k], "hold")
      /\ \A j \in Keys \ {k} : entries'[j] = entries[j]
  BY <1>1 DEF RequestEnds, HoldsAmount, TypeOK
<1> HIDE DEF k, n
<1>4. WalletLedgerInvariant' /\ AtMostOneOpen'
  BY <1>1, <1>2, <1>3 DEF WalletLedgerInvariant, AvailableMatchesLedger, HeldMatchesOpen,
        NoOpen, AtMostOneOpen
<1>5. EvidenceMatchesStatus'
  <2>1. entries[k] = Evidence("none")
    BY <1>1 DEF NoOpen, MoneyInv, EvidenceMatchesStatus
  <2>2. Written(Evidence("none"), "hold") = Evidence("requested")
    BY EvidenceTyped, WrittenTyped, EvidenceIs DEF Written, EntryTypes, Decisions
  <2>3. QED
    BY <1>1, <1>3, <2>1, <2>2 DEF MoneyInv, EvidenceMatchesStatus
<1>6. WalletLock' /\ CheckedRequest'
  BY NobodyHolds DEF RequestEnds, Ends, WalletSteps
<1>7. QED
  BY <1>1, <1>4, <1>5, <1>6 DEF MoneyInv, NoMoneyBefore

\* The amount of the open withdrawal is released once, and leaves if it is paid.
LEMMA SettlesMoney ==
    ASSUME TypeOK, Arguments, MoneyInv, NEW c \in Calls, SettleEnds(c), Claims(call[c].key)
    PROVE  MoneyInv'
<1> DEFINE k == call[c].key
           n == withdrawals[k].amount
           kept == IF call[c].decision = "paid" THEN 0 ELSE n
<1>1. /\ k \in Keys /\ call[c].decision \in Decisions /\ call[c].seen = wallet
      /\ opened /\ opened' /\ withdrawals[k].status = "requested"
  BY DEF Arguments, MoneyInv, WalletLock, SettleEnds, Ends, Claims, WalletSteps
<1>2. /\ n \in Nat /\ wallet.available \in Nat /\ wallet.held = n /\ ledger = wallet.available
      /\ \A j \in Keys \ {k} : withdrawals[j].status # "requested"
  BY <1>1 DEF TypeOK, Balances, MoneyInv, WalletLedgerInvariant, AvailableMatchesLedger,
        HeldMatchesOpen, AtMostOneOpen
<1>3. /\ wallet'.available = wallet.available + kept /\ wallet'.held = wallet.held - n
      /\ ledger' = ledger + kept
      /\ withdrawals'[k].status = call[c].decision
      /\ \A j \in Keys \ {k} : withdrawals'[j] = withdrawals[j]
      /\ entries'[k] = IF call[c].decision = "paid"
                       THEN Written(Written(entries[k], "release"), "paid")
                       ELSE Written(entries[k], "release")
      /\ \A j \in Keys \ {k} : entries'[j] = entries[j]
  <2>1. PaysOut(c)
    BY DEF SettleEnds
  <2>2. /\ wallet'.available = wallet.available + kept /\ wallet'.held = wallet.held - n
        /\ ledger' = ledger + kept
    BY <1>1, <1>2, <2>1 DEF PaysOut
  <2>3. /\ withdrawals'[k].status = call[c].decision
        /\ \A j \in Keys \ {k} : withdrawals'[j] = withdrawals[j]
    BY <1>1, <2>1 DEF PaysOut, TypeOK
  <2>4. /\ entries'[k] = IF call[c].decision = "paid"
                         THEN Written(Written(entries[k], "release"), "paid")
                         ELSE Written(entries[k], "release")
        /\ \A j \in Keys \ {k} : entries'[j] = entries[j]
    BY <1>1, <2>1 DEF PaysOut, TypeOK
  <2>5. QED
    BY <2>2, <2>3, <2>4
<1>4. kept \in Nat
  BY <1>2
<1> HIDE DEF k, n, kept
<1>5. \A j \in Keys : withdrawals'[j].status # "requested"
  BY <1>1, <1>2, <1>3 DEF Decisions
<1>6. WalletLedgerInvariant' /\ AtMostOneOpen'
  BY <1>2, <1>3, <1>4, <1>5 DEF WalletLedgerInvariant, AvailableMatchesLedger, HeldMatchesOpen,
        AtMostOneOpen
<1>7. EvidenceMatchesStatus'
  <2>1. entries[k] = Evidence("requested")
    BY <1>1 DEF MoneyInv, EvidenceMatchesStatus
  <2>2. Written(Written(Evidence("requested"), "release"), "paid") = Evidence("paid")
    BY EvidenceTyped, WrittenTyped, EvidenceIs DEF Written, EntryTypes, Decisions
  <2>3. \A d \in Decisions \ {"paid"} :
            Written(Evidence("requested"), "release") = Evidence(d)
    BY EvidenceTyped, WrittenTyped, EvidenceIs DEF Written, EntryTypes, Decisions
  <2>4. entries'[k] = Evidence(withdrawals'[k].status)
    BY <1>1, <1>3, <2>1, <2>2, <2>3
  <2>5. QED
    BY <1>3, <2>4 DEF MoneyInv, EvidenceMatchesStatus
<1>8. WalletLock' /\ CheckedRequest'
  BY NobodyHolds DEF SettleEnds, Ends, WalletSteps
<1>9. QED
  BY <1>1, <1>6, <1>7, <1>8 DEF MoneyInv, NoMoneyBefore

\* Every step of a call keeps the money in order.
LEMMA MoneyStep ==
    ASSUME TypeOK, Arguments, MoneyInv, NEW c \in Calls, Starts(c) \/ Continues(c) \/ Fails(c)
    PROVE  MoneyInv'
<1> DEFINE Others == \A d \in Calls \ {c} : call'[d] = call[d]
<1>0. /\ "idle" \notin WalletSteps /\ "open" \notin WalletSteps /\ "insert" \notin WalletSteps
      /\ \A s \in AccountSteps \cup InsertSteps : s \notin WalletSteps
  BY DEF WalletSteps, AccountSteps, InsertSteps
<1>1. ASSUME NEW p \in Payments, CreditBegins(c, p) PROVE MoneyInv'
  <2>1. /\ Others /\ call'[c].seen = wallet
        /\ call'[c].step = IF opened THEN "credit" ELSE "open"
    <3>1. Others /\ call'[c] = [Idle EXCEPT !.step = IF opened THEN "credit" ELSE "open",
                                            !.payment = p, !.seen = wallet]
      BY <1>1, Begins DEF CreditBegins
    <3>2. QED
      BY <3>1 DEF Idle
  <2>2. CASE opened
    BY <1>1, <2>1, <2>2, MoneyLocked DEF CreditBegins
  <2>3. CASE ~opened
    BY <1>0, <1>1, <2>1, <2>3, MoneyQuiet DEF CreditBegins
  <2>4. QED
    BY <2>2, <2>3
<1>2. ASSUME NEW k \in Keys, NEW n \in Amounts, NEW a \in Accounts, RequestBegins(c, k, n, a)
      PROVE  MoneyInv'
  <2>1. Others /\ call'[c].seen = wallet /\ call'[c].key = k /\ call'[c].amount = n
    <3>1. Others /\ call'[c] = [Idle EXCEPT !.step = "request", !.key = k, !.amount = n,
                                            !.account = a, !.seen = wallet]
      BY <1>2, Begins DEF RequestBegins
    <3>2. QED
      BY <3>1 DEF Idle
  <2>2. QED
    BY <1>2, <2>1, MoneyLocked DEF RequestBegins
<1>3. ASSUME NEW k \in Keys, NEW d \in Decisions, SettleBegins(c, k, d) PROVE MoneyInv'
  <2>1. Others /\ call'[c].seen = wallet /\ call'[c].step = "settle"
    BY <1>3, Begins DEF SettleBegins, Idle
  <2>2. QED
    BY <1>3, <2>1, MoneyLocked DEF SettleBegins
<1>4. ASSUME NEW a \in Accounts,
             \/ \E wants \in BOOLEAN : CreateBegins(c, a, wants)
             \/ PromoteBegins(c, a) \/ EditBegins(c, a) \/ DeleteBegins(c, a)
      PROVE  MoneyInv'
  <2>1. Others /\ call'[c].step \in AccountSteps \cup InsertSteps
    BY <1>4, BeginsAccount DEF AccountSteps, InsertSteps
  <2>2. UNCHANGED <<moneyVars, withdrawals, entries>>
    BY <1>4 DEF CreateBegins, PromoteBegins, EditBegins, DeleteBegins
  <2>3. QED
    BY <1>0, <2>1, <2>2, MoneyQuiet
<1>5. CASE RequestEnds(c)
  <2>1. CASE ~Destination(call[c].account)
    <3>1. Others /\ call'[c].step = "idle"
      BY <1>5, Ended DEF RequestEnds, Ends
    <3>2. QED
      BY <1>0, <1>5, <2>1, <3>1, MoneyQuiet DEF RequestEnds, moneyVars
  <2>2. QED
    BY <1>5, <2>1, HoldsMoney
<1>6. CASE SettleEnds(c)
  <2>1. CASE ~Claims(call[c].key)
    <3>1. Others /\ call'[c].step = "idle"
      BY <1>6, Ended DEF SettleEnds, Ends
    <3>2. QED
      BY <1>0, <1>6, <2>1, <3>1, MoneyQuiet DEF SettleEnds, moneyVars
  <2>2. QED
    BY <1>6, <2>1, SettlesMoney
<1>7. CASE \/ CreatePlain(c) \/ Places(c, "insert") \/ Places(c, "promote")
           \/ Edits(c) \/ Deletes(c) \/ Fails(c)
  <2>1. Others /\ call'[c].step = "idle"
    BY <1>7, Ended DEF CreatePlain, Places, Edits, Deletes, Fails, Ends
  <2>2. UNCHANGED <<moneyVars, withdrawals, entries>>
    BY <1>7 DEF CreatePlain, Places, Edits, Deletes, Fails
  <2>3. QED
    BY <1>0, <2>1, <2>2, MoneyQuiet
<1>8. CASE CreateClears(c)
  <2>1. Others /\ call'[c].step = "insert"
    BY <1>8 DEF CreateClears, TypeOK
  <2>2. QED
    BY <1>0, <1>8, <2>1, MoneyQuiet DEF CreateClears
<1>9. QED
  BY <1>1, <1>2, <1>3, <1>4, <1>5, <1>6, <1>7, <1>8, CreditsMoney DEF Starts, Continues

\* Nobody else takes up a payment a call has in hand, and it is recorded once.
LEMMA PaymentStep ==
    ASSUME TypeOK, PaymentLock, NEW c \in Calls, Starts(c) \/ Continues(c) \/ Fails(c)
    PROVE  PaymentLock'
<1> DEFINE Others == \A d \in Calls \ {c} : call'[d] = call[d]
<1>0. \A s \in AccountSteps \cup InsertSteps \cup {"idle", "request", "settle"} : s \notin CreditSteps
  BY DEF AccountSteps, InsertSteps, CreditSteps
<1>1. ASSUME Others, call'[c].step \notin CreditSteps, credited' = credited
      PROVE  PaymentLock'
  BY <1>1 DEF PaymentLock
<1>2. ASSUME NEW p \in Payments, CreditBegins(c, p) PROVE PaymentLock'
  <2>1. /\ Others /\ call'[c].payment = p /\ credited' = credited
        /\ p \notin credited /\ \A d \in Calls : call[d].payment # p
    <3>1. Others /\ call'[c] = [Idle EXCEPT !.step = IF opened THEN "credit" ELSE "open",
                                            !.payment = p, !.seen = wallet]
      BY <1>2, Begins DEF CreditBegins
    <3>2. QED
      BY <1>2, <3>1 DEF CreditBegins, moneyVars, Idle
  <2>2. QED
    BY <2>1 DEF PaymentLock
<1>3. ASSUME NEW k \in Keys, NEW n \in Amounts, NEW a \in Accounts, RequestBegins(c, k, n, a)
      PROVE  PaymentLock'
  <2>1. Others /\ call'[c].step = "request" /\ credited' = credited
    <3>1. Others /\ call'[c] = [Idle EXCEPT !.step = "request", !.key = k, !.amount = n,
                                            !.account = a, !.seen = wallet]
      BY <1>3, Begins DEF RequestBegins
    <3>2. QED
      BY <1>3, <3>1 DEF RequestBegins, moneyVars, Idle
  <2>2. QED
    BY <1>0, <1>1, <2>1
<1>4. ASSUME NEW k \in Keys, NEW d \in Decisions, SettleBegins(c, k, d) PROVE PaymentLock'
  <2>1. Others /\ call'[c].step = "settle" /\ credited' = credited
    BY <1>4, Begins DEF SettleBegins, moneyVars, Idle
  <2>2. QED
    BY <1>0, <1>1, <2>1
<1>5. ASSUME NEW a \in Accounts,
             \/ \E wants \in BOOLEAN : CreateBegins(c, a, wants)
             \/ PromoteBegins(c, a) \/ EditBegins(c, a) \/ DeleteBegins(c, a)
      PROVE  PaymentLock'
  <2>1. Others /\ call'[c].step \in AccountSteps \cup InsertSteps
    BY <1>5, BeginsAccount DEF AccountSteps, InsertSteps
  <2>2. credited' = credited
    BY <1>5 DEF CreateBegins, PromoteBegins, EditBegins, DeleteBegins, moneyVars
  <2>3. QED
    BY <1>0, <1>1, <2>1, <2>2
<1>6. CASE Credits(c) \/ OpensWallet(c)
  <2>1. /\ call[c].step \in CreditSteps /\ credited' \subseteq credited \cup {call[c].payment}
        /\ Others /\ call'[c].step = "idle"
    BY <1>6, Ended DEF Credits, OpensWallet, Ends, CreditSteps, moneyVars
  <2>2. QED
    BY <1>0, <2>1 DEF PaymentLock
<1>7. CASE \/ RequestEnds(c) \/ SettleEnds(c) \/ CreatePlain(c)
           \/ Places(c, "insert") \/ Places(c, "promote")
           \/ Edits(c) \/ Deletes(c) \/ Fails(c)
  <2>1. Others /\ call'[c].step = "idle"
    BY <1>7, Ended DEF RequestEnds, SettleEnds, CreatePlain, Places, Edits, Deletes, Fails, Ends
  <2>2. credited' = credited
    BY <1>7 DEF RequestEnds, SettleEnds, CreatePlain, Places, Edits, Deletes, Fails, moneyVars
  <2>3. QED
    BY <1>0, <1>1, <2>1, <2>2
<1>8. CASE CreateClears(c)
  <2>1. Others /\ call'[c].step = "insert" /\ credited' = credited
    BY <1>8 DEF CreateClears, TypeOK, moneyVars
  <2>2. QED
    BY <1>0, <1>1, <2>1 DEF InsertSteps
<1>9. QED
  BY <1>2, <1>3, <1>4, <1>5, <1>6, <1>7, <1>8 DEF Starts, Continues

-----------------------------------------------------------------------------
(* What the locks on the accounts protect *)

\* A step that touches no account and takes no lock on one.
LEMMA AccountQuiet ==
    ASSUME TypeOK, AccountInv, NEW c \in Calls,
           UNCHANGED <<accountVars, withdrawals>>,
           call'[c].step \notin AccountSteps \cup InsertSteps,
           \A d \in Calls \ {c} : call'[d] = call[d]
    PROVE  AccountInv'
<1>1. \A d \in Calls : call'[d].step \in AccountSteps \cup InsertSteps => call'[d] = call[d]
  OBVIOUS
<1>2. AccountLock' /\ InsertedOnce'
  BY <1>1 DEF AccountInv, AccountLock, InsertedOnce, accountVars
<1>3. FlagIsCurrent' /\ DeletedUnused' /\ DestinationKnown' /\ OpenDestinationKept'
  BY <1>1 DEF AccountInv, FlagIsCurrent, DeletedUnused, DestinationKnown,
        OpenDestinationKept, InUse,
        AccountSteps, accountVars
<1>4. QED
  BY <1>2, <1>3 DEF AccountInv

\* A step that takes the lock on a live account.
LEMMA AccountLocked ==
    ASSUME TypeOK, AccountInv, NEW c \in Calls, NEW a \in Accounts,
           PromoteBegins(c, a) \/ EditBegins(c, a) \/ DeleteBegins(c, a)
    PROVE  AccountInv'
<1>1. /\ call'[c].step \in AccountSteps /\ call'[c].account = a
      /\ \A d \in Calls \ {c} : call'[d] = call[d]
      /\ call'[c].step = "edit" => call'[c].was = primary
      /\ call'[c].step = "delete" => ~InUse(a)
  BY BeginsAccount DEF AccountSteps, DeleteBegins
<1>2. /\ accounts[a] = "live" /\ AccountFree(c, a)
      /\ accounts' = accounts /\ primary' = primary /\ withdrawals' = withdrawals
  BY DEF PromoteBegins, EditBegins, DeleteBegins, accountVars
<1>3. \A d \in Calls \ {c} : call[d].step \in AccountSteps => call[d].account # a
  BY <1>2 DEF AccountFree, AccountSteps
<1>4. AccountLock'
  BY <1>1, <1>2, <1>3 DEF AccountInv, AccountLock
<1>5. InsertedOnce'
  <2>1. call'[c].step \notin InsertSteps
    BY <1>1 DEF AccountSteps, InsertSteps
  <2>2. QED
    BY <1>1, <1>2, <2>1 DEF AccountInv, InsertedOnce
<1>6. FlagIsCurrent' /\ DeletedUnused' /\ DestinationKnown' /\ OpenDestinationKept'
  BY <1>1, <1>2 DEF AccountInv, FlagIsCurrent, DeletedUnused, DestinationKnown,
        OpenDestinationKept, InUse
<1>7. QED
  BY <1>4, <1>5, <1>6 DEF AccountInv

\* Create picks an account nobody else has.
LEMMA AccountPicked ==
    ASSUME TypeOK, AccountInv, NEW c \in Calls, NEW a \in Accounts, NEW wants \in BOOLEAN,
           CreateBegins(c, a, wants)
    PROVE  AccountInv'
<1>1. /\ call'[c].step = "create" /\ call'[c].account = a
      /\ \A d \in Calls \ {c} : call'[d] = call[d] /\ call[d].account # a
      /\ accounts[a] = "absent"
      /\ accounts' = accounts /\ primary' = primary /\ withdrawals' = withdrawals
  BY BeginsAccount DEF CreateBegins, accountVars
<1>2. InsertedOnce'
  BY <1>1 DEF AccountInv, InsertedOnce
<1>3. AccountLock'
  BY <1>1 DEF AccountInv, AccountLock, AccountSteps
<1>4. FlagIsCurrent' /\ DeletedUnused' /\ DestinationKnown' /\ OpenDestinationKept'
  BY <1>1 DEF AccountInv, FlagIsCurrent, DeletedUnused, DestinationKnown,
        OpenDestinationKept, InUse
<1>5. QED
  BY <1>2, <1>3, <1>4 DEF AccountInv

\* An account becomes live, and primary if nobody edits one that gains or loses the flag.
LEMMA AccountPlaced ==
    ASSUME TypeOK, Arguments, AccountInv, NEW c \in Calls,
           \/ CreatePlain(c)
           \/ Places(c, "insert") \/ Places(c, "promote")
    PROVE  AccountInv'
<1> DEFINE a == call[c].account
<1>1. /\ call'[c].step = "idle"
      /\ \A d \in Calls \ {c} : call'[d] = call[d]
      /\ call[c].step \in {"create", "insert", "promote"} /\ a \in Accounts
      /\ withdrawals' = withdrawals
      /\ \A x \in LastLocks(c) : AccountFree(c, x)
  BY Ended DEF CreatePlain, Places, Ends, Arguments, InsertSteps, AccountSteps
<1>2. CASE UNCHANGED accountVars
  BY <1>1, <1>2, AccountQuiet DEF AccountSteps, InsertSteps
<1>3. CASE ~UNCHANGED accountVars
  <2>1. /\ accounts' = [accounts EXCEPT ![a] = "live"]
        /\ \/ primary' = primary
           \/ /\ primary' = a /\ primary \in {None, call[c].was, a}
              /\ call[c].step \in {"insert", "promote"}
    BY <1>3 DEF CreatePlain, Places, Ends, accountVars
  <2>2. \A x \in Accounts : accounts'[x] = IF x = a THEN "live" ELSE accounts[x]
    BY <2>1 DEF TypeOK
  <2>3. AccountLock'
    <3>1. \A d \in Calls : call'[d].step \in AccountSteps => d # c
      BY <1>1 DEF AccountSteps
    <3>2. QED
      BY <1>1, <2>2, <3>1 DEF AccountInv, AccountLock, Arguments
  <2>4. InsertedOnce'
    <3>1. \A d \in Calls : call'[d].step \in InsertSteps => d # c /\ call[d].account \in Accounts
      BY <1>1 DEF InsertSteps, Arguments
    <3>2. \A d \in Calls \ {c} : call[d].step \in InsertSteps => call[d].account # a
      BY <1>1 DEF AccountInv, InsertedOnce, AccountLock, AccountSteps, InsertSteps
    <3>3. QED
      BY <1>1, <2>2, <3>1, <3>2 DEF AccountInv, InsertedOnce
  <2>5. FlagIsCurrent'
    <3> SUFFICES ASSUME NEW d \in Calls, call'[d].step = "edit"
                 PROVE  call'[d].was = call'[d].account <=> primary' = call'[d].account
      BY DEF FlagIsCurrent
    <3> DEFINE x == call[d].account
    <3>1. d # c /\ call'[d] = call[d] /\ call[d].step = "edit" /\ x \in Accounts
      BY <1>1 DEF Arguments, AccountSteps
    <3>2. x # a
      BY <1>1, <3>1 DEF AccountInv, AccountLock, InsertedOnce, AccountSteps, InsertSteps
    <3>3. call[d].was = x <=> primary = x
      BY <3>1 DEF AccountInv, FlagIsCurrent
    <3>4. CASE primary' = primary
      BY <3>1, <3>3, <3>4
    <3>5. CASE primary' = a /\ primary \in {None, call[c].was, a} /\ call[c].step \in {"insert", "promote"}
      <4>1. primary # x
        <5> SUFFICES ASSUME primary = x PROVE FALSE
          OBVIOUS
        <5>1. x # None
          BY <3>1, ConstantsAssumption
        <5>2. x \in LastLocks(c)
          BY <3>2, <3>5, <5>1 DEF LastLocks
        <5>3. QED
          BY <1>1, <3>1, <5>2 DEF AccountFree
      <4>2. QED
        BY <3>1, <3>2, <3>3, <3>5, <4>1
    <3>6. QED
      BY <2>1, <3>4, <3>5
  <2>6. DeletedUnused'
    BY <1>1 DEF AccountInv, DeletedUnused, InUse
  <2>7. OpenDestinationKept'
    <3>1. \A x : accounts[x] = "live" /\ x \in Accounts => accounts'[x] = "live"
      BY <2>2
    <3>2. QED
      BY <1>1, <3>1 DEF AccountInv, OpenDestinationKept, DestinationKnown
  <2>8. DestinationKnown'
    BY <1>1 DEF AccountInv, DestinationKnown
  <2>9. QED
    BY <2>3, <2>4, <2>5, <2>6, <2>7, <2>8 DEF AccountInv
<1>4. QED
  BY <1>2, <1>3

\* Create goes on to insert the account it picked.
LEMMA AccountCleared ==
    ASSUME TypeOK, Arguments, AccountInv, NEW c \in Calls, CreateClears(c)
    PROVE  AccountInv'
<1>1. /\ call'[c].step = "insert" /\ call'[c].account = call[c].account
      /\ call[c].step = "create"
      /\ \A d \in Calls \ {c} : call'[d] = call[d]
      /\ accounts' = accounts /\ primary' = primary /\ withdrawals' = withdrawals
  BY DEF CreateClears, TypeOK, accountVars
<1>2. /\ \A d \in Calls : call'[d].account = call[d].account
      /\ \A d \in Calls : call'[d].step \in InsertSteps => call[d].step \in InsertSteps
      /\ \A d \in Calls : call'[d].step \in AccountSteps => call'[d] = call[d]
  BY <1>1 DEF InsertSteps, AccountSteps
<1>3. AccountLock' /\ InsertedOnce'
  BY <1>1, <1>2 DEF AccountInv, AccountLock, InsertedOnce
<1>4. FlagIsCurrent' /\ DeletedUnused' /\ DestinationKnown' /\ OpenDestinationKept'
  BY <1>1, <1>2 DEF AccountInv, FlagIsCurrent, DeletedUnused, DestinationKnown,
        OpenDestinationKept, InUse, AccountSteps
<1>5. QED
  BY <1>3, <1>4 DEF AccountInv

\* An edit writes the flag the account has.
LEMMA EditKeeps ==
    ASSUME TypeOK, Arguments, AccountInv, NEW c \in Calls, Edits(c)
    PROVE  primary' = primary
<1>1. /\ call[c].step = "edit" /\ call[c].account \in Accounts
      /\ call[c].was = call[c].account <=> primary = call[c].account
  BY DEF Edits, Ends, Arguments, AccountSteps, AccountInv, FlagIsCurrent
<1>2. None # call[c].account
  BY <1>1, ConstantsAssumption
<1>3. QED
  BY <1>1, <1>2 DEF Edits

\* The account goes, and no other call or withdrawal needs it.
LEMMA AccountDeleted ==
    ASSUME TypeOK, Arguments, AccountInv, NEW c \in Calls, Deletes(c)
    PROVE  AccountInv'
<1> DEFINE a == call[c].account
<1>1. /\ call[c].step = "delete" /\ a \in Accounts /\ accounts[a] = "live" /\ ~InUse(a)
      /\ call'[c].step = "idle"
      /\ \A d \in Calls \ {c} : call'[d] = call[d]
      /\ withdrawals' = withdrawals
      /\ primary' = IF primary = a THEN None ELSE primary
  BY Ended DEF Deletes, Ends, Arguments, AccountInv, AccountLock, DeletedUnused, AccountSteps
<1>2. \A x \in Accounts : accounts'[x] = IF x = a THEN "deleted" ELSE accounts[x]
  BY <1>1 DEF Deletes, TypeOK
<1>3. \A d \in Calls : call'[d].step \in AccountSteps \cup InsertSteps
          => d # c /\ call'[d] = call[d] /\ call[d].account \in Accounts
  BY <1>1 DEF AccountSteps, InsertSteps, Arguments
<1>4. \A d \in Calls \ {c} : call[d].step \in AccountSteps \cup InsertSteps => call[d].account # a
  BY <1>1 DEF AccountInv, AccountLock, InsertedOnce, AccountSteps, InsertSteps
<1>5. AccountLock' /\ InsertedOnce'
  BY <1>2, <1>3, <1>4 DEF AccountInv, AccountLock, InsertedOnce
<1>6. FlagIsCurrent'
  <2> SUFFICES ASSUME NEW d \in Calls, call'[d].step = "edit"
               PROVE  call'[d].was = call'[d].account <=> primary' = call'[d].account
    BY DEF FlagIsCurrent
  <2>1. /\ call'[d] = call[d] /\ call[d].account # a /\ call[d].account \in Accounts
        /\ call[d].was = call[d].account <=> primary = call[d].account
    BY <1>3, <1>4 DEF AccountSteps, AccountInv, FlagIsCurrent
  <2>2. None # call[d].account
    BY <2>1, ConstantsAssumption
  <2>3. QED
    BY <1>1, <2>1, <2>2
<1>7. DeletedUnused' /\ DestinationKnown'
  BY <1>1, <1>3 DEF AccountInv, DeletedUnused, DestinationKnown, InUse, AccountSteps
<1>8. OpenDestinationKept'
  BY <1>1, <1>2 DEF AccountInv, OpenDestinationKept, DestinationKnown, InUse
<1>9. QED
  BY <1>5, <1>6, <1>7, <1>8 DEF AccountInv

\* A request is stored with a live account that no call is deleting.
LEMMA AccountRequested ==
    ASSUME TypeOK, Arguments, AccountInv, NEW c \in Calls, RequestEnds(c),
           Destination(call[c].account)
    PROVE  AccountInv'
<1> DEFINE a == call[c].account
           k == call[c].key
<1>1. /\ call[c].step = "request" /\ a \in Accounts /\ k \in Keys /\ accounts[a] = "live"
      /\ call'[c].step = "idle"
      /\ \A d \in Calls \ {c} : call'[d] = call[d]
      /\ accounts' = accounts /\ primary' = primary
      /\ AccountFree(c, a)
  BY Ended DEF RequestEnds, Ends, Arguments, Destination, LastLocks, accountVars
<1>2. /\ withdrawals'[k].status = "requested" /\ withdrawals'[k].account = a
      /\ \A j \in Keys \ {k} : withdrawals'[j] = withdrawals[j]
  BY <1>1 DEF RequestEnds, HoldsAmount, TypeOK
<1>3. \A d \in Calls : call'[d].step \in AccountSteps \cup InsertSteps => d # c /\ call'[d] = call[d]
  BY <1>1 DEF AccountSteps, InsertSteps
<1>4. AccountLock' /\ InsertedOnce' /\ FlagIsCurrent'
  BY <1>1, <1>3 DEF AccountInv, AccountLock, InsertedOnce, FlagIsCurrent, AccountSteps
<1>5. DeletedUnused'
  <2> SUFFICES ASSUME NEW d \in Calls, call'[d].step = "delete" PROVE ~InUse(call[d].account)'
    BY <1>3 DEF DeletedUnused, AccountSteps
  <2>1. d # c /\ call[d].step = "delete" /\ call'[d] = call[d]
    BY <1>3 DEF AccountSteps
  <2>2. call[d].account # a /\ ~InUse(call[d].account)
    BY <1>1, <2>1 DEF AccountFree, AccountInv, DeletedUnused
  <2>3. QED
    BY <1>2, <2>1, <2>2 DEF InUse
<1>6. DestinationKnown' /\ OpenDestinationKept'
  BY <1>1, <1>2 DEF AccountInv, DestinationKnown, OpenDestinationKept
<1>7. QED
  BY <1>4, <1>5, <1>6 DEF AccountInv

\* A settled withdrawal needs its account no longer.
LEMMA AccountSettled ==
    ASSUME TypeOK, Arguments, AccountInv, NEW c \in Calls, SettleEnds(c), Claims(call[c].key)
    PROVE  AccountInv'
<1> DEFINE k == call[c].key
<1>1. /\ call[c].step = "settle" /\ k \in Keys /\ call[c].decision \in Decisions
      /\ call'[c].step = "idle"
      /\ \A d \in Calls \ {c} : call'[d] = call[d]
      /\ accounts' = accounts /\ primary' = primary
  BY Ended DEF SettleEnds, Ends, Arguments, accountVars
<1>2. /\ withdrawals'[k].status # "requested"
      /\ \A j \in Keys \ {k} : withdrawals'[j] = withdrawals[j]
  BY <1>1 DEF SettleEnds, PaysOut, TypeOK, Decisions
<1>3. \A d \in Calls : call'[d].step \in AccountSteps \cup InsertSteps => d # c /\ call'[d] = call[d]
  BY <1>1 DEF AccountSteps, InsertSteps
<1>4. AccountLock' /\ InsertedOnce' /\ FlagIsCurrent'
  BY <1>1, <1>3 DEF AccountInv, AccountLock, InsertedOnce, FlagIsCurrent, AccountSteps
<1>5. DeletedUnused'
  BY <1>2, <1>3 DEF AccountInv, DeletedUnused, InUse, AccountSteps
<1>6. DestinationKnown' /\ OpenDestinationKept'
  BY <1>1, <1>2 DEF AccountInv, DestinationKnown, OpenDestinationKept
<1>7. QED
  BY <1>4, <1>5, <1>6 DEF AccountInv

\* Every step of a call keeps the accounts in order.
LEMMA AccountStep ==
    ASSUME TypeOK, Arguments, AccountInv, NEW c \in Calls, Starts(c) \/ Continues(c) \/ Fails(c)
    PROVE  AccountInv'
<1> DEFINE Others == \A d \in Calls \ {c} : call'[d] = call[d]
           Quiet == call'[c].step \notin AccountSteps \cup InsertSteps
<1>1. CASE \E p \in Payments : CreditBegins(c, p)
  <2>1. PICK p \in Payments : CreditBegins(c, p)
    BY <1>1
  <2>2. Others /\ call'[c] = [Idle EXCEPT !.step = IF opened THEN "credit" ELSE "open",
                                          !.payment = p, !.seen = wallet]
    BY <2>1, Begins DEF CreditBegins
  <2>3. call'[c].step = IF opened THEN "credit" ELSE "open"
    BY <2>2 DEF Idle
  <2>4. Quiet
    BY <2>3 DEF AccountSteps, InsertSteps
  <2>5. QED
    BY <2>1, <2>2, <2>4, AccountQuiet DEF CreditBegins
<1>2. CASE \E k \in Keys, n \in Amounts, a \in Accounts : RequestBegins(c, k, n, a)
  <2>1. PICK k \in Keys, n \in Amounts, a \in Accounts : RequestBegins(c, k, n, a)
    BY <1>2
  <2>2. Others /\ call'[c] = [Idle EXCEPT !.step = "request", !.key = k, !.amount = n,
                                          !.account = a, !.seen = wallet]
    BY <2>1, Begins DEF RequestBegins
  <2>3. Quiet
    BY <2>2 DEF Idle, AccountSteps, InsertSteps
  <2>4. QED
    BY <2>1, <2>2, <2>3, AccountQuiet DEF RequestBegins
<1>3. CASE \E k \in Keys, d \in Decisions : SettleBegins(c, k, d)
  <2>1. PICK k \in Keys, d \in Decisions : SettleBegins(c, k, d)
    BY <1>3
  <2>2. Others /\ call'[c] = [Idle EXCEPT !.step = "settle", !.key = k, !.decision = d,
                                          !.seen = wallet]
    BY <2>1, Begins DEF SettleBegins
  <2>3. Quiet
    BY <2>2 DEF Idle, AccountSteps, InsertSteps
  <2>4. QED
    BY <2>1, <2>2, <2>3, AccountQuiet DEF SettleBegins
<1>4. CASE Credits(c) \/ OpensWallet(c) \/ Fails(c)
  <2>1. Others /\ Quiet
    BY <1>4, Ended DEF Credits, OpensWallet, Fails, Ends, AccountSteps, InsertSteps
  <2>2. UNCHANGED <<accountVars, withdrawals>>
    BY <1>4 DEF Credits, OpensWallet, Fails
  <2>3. QED
    BY <2>1, <2>2, AccountQuiet
<1>5. CASE RequestEnds(c) \/ SettleEnds(c)
  <2>1. Others /\ Quiet
    BY <1>5, Ended DEF RequestEnds, SettleEnds, Ends, AccountSteps, InsertSteps
  <2>2. CASE UNCHANGED <<accountVars, withdrawals>>
    BY <2>1, <2>2, AccountQuiet
  <2>3. CASE ~UNCHANGED <<accountVars, withdrawals>>
    BY <1>5, <2>3, AccountRequested, AccountSettled DEF RequestEnds, SettleEnds
  <2>4. QED
    BY <2>2, <2>3
<1>6. CASE Edits(c)
  <2>1. Others /\ Quiet
    BY <1>6, Ended DEF Edits, Ends, AccountSteps, InsertSteps
  <2>2. UNCHANGED <<accountVars, withdrawals>>
    BY <1>6, EditKeeps DEF Edits, accountVars
  <2>3. QED
    BY <2>1, <2>2, AccountQuiet
<1>7. QED
  BY <1>1, <1>2, <1>3, <1>4, <1>5, <1>6, AccountPicked, AccountLocked, AccountPlaced,
     AccountCleared, AccountDeleted DEF Starts, Continues

-----------------------------------------------------------------------------
(* The invariant, and what follows *)

\* No call is in flight and no row exists at first.
LEMMA IInvInit == Init => IInv
<1> SUFFICES ASSUME Init PROVE IInv
  OBVIOUS
<1>1. /\ \A c \in Calls : call[c] = Idle /\ call[c].step = "idle"
      /\ \A k \in Keys : withdrawals[k] = NoWithdrawal /\ withdrawals[k].status = "none"
      /\ wallet = Empty /\ wallet.available = 0 /\ wallet.held = 0
  BY DEF Init, Idle, NoWithdrawal, Empty
<1>2. TypeOK
  <2>1. call \in [Calls -> CallRecords]
    BY DEF Init, CallRecords, Idle, Steps, Balances, Empty
  <2>2. QED
    BY <2>1 DEF Init, TypeOK, CallRecords, NoWithdrawal, Balances, Empty
<1>3. Arguments /\ AccountInv /\ PaymentLock
  BY <1>1 DEF PaymentLock, CreditSteps, Arguments, AccountInv, AccountLock, InsertedOnce, FlagIsCurrent, DeletedUnused,
        DestinationKnown, OpenDestinationKept, AccountSteps, InsertSteps
<1>4. EvidenceMatchesStatus
  <2>1. \A k \in Keys : /\ entries[k] \in [EntryTypes -> Nat]
                        /\ \A t \in EntryTypes : entries[k][t] = 0
    BY DEF Init
  <2>2. \A k \in Keys : entries[k] = Evidence("none")
    BY <2>1, EvidenceIs DEF EntryTypes, Decisions
  <2>3. QED
    BY <1>1, <2>2 DEF EvidenceMatchesStatus
<1>5. MoneyInv
  BY <1>1, <1>4 DEF Init, MoneyInv, WalletLock, CheckedRequest, NoMoneyBefore, AtMostOneOpen,
        WalletLedgerInvariant, AvailableMatchesLedger, HeldMatchesOpen, WalletSteps
<1>6. QED
  BY <1>2, <1>3, <1>5 DEF IInv

\* What the locks protect survives every step of every call.
LEMMA IInvNext == IInv /\ [Next]_vars => IInv'
<1> SUFFICES ASSUME IInv, [Next]_vars PROVE IInv'
  OBVIOUS
<1>0. TypeOK /\ Arguments /\ PaymentLock /\ MoneyInv /\ AccountInv
  BY DEF IInv
<1>1. ASSUME NEW c \in Calls, Starts(c) \/ Continues(c) \/ Fails(c) PROVE IInv'
  <2>1. TypeOK' /\ Arguments'
    <3>1. CASE Fails(c)
      BY <1>0, <3>1, EndTyped
         DEF Fails, TypeOK, CallRecords, moneyVars, accountVars
    <3>2. QED
      BY <1>0, <1>1, <3>1, StartsTyped, ContinuesTyped
  <2>2. PaymentLock' /\ MoneyInv' /\ AccountInv'
    BY <1>0, <1>1, PaymentStep, MoneyStep, AccountStep
  <2>3. QED
    BY <2>1, <2>2 DEF IInv
<1>2. CASE UNCHANGED vars
  <2>1. UNCHANGED <<opened, wallet, ledger, credited, withdrawals, entries, accounts, primary, call>>
    BY <1>2 DEF vars, moneyVars, accountVars
  <2>2. TypeOK' /\ Arguments' /\ PaymentLock'
    BY <1>0, <2>1 DEF TypeOK, Arguments, PaymentLock
  <2>3. MoneyInv'
    BY <1>0, <2>1 DEF MoneyInv, WalletLock, CheckedRequest, NoOpen, NoMoneyBefore, AtMostOneOpen,
          WalletLedgerInvariant, AvailableMatchesLedger, HeldMatchesOpen, EvidenceMatchesStatus
  <2>4. AccountInv'
    BY <1>0, <2>1 DEF AccountInv, AccountLock, InsertedOnce, FlagIsCurrent, DeletedUnused, InUse,
          DestinationKnown, OpenDestinationKept
  <2>5. QED
    BY <2>2, <2>3, <2>4 DEF IInv
<1>3. QED
  BY <1>1, <1>2 DEF Next

\* IInv holds in every state a run of the calls reaches.
THEOREM Invariance == Spec => []IInv
  BY IInvInit, IInvNext, PTL DEF Spec

\* Rows, balances and calls keep their types; no balance gets below zero.
THEOREM TypeCorrect == Spec => []TypeOK
<1>1. IInv => TypeOK
  BY DEF IInv
<1>2. QED
  BY <1>1, Invariance, PTL

\* However many requests arrive together, one withdrawal is open at a time.
THEOREM SingleOpen == Spec => []AtMostOneOpen
<1>1. IInv => AtMostOneOpen
  BY DEF IInv, MoneyInv
<1>2. QED
  BY <1>1, Invariance, PTL

\* Available balance is the sum of the ledger, held balance the open withdrawal,
\* whatever callbacks, requests and decisions run together.
THEOREM WalletMatchesLedger == Spec => []WalletLedgerInvariant
<1>1. IInv => WalletLedgerInvariant
  BY DEF IInv, MoneyInv
<1>2. QED
  BY <1>1, Invariance, PTL

\* A withdrawal is held, released and paid out at most once.
THEOREM EvidenceComplete == Spec => []EvidenceMatchesStatus
<1>1. IInv => EvidenceMatchesStatus
  BY DEF IInv, MoneyInv
<1>2. QED
  BY <1>1, Invariance, PTL

\* No account is deleted that an open withdrawal pays out to.
THEOREM DestinationKept == Spec => []OpenDestinationKept
<1>1. IInv => OpenDestinationKept
  BY DEF IInv, AccountInv
<1>2. QED
  BY <1>1, Invariance, PTL

\* A withdrawal is stored with the account that is primary at that moment.
THEOREM DestinationIsPrimary == Spec => PaysOutToPrimary
<1> DEFINE A == \A k \in Keys :
                    withdrawals[k].status = "none" /\ withdrawals'[k].status # "none"
                        => withdrawals'[k].account = primary
<1>1. IInv /\ [Next]_vars => [A]_vars
  <2> SUFFICES ASSUME IInv, Next PROVE A
    OBVIOUS
  <2>1. PICK c \in Calls : Starts(c) \/ Continues(c) \/ Fails(c)
    BY DEF Next
  <2>2. CASE RequestEnds(c) /\ Destination(call[c].account)
    <3>1. call[c].key \in Keys /\ primary = call[c].account
      BY <2>2 DEF RequestEnds, Ends, IInv, Arguments, Destination
    <3>2. /\ withdrawals'[call[c].key].account = call[c].account
          /\ \A j \in Keys \ {call[c].key} : withdrawals'[j] = withdrawals[j]
      BY <2>2, <3>1 DEF RequestEnds, HoldsAmount, IInv, TypeOK
    <3>3. QED
      BY <3>1, <3>2
  <2>3. CASE SettleEnds(c) /\ Claims(call[c].key)
    <3>1. /\ call[c].key \in Keys /\ withdrawals[call[c].key].status = "requested"
          /\ \A j \in Keys \ {call[c].key} : withdrawals'[j] = withdrawals[j]
      BY <2>3 DEF SettleEnds, Ends, Claims, PaysOut, IInv, Arguments, TypeOK
    <3>2. QED
      BY <3>1
  <2>4. CASE withdrawals' = withdrawals
    BY <2>4
  <2>5. QED
    BY <2>1, <2>2, <2>3, <2>4 DEF Starts, Continues, Fails, CreditBegins, RequestBegins,
       SettleBegins, CreateBegins, PromoteBegins, EditBegins, DeleteBegins, Credits, OpensWallet,
       RequestEnds, SettleEnds, CreatePlain, CreateClears, Places, Edits, Deletes
<1>2. QED
  BY <1>1, Invariance, PTL DEF Spec, PaysOutToPrimary

\* An edit that ends, stored or not, has left the primary account alone.
THEOREM EditIsHarmless == Spec => EditKeepsPrimary
<1> DEFINE A == \A c \in Calls : call[c].step = "edit" /\ call'[c] = Idle => primary' = primary
<1>1. IInv /\ [Next]_vars => [A]_vars
  <2> SUFFICES ASSUME IInv, Next, NEW e \in Calls, call[e].step = "edit", call'[e] = Idle
               PROVE  primary' = primary
    OBVIOUS
  <2>1. PICK c \in Calls : Starts(c) \/ Continues(c) \/ Fails(c)
    BY DEF Next
  <2>2. CASE Edits(c)
    BY <2>2, EditKeeps DEF IInv
  <2>3. CASE \/ \E s \in {"insert", "promote"} : Places(c, s)
             \/ Deletes(c)
    <3>1. call[c].step # "edit" /\ \A d \in Calls \ {c} : call'[d] = call[d]
      BY <2>3, Ended DEF Places, Deletes, Ends, IInv
    <3>2. call[e] # Idle
      BY DEF Idle
    <3>3. QED
      BY <3>1, <3>2
  <2>4. CASE primary' = primary
    BY <2>4
  <2>5. QED
    BY <2>1, <2>2, <2>3, <2>4 DEF Starts, Continues, Fails, CreditBegins, RequestBegins,
       SettleBegins, CreateBegins, PromoteBegins, EditBegins, DeleteBegins, Credits, OpensWallet,
       RequestEnds, SettleEnds, CreatePlain, CreateClears, accountVars
<1>2. QED
  BY <1>1, Invariance, PTL DEF Spec, EditKeepsPrimary

-----------------------------------------------------------------------------
(* The balance *)

\* The withdrawals as the balance sees them.
Claimed == [k \in Keys |-> [status |-> withdrawals[k].status,
                            amount |-> withdrawals[k].amount]]

\* The receipts, balances and claims of the abstract specification.
balanceVars == <<credited, wallet.available, wallet.held, Claimed>>

\* No payment and no withdrawal is there at first.
LEMMA InitBalance == Init => Balance!Init
<1> SUFFICES ASSUME Init PROVE Balance!Init
  OBVIOUS
<1>1. \A k \in Keys : withdrawals[k].status = "none" /\ withdrawals[k].amount = 0
  BY DEF Init, NoWithdrawal
<1>2. QED
  BY <1>1 DEF Init, Empty, Balance!Init

\* A callback that is not rolled back adds its payment, for the first time.
LEMMA CreditReceives ==
    ASSUME IInv, NEW c \in Calls, Credits(c) \/ (OpensWallet(c) /\ ~opened)
    PROVE  \E p \in Payments : Balance!Receive(p)
<1> DEFINE p == call[c].payment
<1>1. p \in Payments /\ p \notin credited
  BY DEF IInv, Arguments, PaymentLock, Credits, OpensWallet, Ends, CreditSteps
<1>2. /\ credited' = credited \cup {p} /\ withdrawals' = withdrawals
      /\ wallet'.available = wallet.available + Net /\ wallet'.held = wallet.held
  <2>1. CASE Credits(c)
    <3>1. wallet \in Balances /\ call[c].seen = wallet
      BY <2>1 DEF IInv, TypeOK, Credits, Ends, MoneyInv, WalletLock, WalletSteps
    <3>2. wallet' = [wallet EXCEPT !.available = @ + Net]
      BY <2>1, <3>1 DEF Credits
    <3>3. QED
      BY <2>1, <3>1, <3>2 DEF Credits, Balances
  <2>2. CASE OpensWallet(c) /\ ~opened
    BY <2>2, ConstantsAssumption DEF OpensWallet, IInv, MoneyInv, NoMoneyBefore, Empty
  <2>3. QED
    BY <2>1, <2>2
<1> HIDE DEF p
<1>3. Balance!Receive(p)
  BY <1>1, <1>2 DEF Balance!Receive
<1>4. QED
  BY <1>1, <1>3

\* A request that finds its destination sets its amount aside.
LEMMA RequestHolds ==
    ASSUME IInv, NEW c \in Calls, RequestEnds(c), Destination(call[c].account)
    PROVE  \E k \in Keys, n \in Amounts : Balance!Hold(k, n)
<1>0. PICK k \in Keys, n \in Amounts : k = call[c].key /\ n = call[c].amount
  BY DEF IInv, Arguments, RequestEnds, Ends
<1>1. NoOpen(k) /\ n <= wallet.available /\ call[c].seen = wallet
  BY <1>0 DEF IInv, Arguments, MoneyInv, WalletLock, CheckedRequest, RequestEnds, Ends, WalletSteps
<1>2. /\ wallet'.available = wallet.available - n /\ wallet'.held = wallet.held + n
      /\ credited' = credited
      /\ withdrawals'[k].status = "requested" /\ withdrawals'[k].amount = n
      /\ \A j \in Keys \ {k} : withdrawals'[j] = withdrawals[j]
  BY <1>0, <1>1 DEF RequestEnds, HoldsAmount, IInv, TypeOK
<1>3. Claimed' = [Claimed EXCEPT ![k] = [status |-> "requested", amount |-> n]]
  BY <1>1, <1>2 DEF Claimed
<1>4. /\ \A j \in Keys : Claimed[j].status = withdrawals[j].status
      /\ Claimed[k].status = "none"
  BY <1>1 DEF Claimed, NoOpen
<1>5. Balance!Hold(k, n)
  BY <1>1, <1>2, <1>3, <1>4 DEF Balance!Hold, Claimed, NoOpen
<1>6. QED
  BY <1>5

\* A cancellation or decision that finds the withdrawal open ends it: the
\* amount set aside leaves if it is paid, and is available again if not.
LEMMA SettleReleases ==
    ASSUME IInv, NEW c \in Calls, SettleEnds(c), Claims(call[c].key)
    PROVE  \E k \in Keys :
               Balance!PayOut(k) \/ \E d \in {"cancelled", "rejected"} : Balance!GiveBack(k, d)
<1>0. PICK k \in Keys, d \in Decisions : k = call[c].key /\ d = call[c].decision
  BY DEF IInv, Arguments, SettleEnds, Ends
<1> DEFINE n == withdrawals[k].amount
<1>1. call[c].seen = wallet /\ withdrawals[k].status = "requested"
  BY <1>0 DEF IInv, Arguments, MoneyInv, WalletLock, SettleEnds, Ends, Claims, WalletSteps
<1>2. n \in Nat /\ wallet.available \in Nat
  BY <1>1 DEF IInv, TypeOK, Balances
<1>3. /\ credited' = credited
      /\ wallet'.available = wallet.available + (IF d = "paid" THEN 0 ELSE n)
      /\ wallet'.held = wallet.held - n
      /\ withdrawals'[k].status = d /\ withdrawals'[k].amount = n
      /\ \A j \in Keys \ {k} : withdrawals'[j] = withdrawals[j]
  BY <1>0, <1>1 DEF SettleEnds, PaysOut, IInv, TypeOK
<1> HIDE DEF n
<1>4. Claimed[k] = [status |-> "requested", amount |-> n]
  BY <1>1 DEF Claimed, n
<1>5. Claimed' = [Claimed EXCEPT ![k].status = d]
  BY <1>1, <1>3, <1>4 DEF Claimed
<1>6. CASE d = "paid"
  <2>1. wallet'.available = wallet.available
    BY <1>2, <1>3, <1>6
  <2>2. Balance!PayOut(k)
    BY <1>3, <1>4, <1>5, <1>6, <2>1 DEF Balance!PayOut, Claimed
  <2>3. QED
    BY <2>2
<1>7. CASE d # "paid"
  <2>1. wallet'.available = wallet.available + n
    BY <1>3, <1>7
  <2>2. Balance!GiveBack(k, d)
    BY <1>3, <1>4, <1>5, <2>1 DEF Balance!GiveBack, Claimed
  <2>3. QED
    BY <1>7, <2>2 DEF Decisions
<1>8. QED
  BY <1>6, <1>7

\* Every step is an operation on the balance or leaves it alone.
LEMMA NextBalance == IInv /\ [Next]_vars => Balance!Next \/ UNCHANGED balanceVars
<1> SUFFICES ASSUME IInv, [Next]_vars PROVE Balance!Next \/ UNCHANGED balanceVars
  OBVIOUS
<1>1. ASSUME credited' = credited, wallet' = wallet, withdrawals' = withdrawals
      PROVE  UNCHANGED balanceVars
  BY <1>1 DEF balanceVars, Claimed
<1>2. ASSUME NEW c \in Calls, Starts(c) \/ Continues(c) \/ Fails(c)
      PROVE  Balance!Next \/ UNCHANGED balanceVars
  <2>1. CASE Credits(c) \/ (OpensWallet(c) /\ ~opened)
    BY <2>1, CreditReceives DEF Balance!Next
  <2>2. CASE RequestEnds(c) /\ Destination(call[c].account)
    BY <2>2, RequestHolds DEF Balance!Next
  <2>3. CASE SettleEnds(c) /\ Claims(call[c].key)
    BY <2>3, SettleReleases DEF Balance!Next
  <2>4. CASE credited' = credited /\ wallet' = wallet /\ withdrawals' = withdrawals
    BY <1>1, <2>4
  <2>5. QED
    BY <1>2, <2>1, <2>2, <2>3, <2>4 DEF Starts, Continues, Fails, CreditBegins, RequestBegins,
       SettleBegins, CreateBegins, PromoteBegins, EditBegins, DeleteBegins, OpensWallet,
       RequestEnds, SettleEnds, CreatePlain, CreateClears, Places, Edits, Deletes, moneyVars
<1>3. CASE UNCHANGED vars
  BY <1>1, <1>3 DEF vars, moneyVars
<1>4. QED
  BY <1>2, <1>3 DEF Next

\* Calls that run together have the effect of operations that happen one at a
\* time: the wallet implements the balance.
THEOREM BalanceRefined == Spec => ImplementsBalance
<1>1. IInv /\ [Next]_vars => [Balance!Next]_(Balance!vars)
  BY NextBalance DEF Balance!vars, balanceVars, Claimed
<1>2. QED
  BY <1>1, InitBalance, Invariance, PTL DEF Spec, ImplementsBalance, Balance!Spec

\* The payments recorded are finitely many and cover what the wallet has.
Covered == IsFiniteSet(credited) /\ WalletMakesNoMoney

\* An operation on the balance brings in no more than a payment's net amount.
LEMMA CoveredNext == IInv /\ Covered /\ [Next]_vars => Covered'
<1> SUFFICES ASSUME IInv, Covered, Balance!Next \/ UNCHANGED balanceVars PROVE Covered'
  BY NextBalance
<1> DEFINE m == Cardinality(credited)
<1>1. /\ IsFiniteSet(credited) /\ m \in Nat /\ Net \in Nat
      /\ wallet.available \in Nat /\ wallet.held \in Nat
      /\ wallet.available + wallet.held <= Net * m
  BY ConstantsAssumption, FS_CardinalityType DEF IInv, TypeOK, Balances, Covered, WalletMakesNoMoney
<1>2. ASSUME NEW p \in Payments, Balance!Receive(p) PROVE Covered'
  <2>1. /\ p \notin credited /\ credited' = credited \cup {p}
        /\ wallet'.available = wallet.available + Net /\ wallet'.held = wallet.held
    BY <1>2 DEF Balance!Receive
  <2>2. IsFiniteSet(credited') /\ Cardinality(credited') = m + 1
    BY <1>1, <2>1, FS_AddElement
  <2>3. Net * (m + 1) = Net * m + Net
    BY <1>1
  <2>4. QED
    BY <1>1, <2>1, <2>2, <2>3 DEF Covered, WalletMakesNoMoney
<1>3. ASSUME credited' = credited,
             wallet'.available + wallet'.held <= wallet.available + wallet.held,
             wallet'.available \in Int, wallet'.held \in Int
      PROVE  Covered'
  BY <1>1, <1>3 DEF Covered, WalletMakesNoMoney
<1>4. ASSUME NEW k \in Keys PROVE Claimed[k].amount \in Nat
  BY DEF IInv, TypeOK, Claimed
<1>5. ASSUME NEW k \in Keys, NEW n \in Amounts, Balance!Hold(k, n) PROVE Covered'
  <2>1. n \in Nat
    BY ConstantsAssumption
  <2>2. QED
    BY <1>1, <1>3, <1>5, <2>1 DEF Balance!Hold
<1>6. ASSUME NEW k \in Keys, Balance!PayOut(k) PROVE Covered'
  <2>1. /\ credited' = credited /\ wallet'.available = wallet.available
        /\ wallet'.held = wallet.held - Claimed[k].amount
    BY <1>6 DEF Balance!PayOut, Claimed
  <2>2. QED
    BY <1>1, <1>3, <1>4, <2>1
<1>7. ASSUME NEW k \in Keys, NEW d, Balance!GiveBack(k, d) PROVE Covered'
  <2>1. /\ credited' = credited /\ wallet'.available = wallet.available + Claimed[k].amount
        /\ wallet'.held = wallet.held - Claimed[k].amount
    BY <1>7 DEF Balance!GiveBack, Claimed
  <2>2. QED
    BY <1>1, <1>3, <1>4, <2>1
<1>8. CASE UNCHANGED balanceVars
  BY <1>1, <1>3, <1>8 DEF balanceVars
<1>9. QED
  BY <1>2, <1>5, <1>6, <1>7, <1>8 DEF Balance!Next

\* The wallet never has more than the payments recorded brought, however many
\* callbacks, requests, cancellations and decisions run together.
THEOREM NoMoneyMade == Spec => []WalletMakesNoMoney
<1>1. Init => Covered
  <2>1. ASSUME Init PROVE IsFiniteSet(credited) /\ wallet.available + wallet.held = 0
                          /\ Cardinality(credited) = 0
    BY <2>1, FS_EmptySet DEF Init, Empty
  <2>2. QED
    BY <2>1, ConstantsAssumption DEF Covered, WalletMakesNoMoney
<1>2. Covered => WalletMakesNoMoney
  BY DEF Covered
<1>3. QED
  BY <1>1, <1>2, CoveredNext, Invariance, PTL DEF Spec

=============================================================================
