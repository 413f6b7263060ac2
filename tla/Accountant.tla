------------------------------ MODULE Accountant ------------------------------
(* The payable side of the Accountant with the Blockchain bridge: the scans   *)
(* for new, pending and retried payables, their schedulers, the three tables  *)
(* they keep, and the chain on which the payments are mined.                  *)
(* The Accountant is an actor: a handler runs alone, but its database writes  *)
(* are separate transactions, and the process may end between two of them.    *)
EXTENDS Integers, Sequences, FiniteSets, Bags, FiniteSetsExt

CONSTANTS
    Creditors,      \* wallets of providers this Node owes to
    Requests,       \* scan requests of user interfaces
    NoRequest,      \* response_skeleton_opt = None
    Modes,          \* the values of --scans: TRUE is on
    Wallets,        \* whether the consuming wallet is known at the start
    MaxDebt,        \* bound: debt recorded for every creditor
    MaxTx,          \* bound: transactions the service takes
    MaxFaults,      \* bound: failing calls of the blockchain service
    MaxCrashes      \* bound: ends of the process

ASSUME AccountantAssumption ==
    /\ NoRequest \notin Requests
    /\ Modes \subseteq BOOLEAN /\ Wallets \subseteq BOOLEAN
    /\ MaxDebt \in [Creditors -> Nat]
    /\ {MaxTx, MaxFaults, MaxCrashes} \subseteq Nat

VARIABLES
    automatic,  \* scan_schedulers.automatic_scans_enabled
    wallet,     \* consuming_wallet_opt is Some
    up,         \* the Accountant handles messages
    panic,      \* why it stopped handling them
    initial,    \* initial_pending_payable_scan
    aware,      \* aware_of_unresolved_pending_payable
    scanning,   \* the scanners whose initiated_at_opt is Some
    mail,       \* messages and timers of the Accountant
    bridge,     \* requests at the Blockchain bridge
    db,         \* tables: payable (owed), sent_payable, failed_payable
    chain,      \* unmined and mined transactions of the wallet
    hashes,     \* number of transactions signed so far
    asked,      \* requests made so far
    answers,    \* how often every request has been answered
    faults, crashes,
    accrued,    \* history: debt recorded for every creditor
    recorded,   \* history: hashes ever written to a table
    torn        \* history: a handler was cut between two writes

control == <<automatic, wallet, initial, aware, scanning>>
process == <<up, panic, crashes, torn>>
tables == <<db, accrued, recorded>>
service == <<chain, hashes, faults>>
vars == <<control, process, mail, bridge, tables, service, asked, answers>>

Payables == "Payables"
PendingPayables == "PendingPayables"

Hashes(rows) == {row.hash : row \in rows}
Nonces(rows) == {row.nonce : row \in rows}
Amount(rows) == MapThenSumSet(LAMBDA row : row.amount, rows)

SentRow(tx, status) ==
    [hash |-> tx.hash, to |-> tx.to, amount |-> tx.amount, nonce |-> tx.nonce,
     status |-> status]

(* FailedTx::from((SentTx, FailureReason)) and from((&SentTx, &Web3Error))    *)
FailedRow(tx, reason) ==
    [hash |-> tx.hash, to |-> tx.to, amount |-> tx.amount, nonce |-> tx.nonce,
     reason |-> reason, status |-> "RetryRequired"]

Pending == {row \in db.sent : row.status = "Pending"}
RecheckRequired == {row \in db.failed : row.status = "RecheckRequired"}
RetryRequired == {row \in db.failed : row.status = "RetryRequired"}

Put(bag, m) == bag (+) SetToBag({m})
Take(bag, m) == bag (-) SetToBag({m})

ScanFor(scan, ui) == [type |-> "ScanFor", scan |-> scan, ui |-> ui]

(* The database right after a start: what earlier runs have left behind.      *)
Init ==
    /\ automatic \in Modes /\ wallet \in Wallets
    /\ up = TRUE /\ panic = "none"
    /\ initial = TRUE /\ aware = FALSE /\ scanning = {}
    /\ mail = SetToBag({[type |-> "StartMessage"]}) /\ bridge = EmptyBag
    /\ db = [owed |-> [c \in Creditors |-> 0], sent |-> {}, failed |-> {}]
    /\ chain = [pool |-> {}, mined |-> {}]
    /\ hashes = 0
    /\ asked = {} /\ answers = [r \in Requests |-> 0]
    /\ faults = 0 /\ crashes = 0 /\ torn = FALSE
    /\ accrued = [c \in Creditors |-> 0] /\ recorded = {}

------------------------------------------------------------------------------
(* How a handler ends.                                                        *)

Answer(ui) ==
    answers' = [r \in Requests |-> IF r = ui THEN answers[r] + 1 ELSE answers[r]]

(* A panic ends the actor; its mailbox and whatever it waits for are gone.    *)
Panics(why) ==
    /\ up' = FALSE /\ panic' = why
    /\ mail' = EmptyBag /\ bridge' = EmptyBag
    /\ UNCHANGED <<crashes, torn>>

Lives == UNCHANGED process

(* handle_start_scan_error: an interface is answered and nothing follows; an  *)
(* automatic scan is followed by the scan the resolver names, if any.         *)
EarlyStop(ui, rest, next) ==
    /\ Answer(ui)
    /\ mail' = IF ui = NoRequest
               THEN rest (+) SetToBag({ScanFor(scan, NoRequest) : scan \in next})
               ELSE rest
    /\ Lives /\ UNCHANGED <<scanning, bridge>>

intruding_scan_admitted(ui) == FALSE

(* ManulTriggerError::AutomaticScanConflict                                   *)
conflict(ui) == ui # NoRequest /\ automatic

(* StartScanError of start_pending_payable_scan_guarded, harvest included.    *)
PendingError(ui) ==
    IF ~wallet THEN "NoConsumingWalletFound"
    ELSE IF conflict(ui) \/ (ui # NoRequest /\ ~initial /\ ~aware) THEN "ManualTriggerError"
    ELSE IF ~initial /\ ~aware THEN "NothingToProcess"
    ELSE IF scanning = {Payables, PendingPayables} THEN "unreachable"
    ELSE IF scanning # {} THEN "ScanAlreadyRunning"
    ELSE IF Pending = {} /\ RecheckRequired = {} THEN "NothingToProcess"
    ELSE "none"

(* handle_request_of_scan_for_pending_payable, with the follow-up of its      *)
(* errors; `rest` is the mailbox without the message being handled.           *)
RequestPending(ui, rest) ==
    LET error == PendingError(ui)
        late == error = "NoConsumingWalletFound" /\ ~initial /\ ui = NoRequest
    IN
    /\ initial' = FALSE
    /\ UNCHANGED <<automatic, wallet, aware, tables, service>>
    /\ \/ /\ error = "none"
          /\ scanning' = {PendingPayables}
          /\ bridge' = Put(bridge, [type |-> "RequestTransactionReceipts", ui |-> ui,
                                    sent |-> Pending, failed |-> RecheckRequired])
          /\ mail' = rest /\ Lives /\ UNCHANGED answers
       \/ /\ error = "unreachable" \/ late
          /\ Panics(IF late THEN "wallet" ELSE "unreachable")
          /\ UNCHANGED <<scanning, answers>>
       \/ /\ error \notin {"none", "unreachable"} /\ ~late
          /\ EarlyStop(ui, rest,
                 CASE error = "NothingToProcess" -> {"New"}
                   [] error = "NoConsumingWalletFound" -> {"Pending"}
                   [] OTHER -> {})

(* handle_request_of_scan_for_new_payable. Which debts are old and large      *)
(* enough is a choice; a negative balance does not convert.                   *)
RequestNew(ui, rest) ==
    LET running == wallet /\ ~conflict(ui) /\ Payables \in scanning
        starts == wallet /\ ~conflict(ui) /\ ~running
        negative == \E c \in Creditors : db.owed[c] < 0
    IN
    /\ UNCHANGED <<automatic, wallet, initial, aware, tables, service>>
    /\ \/ /\ starts /\ negative
          /\ Panics("conversion") /\ UNCHANGED <<scanning, answers>>
       \/ /\ starts /\ ~negative
          /\ \E qualified \in SUBSET {c \in Creditors : db.owed[c] > 0} \ {{}} :
                bridge' = Put(bridge, [type |-> "InitialTemplates", scan |-> "New", ui |-> ui,
                    templates |-> {[to |-> c, amount |-> db.owed[c]] : c \in qualified}])
          /\ scanning' = scanning \cup {Payables}
          /\ mail' = rest /\ Lives /\ UNCHANGED answers
       \/ /\ starts => ~negative
          /\ EarlyStop(ui, rest, IF running THEN {} ELSE {"New"})

(* handle_request_of_scan_for_retry_payable: every failure that waits for a   *)
(* retry, with the balance of today. (It follows a scan that needed the       *)
(* wallet, and a wallet once set is never taken away.)                        *)
RequestRetry(ui, rest) ==
    LET negative == \E row \in RetryRequired : db.owed[row.to] < 0
        intruded == Payables \in scanning
    IN
    /\ UNCHANGED <<automatic, wallet, initial, aware, tables, service>>
    /\ \/ /\ ~intruded /\ ~negative
          /\ bridge' = Put(bridge, [type |-> "InitialTemplates", scan |-> "Retry", ui |-> ui,
                templates |-> {[to |-> row.to, amount |-> db.owed[row.to], prev |-> row.hash,
                                prev_nonce |-> row.nonce] : row \in RetryRequired}])
          /\ scanning' = scanning \cup {Payables}
          /\ mail' = rest /\ Lives /\ UNCHANGED answers
       \/ /\ intruded \/ negative
          /\ Panics(IF intruded THEN "unreachable" ELSE "conversion")
          /\ UNCHANGED <<scanning, answers>>

------------------------------------------------------------------------------
(* Messages of the Accountant.                                                *)

InMail(m, type) == up /\ BagIn(m, mail) /\ m.type = type

StartMessage(m) ==
    /\ InMail(m, "StartMessage")
    /\ mail' = IF automatic THEN Put(Take(mail, m), ScanFor("Pending", NoRequest))
               ELSE Take(mail, m)
    /\ UNCHANGED <<control, process, bridge, tables, service, asked, answers>>

ScanForPendingPayables(m) ==
    /\ InMail(m, "ScanFor") /\ m.scan = "Pending"
    /\ RequestPending(m.ui, Take(mail, m))
    /\ UNCHANGED asked

ScanForNewPayables(m) ==
    /\ InMail(m, "ScanFor") /\ m.scan = "New"
    /\ RequestNew(m.ui, Take(mail, m))
    /\ UNCHANGED asked

ScanForRetryPayables(m) ==
    /\ InMail(m, "ScanFor") /\ m.scan = "Retry"
    /\ RequestRetry(m.ui, Take(mail, m))
    /\ UNCHANGED asked

(* handle_externally_triggered_scan: a request of an interface.               *)
UiScanRequest(r) ==
    /\ up /\ r \notin asked
    /\ asked' = asked \cup {r}
    /\ RequestPending(r, mail) \/ RequestNew(r, mail)

(* handle_payable_payment_setup: no adjustment is ever needed.                *)
PricedTemplates(m) ==
    /\ InMail(m, "PricedTemplates")
    /\ mail' = Take(mail, m)
    /\ bridge' = Put(bridge, [m EXCEPT !.type = "OutboundPaymentsInstructions"])
    /\ UNCHANGED <<control, process, tables, service, asked, answers>>

(* The tables are what a handler has made of them, or, if the process ends    *)
(* inside the handler, what its first writes have.                            *)
Write(d) ==
    /\ db' = d
    /\ recorded' = recorded \cup Hashes(d.sent) \cup Hashes(d.failed)
    /\ UNCHANGED accrued

Torn(writes) ==
    /\ crashes < MaxCrashes /\ crashes' = crashes + 1
    /\ \E i \in 1 .. Len(writes) - 1 : writes[i] \notin {db, writes[Len(writes)]} /\ Write(writes[i])
    /\ torn' = TRUE /\ up' = FALSE
    /\ mail' = EmptyBag /\ bridge' = EmptyBag
    /\ UNCHANGED <<control, panic, service, asked, answers>>

(* update_statuses_of_prev_txs: every failure of a receiver that was sent to. *)
prev_statuses(d, txs, reasons, status) ==
    [d EXCEPT !.failed = {IF row.to \in {tx.to : tx \in txs} /\ row.reason \in reasons
                          THEN [row EXCEPT !.status = status] ELSE row : row \in @}]

(* process_message of the payable scanner, write by write.                    *)
payments_writes(m) ==
    LET d1 == [db EXCEPT !.sent = @ \cup m.sent]
        d2 == prev_statuses(d1, m.sent, {"PendingTooLong"}, "RecheckRequired")
    IN  IF m.scan = "New"
        THEN <<d1, [d1 EXCEPT !.failed = @ \cup m.failed]>>
        ELSE <<d1, d2, prev_statuses(d2, m.sent, {"Submission", "Reverted"}, "Concluded")>>

(* determine_next_scan_to_run                                                 *)
next_scan(m) ==
    IF m.sent # {} THEN "Pending"
    ELSE IF m.failed # {} THEN "Retry"
    ELSE IF m.local_error THEN m.scan ELSE "New"

SentPayables(m) ==
    LET writes == payments_writes(m) IN
    /\ InMail(m, "SentPayables")
    /\ \/ /\ Write(writes[Len(writes)])
          /\ scanning' = scanning \ {Payables}
          /\ aware' = (aware \/ next_scan(m) = "Pending")
          /\ Answer(m.ui)
          /\ mail' = IF m.ui = NoRequest
                     THEN Put(Take(mail, m), ScanFor(next_scan(m), NoRequest))
                     ELSE Take(mail, m)
          /\ UNCHANGED <<automatic, wallet, initial, process, bridge, service, asked>>
       \/ Torn(writes)

(* acknowledge_scan_error and the restoring of the scan train.                *)
ScanError(m) ==
    /\ InMail(m, "ScanError")
    /\ scanning' = scanning \ {IF m.scan = "Pending" THEN PendingPayables ELSE Payables}
    /\ Answer(m.ui)
    /\ mail' = IF m.ui = NoRequest THEN Put(Take(mail, m), ScanFor(m.scan, NoRequest))
               ELSE Take(mail, m)
    /\ UNCHANGED <<automatic, wallet, initial, aware, process, bridge, tables, service, asked>>

(* compose_receipt_scan_report: what the receipts m say of the rows harvested. *)
Rows(m, table, outcome) == {row \in DOMAIN m[table] : m[table][row] = outcome}

report(m) ==
    [reclaims |-> {SentRow(row, "Reclaim") : row \in Rows(m, "failed", "Succeeded")},
     confirmed |-> Rows(m, "sent", "Succeeded"),
     failures |-> {FailedRow(row, "Reverted") : row \in Rows(m, "sent", "Reverted")}
             \cup {FailedRow(row, "PendingTooLong") : row \in Rows(m, "sent", "Pending")},
     concluded |-> Rows(m, "failed", "Reverted"),
     unsure |-> Rows(m, "sent", "Error"),
     unsure_failed |-> Rows(m, "failed", "Error") \cup Rows(m, "failed", "Pending")]

(* handle_tx_failure_reclaims: the rows with the nonces of the reclaimed      *)
(* transactions become these transactions; hashes are unique in the table.    *)
replace_records(d, reclaims) ==
    LET hit == {row \in d.sent : row.nonce \in Nonces(reclaims)} IN
    IF Cardinality(hit) > Cardinality(Nonces(hit)) THEN d
    ELSE [d EXCEPT !.sent = (@ \ hit) \cup {tx \in reclaims : tx.nonce \in Nonces(hit)}]

clear_balance(d, confirmed) ==
    [d EXCEPT !.owed = [c \in Creditors |->
        IF \E row \in confirmed : row.to = c THEN 0 ELSE @[c]]]

(* transactions_confirmed *)
pay_off(d, confirmed) ==
    [d EXCEPT !.owed = [c \in Creditors |->
        @[c] - Amount({row \in confirmed : row.to = c})]]

(* One statement per transaction in the code.  A cut between two of them      *)
(* leaves what a cut before the first does: a debt that is reduced again.     *)
confirm_txs(d, confirmed) ==
    [d EXCEPT !.sent = {IF row.hash \in Hashes(confirmed)
                        THEN [row EXCEPT !.status = "Normal"] ELSE row : row \in @}]

insert_duplicates(d, rows) == [d EXCEPT !.failed = @ \cup rows]

insert_failed(d, rows) ==
    IF Hashes(rows) \cap Hashes(d.failed) # {} THEN d ELSE [d EXCEPT !.failed = @ \cup rows]

delete_sent(d, rows) == [d EXCEPT !.sent = {row \in @ : row.hash \notin Hashes(rows)}]

delete_failed(d, rows) == [d EXCEPT !.failed = {row \in @ : row.hash \notin Hashes(rows)}]

conclude(d, rows) ==
    [d EXCEPT !.failed = {IF row.hash \in Hashes(rows)
                          THEN [row EXCEPT !.status = "Concluded"] ELSE row : row \in @}]

(* process_txs_by_state: the writes in their order, up to the first that      *)
(* reports an error, which panics.                                            *)
receipts_writes(r) ==
    LET d1 == replace_records(db, r.reclaims)
        d2 == delete_failed(d1, r.reclaims)
        d3 == pay_off(d2, r.confirmed)
        d4 == confirm_txs(d3, r.confirmed)
        d5 == insert_failed(d4, r.failures)
        d6 == delete_sent(d5, r.failures)
        d7 == conclude(d6, r.concluded)
    IN <<d1, d2, d3, d4, d5, d6, d7>>

(* The number of writes up to and including the one that fails; 8: none does. *)
first_error(r, writes) ==
    LET replaced == {row \in db.sent : row.nonce \in Nonces(r.reclaims)} IN
    Min({8} \cup {i \in {1} : \/ Cardinality(replaced) # Cardinality(r.reclaims)
                              \/ Cardinality(replaced) > Cardinality(Nonces(replaced))}
            \cup {i \in {5} : Hashes(r.failures) \cap Hashes(writes[4].failed) # {}}
            \cup {i \in {6} : ~(Hashes(r.failures) \subseteq Hashes(writes[5].sent))}
            \cup {i \in {7} : ~(Hashes(r.unsure) \subseteq Hashes(writes[7].sent))})

(* requires_payments_retry *)
retry_needed(r) ==
    IF r.failures \cup r.concluded # {} THEN "Retry"
    ELSE IF r.unsure \cup r.unsure_failed # {} \/ r.reclaims \cup r.confirmed = {} THEN "Pending"
    ELSE "New"

(* handle_still_pending_tx: a failure that is pending again must have been    *)
(* replaced.                                                                  *)
unreplaced(m) ==
    {row \in Rows(m, "failed", "Pending") : row.nonce \notin Nonces(db.sent)}

TxReceiptsMessage(m) ==
    /\ InMail(m, "TxReceipts")
    /\ \/ /\ unreplaced(m) # {}
          /\ Panics("replacement")
          /\ UNCHANGED <<control, tables, service, asked, answers>>
       \/ /\ unreplaced(m) = {}
          /\ \E r \in {report(m)} : \E writes \in {receipts_writes(r)} :
             LET failing == first_error(r, writes)
                 next == retry_needed(r)
             IN
             \/ /\ failing <= 7
                /\ Write(writes[failing])
                /\ Panics(IF r.reclaims # {} THEN "reclaim" ELSE "database")
                /\ UNCHANGED <<control, service, asked, answers>>
             \/ /\ failing = 8
                /\ Write(writes[7])
                /\ scanning' = scanning \ {PendingPayables}
                /\ IF m.ui = NoRequest \/ next = "Retry"
                   THEN mail' = Put(Take(mail, m), ScanFor(next, m.ui)) /\ UNCHANGED answers
                   ELSE mail' = Take(mail, m) /\ Answer(m.ui)
                /\ UNCHANGED <<automatic, wallet, initial, aware, process, bridge, service, asked>>
             \/ Torn(SubSeq(writes, 1, Min({7, failing})))

------------------------------------------------------------------------------
(* The Blockchain bridge and the blockchain service. Every call may fail.     *)

AtBridge(m, type) == up /\ BagIn(m, bridge) /\ m.type = type

Fault == faults < MaxFaults /\ faults' = faults + 1

Reply(m, reply) ==
    /\ bridge' = Take(bridge, m) /\ mail' = Put(mail, reply)
    /\ UNCHANGED <<control, process, tables, asked, answers>>

(* handle_scan_future *)
scan_failed(m, scan) ==
    Reply(m, [type |-> "ScanError", scan |-> scan, ui |-> m.ui])

failed_call_never_resolves(m) ==
    /\ AtBridge(m, "InitialTemplates") /\ faults = 0
    /\ UNCHANGED <<chain, hashes>>
    /\ \/ Reply(m, [m EXCEPT !.type = "PricedTemplates"]) /\ UNCHANGED faults
       \/ Fault /\ UNCHANGED <<control, process, mail, bridge, tables, asked, answers>>

(* handle_initial_templates_msg: the blockchain agent needs prices and balances. *)
InitialTemplates(m) ==
    /\ AtBridge(m, "InitialTemplates")
    /\ UNCHANGED <<chain, hashes>>
    /\ \/ Reply(m, [m EXCEPT !.type = "PricedTemplates"]) /\ UNCHANGED faults
       \/ Fault /\ scan_failed(m, m.scan)

(* Signing: consecutive nonces from the number of mined transactions on; a    *)
(* retry goes by the former nonces, rotated to start at the latest.           *)
rank(t, templates, latest) ==
    IF t.prev_nonce < latest /\ \E u \in templates : u.prev_nonce = latest
    THEN t.prev_nonce + MaxTx ELSE t.prev_nonce

orders(m, latest) ==
    LET n == Cardinality(m.templates) IN
    {order \in [m.templates -> 0 .. n - 1] :
        \A t, u \in m.templates : t # u =>
            /\ order[t] # order[u]
            /\ m.scan = "Retry" /\ rank(t, m.templates, latest) < rank(u, m.templates, latest)
               => order[t] < order[u]}

(* submit_payables_in_batch: the service takes some of the transactions, or   *)
(* its answer is lost, and all of them count as failed.                       *)
submit_payables_in_batch(m) ==
    LET latest == Cardinality(chain.mined)
        n == Cardinality(m.templates)
        result(sent, failed, local_error) ==
            [type |-> "SentPayables", scan |-> m.scan, ui |-> m.ui, local_error |-> local_error,
             sent |-> {SentRow(tx, "Pending") : tx \in sent},
             failed |-> {FailedRow(tx, "Submission") : tx \in failed}]
    IN
    /\ AtBridge(m, "OutboundPaymentsInstructions")
    /\ \/ /\ hashes + n <= MaxTx
          /\ hashes' = hashes + n
          /\ \E order \in orders(m, latest) :
             LET txs == {[hash |-> hashes + order[t], to |-> t.to, amount |-> t.amount,
                          nonce |-> latest + order[t]] : t \in m.templates}
             IN  \E taken \in SUBSET txs : \E sent \in {taken, {}} :
                    /\ chain' = [chain EXCEPT !.pool = @ \cup taken]
                    /\ IF sent = txs THEN UNCHANGED faults ELSE Fault
                    /\ Reply(m, result(sent, txs \ sent, FALSE))
       \/ /\ IF hashes + n > MaxTx THEN UNCHANGED faults ELSE Fault
          /\ Reply(m, result({}, {}, TRUE))
          /\ UNCHANGED <<chain, hashes>>

(* process_transaction_receipts: no receipt means pending.                    *)
outcome(row) ==
    LET found == {tx \in chain.mined : tx.hash = row.hash} IN
    IF found = {} THEN "Pending"
    ELSE IF \E tx \in found : tx.ok THEN "Succeeded" ELSE "Reverted"

process_transaction_receipts(m) ==
    /\ AtBridge(m, "RequestTransactionReceipts")
    /\ UNCHANGED <<chain, hashes>>
    /\ \/ \E lost \in SUBSET Hashes(m.sent \cup m.failed) :
             /\ IF lost = {} THEN UNCHANGED faults ELSE Fault
             /\ LET answer(row) == IF row.hash \in lost THEN "Error" ELSE outcome(row) IN
                Reply(m, [type |-> "TxReceipts", ui |-> m.ui,
                          sent |-> [row \in m.sent |-> answer(row)],
                          failed |-> [row \in m.failed |-> answer(row)]])
       \/ Fault /\ scan_failed(m, "Pending")

(* A miner includes one of the transactions with the next nonce; a transfer   *)
(* may revert.                                                                *)
Mine(tx, ok) ==
    /\ tx.nonce = Cardinality(chain.mined)
    /\ chain' = [pool |-> {other \in chain.pool : other.nonce # tx.nonce},
                 mined |-> chain.mined \cup {[hash |-> tx.hash, to |-> tx.to,
                     amount |-> tx.amount, nonce |-> tx.nonce, ok |-> ok]}]
    /\ IF ok THEN UNCHANGED faults ELSE Fault
    /\ UNCHANGED <<control, process, mail, bridge, tables, hashes, asked, answers>>

------------------------------------------------------------------------------
(* record_service_consumed: more_money_payable                                *)
ServiceConsumed(c) ==
    /\ up /\ accrued[c] < MaxDebt[c]
    /\ accrued' = [accrued EXCEPT ![c] = @ + 1]
    /\ db' = [db EXCEPT !.owed[c] = @ + 1]
    /\ UNCHANGED <<control, process, mail, bridge, recorded, service, asked, answers>>

(* handle_config_change_msg: a consuming wallet is set, never removed.        *)
ConfigChange ==
    /\ up /\ ~wallet /\ wallet' = TRUE
    /\ UNCHANGED <<automatic, initial, aware, scanning, process, mail, bridge, tables, service,
                   asked, answers>>

(* The process ends between two handlers.                                     *)
Crash ==
    /\ up /\ crashes < MaxCrashes /\ crashes' = crashes + 1
    /\ up' = FALSE /\ mail' = EmptyBag /\ bridge' = EmptyBag
    /\ UNCHANGED <<control, panic, torn, tables, service, asked, answers>>

(* The next run of the Node: Scanners::new and StartMessage. The connections  *)
(* of the interfaces are new, too.                                            *)
Restart ==
    /\ ~up /\ up' = TRUE /\ panic' = "none"
    /\ initial' = TRUE /\ aware' = FALSE /\ scanning' = {}
    /\ mail' = SetToBag({[type |-> "StartMessage"]})
    /\ asked' = {r \in asked : answers[r] > 0}
    /\ UNCHANGED <<automatic, wallet, crashes, torn, bridge, tables, service, answers>>

AccountantStep ==
    \E m \in BagToSet(mail) :
        \/ StartMessage(m) \/ ScanForPendingPayables(m) \/ ScanForNewPayables(m)
        \/ ScanForRetryPayables(m) \/ PricedTemplates(m) \/ SentPayables(m)
        \/ TxReceiptsMessage(m) \/ ScanError(m)

BridgeStep ==
    \E m \in BagToSet(bridge) :
        \/ InitialTemplates(m) \/ submit_payables_in_batch(m)
        \/ process_transaction_receipts(m)

Next ==
    \/ AccountantStep \/ BridgeStep
    \/ \E r \in Requests : UiScanRequest(r)
    \/ \E tx \in chain.pool, ok \in BOOLEAN : Mine(tx, ok)
    \/ \E c \in Creditors : ServiceConsumed(c)
    \/ ConfigChange \/ Crash \/ Restart

Spec == Init /\ [][Next]_vars

(* Actors and the bridge's futures run what is ready; timers expire.          *)
Fairness == WF_vars(AccountantStep) /\ WF_vars(BridgeStep)
FairSpec == Spec /\ Fairness

------------------------------------------------------------------------------
Tx == [hash : Nat, to : Creditors, amount : Int, nonce : Nat]

(* Every variable has its type, and a hash identifies a row of either table.  *)
TypeOK ==
    /\ automatic \in BOOLEAN /\ wallet \in BOOLEAN /\ up \in BOOLEAN /\ torn \in BOOLEAN
    /\ initial \in BOOLEAN /\ aware \in BOOLEAN
    /\ panic \in {"none", "unreachable", "wallet", "conversion", "replacement", "reclaim",
                  "database"}
    /\ scanning \subseteq {Payables, PendingPayables}
    /\ IsABag(mail) /\ IsABag(bridge)
    /\ \A table \in {db.sent, db.failed} : Cardinality(Hashes(table)) = Cardinality(table)
    /\ db.owed \in [Creditors -> Int]
    /\ \A row \in db.sent : row.status \in {"Pending", "Normal", "Reclaim"}
    /\ \A row \in db.failed : /\ row.status \in {"RetryRequired", "RecheckRequired", "Concluded"}
                              /\ row.reason \in {"Submission", "Reverted", "PendingTooLong"}
    /\ chain.pool \subseteq Tx
    /\ hashes \in 0 .. MaxTx /\ faults \in 0 .. MaxFaults /\ crashes \in 0 .. MaxCrashes
    /\ asked \subseteq Requests /\ answers \in [Requests -> Nat]
    /\ accrued \in [Creditors -> Nat] /\ recorded \subseteq 0 .. MaxTx

(* The scanner that a message of the scan train belongs to.                   *)
Owner(m) ==
    IF m.type \in {"StartMessage", "ScanFor"} THEN {}
    ELSE IF m.type \in {"RequestTransactionReceipts", "TxReceipts"} THEN {PendingPayables}
    ELSE IF m.type = "ScanError" /\ m.scan = "Pending" THEN {PendingPayables}
    ELSE {Payables}

(* The messages on their way that carry the response skeleton of r.           *)
Carriers(r) ==
    LET carrying(bag) == MapThenSumSet(LAMBDA m : IF m.ui = r THEN CopiesIn(m, bag) ELSE 0,
                             {m \in BagToSet(bag) : m.type # "StartMessage"})
    IN carrying(mail) + carrying(bridge)

(* With --scans on there is exactly one scan train: one message, timer or     *)
(* request that will lead to the next scan, whatever interfaces ask for and   *)
(* whichever call fails; and the scanner marked as running is the one the     *)
(* train is at. So payable scanners never overlap, none is left marked, and   *)
(* the overlaps the code marks unreachable!() are not reached.  (Another      *)
(* unreachable!() is: without a consuming wallet the first pending scan is    *)
(* followed by a second, which panics, resolve_pending_payables.)  A scan     *)
(* request is answered once: either it has its answer, or exactly one message *)
(* on its way carries it, through up to five handlers and two actors.         *)
OneScanTrain ==
    /\ automatic =>
        /\ up => /\ BagCardinality(mail) + BagCardinality(bridge) = 1
                 /\ \A m \in BagToSet(mail) \cup BagToSet(bridge) : scanning = Owner(m)
        /\ panic # "unreachable"
    /\ up => \A r \in Requests : answers[r] + Carriers(r) = (IF r \in asked THEN 1 ELSE 0)

(* A payment that was ever written to a table and is mined stays in a table,  *)
(* even if the process ends between the writes that move it, and one that is  *)
(* stored as confirmed, the usual way or by a reclaim, was mined.  Unless a   *)
(* handler was cut between two writes, the debt paid off is exactly the sum   *)
(* of the payments confirmed the usual way (transactions_confirmed).  Those   *)
(* reclaimed are not in it: handle_tx_failure_reclaims stores a payment that  *)
(* was given up and then mined as confirmed, and leaves its debt as it was.   *)
LedgerIsExact ==
    /\ Hashes(chain.mined) \cap recorded \subseteq Hashes(db.sent) \cup Hashes(db.failed)
    /\ \A row \in db.sent : row.status # "Pending" => outcome(row) = "Succeeded"
    /\ ~torn => \A c \in Creditors :
          accrued[c] - db.owed[c] = Amount({row \in db.sent : row.to = c /\ row.status = "Normal"})

(* Every scan ends, unless the Accountant ends before (a panic included):     *)
(* with --scans on a scan is always due again, and every scan request is      *)
(* answered.                                                                  *)
ScansEnd ==
    /\ []<>(automatic => ~up \/ \E m \in BagToSet(mail) : m.type = "ScanFor")
    /\ \A r \in Requests : r \in asked ~> answers[r] = 1 \/ ~up

(* Accountant's comment on ScanForNewPayables: new payables are scanned for   *)
(* when the pending-payable scanner has seen every pending payable complete.  *)
NewWaitsForPending ==
    automatic /\ (\E m \in BagToSet(bridge) : m.type = "InitialTemplates" /\ m.scan = "New")
        => Pending = {}
==============================================================================
