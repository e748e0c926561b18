---------------------- MODULE PaymentSummaryProjector ----------------------
(***************************************************************************)
(* The CQRS read model (src/workers/PaymentSummaryProjector.ts): what each *)
(* subscribed event does to a day's row of payment_summary.  The rows of   *)
(* different dates never meet in a statement, so one date is modelled; the *)
(* money columns are sums over the same events as the counters beside      *)
(* them, so the counters stand for both.                                   *)
(***************************************************************************)
EXTENDS Naturals

SummaryRow == [exists : BOOLEAN, totalTransactions : Nat,
               successfulTransactions : Nat, failedTransactions : Nat, refundCount : Nat]

NoSummary == [exists |-> FALSE, totalTransactions |-> 0,
              successfulTransactions |-> 0, failedTransactions |-> 0, refundCount |-> 0]

(* INSERT ... ON DUPLICATE KEY UPDATE: the INSERT leaves the columns it    *)
(* does not name at their default, 0.                                      *)
OnPaymentCompleted(row) ==
    [row EXCEPT !.exists = TRUE,
                !.totalTransactions = row.totalTransactions + 1,
                !.successfulTransactions = row.successfulTransactions + 1]

(* A bug: REPLACE INTO payment_summary.                                    *)
MutReplaceRow(row) ==
    [NoSummary EXCEPT !.exists = TRUE, !.refundCount = row.refundCount + 1]

OnPaymentRefunded(row) ==
    [row EXCEPT !.exists = TRUE, !.refundCount = row.refundCount + 1]

(* A bug: the UPDATE branch forgets the total.                             *)
MutFailureNotInTotal(row) ==
    [row EXCEPT !.exists = TRUE, !.failedTransactions = row.failedTransactions + 1]

(* Only the UPDATE branch counts the failure as a transaction.             *)
OnPaymentFailed(row) ==
    [row EXCEPT !.exists = TRUE,
                !.totalTransactions = IF row.exists THEN row.totalTransactions + 1 ELSE 0,
                !.failedTransactions = row.failedTransactions + 1]

(* A bug: register() run twice, every handler subscribed twice. *)
MutRegisteredTwice(row, type) ==
    IF type = "PAYMENT_COMPLETED" THEN OnPaymentCompleted(OnPaymentCompleted(row)) ELSE row

(* The handlers register() subscribes; no other event changes the table.   *)
Project(row, type) ==
    CASE type = "PAYMENT_COMPLETED" -> OnPaymentCompleted(row)
      [] type = "PAYMENT_REFUNDED"  -> OnPaymentRefunded(row)
      [] type = "PAYMENT_FAILED"    -> OnPaymentFailed(row)
      [] OTHER                      -> row

(* The column of the row that counts events of a type. *)
Counted(row, type) ==
    CASE type = "PAYMENT_COMPLETED" -> row.successfulTransactions
      [] type = "PAYMENT_REFUNDED"  -> row.refundCount
      [] type = "PAYMENT_FAILED"    -> row.failedTransactions

ProjectedType == {"PAYMENT_COMPLETED", "PAYMENT_REFUNDED", "PAYMENT_FAILED"}
=============================================================================
