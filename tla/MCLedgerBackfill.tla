-------------------------- MODULE MCLedgerBackfill --------------------------
(* Instances of LedgerBackfill, and with it of InvoiceLifecycle and         *)
(* PaymentRecords, for TLC: the configurations number the invoices and      *)
(* payments, since ids tell which is older.                                 *)
EXTENDS LedgerBackfill
=============================================================================
