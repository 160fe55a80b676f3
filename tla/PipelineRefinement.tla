------------------------- MODULE PipelineRefinement -------------------------
(***************************************************************************)
(* The pipeline implements FilingService: the status is the one stored in  *)
(* tax_sessions, the ledger the invoices table, the filing the ledger      *)
(* behind the last FILING_READY frame.                                     *)
(***************************************************************************)
EXTENDS Pipeline

Returnable(led) == ~Overflows(led)

Service == INSTANCE FilingService
    WITH status <- dbStatus, ledger <- rows, Verdict <- Assessed

\* Every step of the pipeline is a step of the service or does not concern it,
\* through concurrent calls and crashes between any two statements: invoices are
\* appended, the status follows the newest of them, a filing takes all of them,
\* and a filed session is not abandoned.
ImplementsService == Service!SSpec
=============================================================================
