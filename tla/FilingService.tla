--------------------------- MODULE FilingService ---------------------------
(***************************************************************************)
(* What the pipeline promises its callers, without threads, memory, chat   *)
(* or crashes: a session has a status, a ledger of accepted invoices in    *)
(* ingestion order, and the last filing generated from that ledger.        *)
(* Pipeline implements it (PipelineRefinement) as long as no SQLite        *)
(* statement fails.                                                        *)
(***************************************************************************)
EXTENDS Integers, Sequences

CONSTANTS
    Sessions,
    Doc,              \* invoices
    Verdict(_),       \* the status that an invoice puts its session in
    Returnable(_)     \* the returns can be generated from this ledger

VARIABLES status, ledger, filing
service == <<status, ledger, filing>>

Opened(s) == status[s] # "NONE"

SInit ==
    /\ status = [s \in Sessions |-> "NONE"]
    /\ ledger = [s \in Sessions |-> <<>>]
    /\ filing = [s \in Sessions |-> <<>>]

\* a new session is ACTIVE and empty
SOpen(s) ==
    /\ ~Opened(s)
    /\ status' = [status EXCEPT ![s] = "ACTIVE"]
    /\ UNCHANGED <<ledger, filing>>

\* an invoice is added at the end, and nothing else happens to a ledger
Accept(s) ==
    /\ Opened(s)
    /\ \E d \in Doc : ledger' = [ledger EXCEPT ![s] = Append(@, d)]
    /\ UNCHANGED <<status, filing>>

\* the status becomes the verdict on the newest invoice
Assess(s) ==
    /\ ledger[s] # <<>>
    /\ status' = [status EXCEPT ![s] = Verdict(ledger[s][Len(ledger[s])])]
    /\ UNCHANGED <<ledger, filing>>

\* all of the ledger is filed, or nothing
FileReturns(s) ==
    /\ ledger[s] # <<>> /\ Returnable(ledger[s])
    /\ status' = [status EXCEPT ![s] = "FILED"]
    /\ filing' = [filing EXCEPT ![s] = ledger[s]]
    /\ UNCHANGED ledger

\* a session that is filed is not abandoned
Abandon(s) ==
    /\ Opened(s) /\ status[s] # "FILED"
    /\ status' = [status EXCEPT ![s] = "ABANDONED"]
    /\ UNCHANGED <<ledger, filing>>

SNext == \E s \in Sessions :
    SOpen(s) \/ Accept(s) \/ Assess(s) \/ FileReturns(s) \/ Abandon(s)

SSpec == SInit /\ [][SNext]_service
=============================================================================
