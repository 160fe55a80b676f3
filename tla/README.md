# Verification of the MSME tax-compliance backend

TLA+ models, TLC runs and TLAPS proofs for the backend under `src/backend`. The
backend reads invoices over a WebSocket, has them extracted and assessed against
the rules of `src/config/rules_2026.json`, and files GSTR-1 and GSTR-3B from the
invoices a session has accepted. The questions asked here are:

1. **Is what is filed the invoices that were accepted?** With several threads,
   crashes between any two SQL statements, and statements that fail (`Pipeline`).
2. **Is what is filed right?** The verdict on an invoice (`Compliance`) and the
   arithmetic of the returns (`Returns`, `TaxMath`).
3. **What reaches the pipeline?** Which session a socket may touch and for how long
   (`Gateway`, composed with `Pipeline`), and which documents pass the schema walk and
   the sanitizer, within which time (`Extraction`).

## 1. Inventory

| Component | State it keeps | Operations | What makes it correct |
|---|---|---|---|
| Session pipeline, `Pipeline.cpp` | `sessions_`: per session a status and a ledger of accepted invoices; one mutex | `openSession`, `closeSession`, `processUpload`, `processUserReply`, `requestFiling` (`statusOf` reads) | memory and database tell the same story; a filing holds each accepted invoice once, in order; a filed session stays filed |
| Invoice repository, `InvoiceRepository.cpp` | SQLite: `tax_sessions`, `invoices`, `line_items`, `chat_messages` | `createSession`, `setSessionStatus`, `saveExtraction`, `addChatMessage`, `invoicesForSession` | lossless rehydration; references hold; an acknowledged upload is stored whole |
| Rule engine, `RuleEngine.cpp`, and rules, `rules_2026.json` | none after start | `evaluate` over a document | no gap missed, none fabricated; derived facts win over claimed ones |
| Statutory arithmetic, `StateMatrix.cpp` | none | `taxOn`, `computeTaxSplit`, `validateAndSanitize`, `validateAgainstSchema` | no overflow of `Cents`; rounding half up, head by head |
| Return generator, `GSTRGenerator.cpp` | none | `gstr1B2B`, `gstr1HsnSummary`, `gstr3B` | the three files reconcile |
| WebSocket gateway, `main.cpp` | per socket, the session it is bound to; Crow's connection object | `onopen`, `onmessage`, `onclose` | a session is one socket's own, none is left without one, an ended socket is closed and its session with it |
| Gemini extractor, `GeminiClient.cpp`; transports `CurlHttpClient.cpp`, `WinHttpClient.cpp`; `MockExtractor.cpp` | none | `extractFromBuffer`, one blocking POST | a document in the contract or an error, before the deadline |
| Crow, Asio, nlohmann::json, SQLite | vendored | | assumed |

**How they interact.** A socket's `onopen` calls `openSession`; each message is an
upload, a reply or a filing request and calls the method of that name; `onclose`
calls `closeSession`. `processUpload` calls the extractor (a network call of up to
60 s, with the mutex held), then `validateAgainstSchema`/`validateAndSanitize`, then
the rule engine, then appends to the memory ledger, then calls `saveExtraction`,
`addChatMessage` once per chat frame, and `setSessionStatus`. `requestFiling` takes
the memory ledger, or rehydrates it from the database when it is empty, and calls
the three generators. Below the gateway everything is a synchronous call
behind the one mutex. The gateway itself is callbacks: Crow calls the three handlers
from the worker thread of the socket, reads again when a handler has returned, writes
from a queue, and deletes the connection when nothing refers to it any more.

**What is hard here.**

- *Two ledgers.* The memory ledger and the `invoices` table are extended at
  different moments (`Pipeline.cpp:223` and `:224`), and filing picks one of them.
- *No transactions.* `saveExtraction` and the methods around it issue statements
  that commit one by one. A crash or a failing statement can fall between any two.
- *Cold start.* A session that is only in the database is adopted as ACTIVE with an
  empty ledger, whatever its stored status (`Pipeline.cpp:288-297`).
- *Errors taken for ends.* A failing read ends the rehydration loop exactly like the
  last row does (`InvoiceRepository.cpp:348`).
- *One mutex over a network call.* A method that does not return stops all sessions; all
  that bounds it is the timeout of the transport.
- *Conditions over JSON that may lack anything.* What "absent" means decides whether
  a gap is seen.
- *A socket ends in several ways.* A close frame, a failed read, a failed write and a
  last write each call the close handler or skip it, while messages may still be on
  their way and `closeSession` may throw.
- *Two checks of one document.* The generic schema walk and the hand-written sanitizer
  each rely on what the other has seen.
- *Money in integers.* Per-line rounding in three places, halved rates, guarded 64-bit
  products and unguarded 64-bit sums.

The complete list, each at its line and with the properties that cover it, is
`hazards` in `PROJECT.json`.

## 2. Modules

| Module | What it is |
|---|---|
| `Pipeline` | `Pipeline.cpp` driving `InvoiceRepository.cpp` |
| `MCPipeline` | symmetry of threads and sessions for TLC |
| `FilingService` | abstract: what the pipeline promises, with no threads, memory or chat |
| `PipelineRefinement`, `MCPipelineRefinement` | the mapping from `Pipeline` to `FilingService` |
| `Gateway` | `main.cpp` and the life of a Crow connection, on top of `Pipeline` |
| `Extraction`, `MCExtraction` | `extractFromBuffer`, its transports, the schema walk and the sanitizer; the documents |
| `RuleEngine` | the evaluator of the condition DSL |
| `Compliance`, `MCCompliance` | the seven rules, evaluated in order, and the resulting status; the documents |
| `TaxMath` | `taxOn` and `computeTaxSplit` |
| `Returns`, `MCReturns` | the three files generated from a ledger; the ledgers |
| `PipelineProofs`, `DurabilityProofs`, `RefinementProofs` | theorems about `Pipeline`: types, references and ledgers; what survives failures; the refinement |
| `GatewayProofs`, `ExtractionProofs`, `ComplianceProofs` | theorems about the module of that name |
| `ReturnsProofs` | theorems about `TaxMath` and `Returns` |
| `InductionLemmas` | induction over numbers and finite sets, and what sums over finite sets obey |

`Gateway` EXTENDS `Pipeline` and runs its actions under the handlers, so a step of the
one is a step of the other. `Extraction` refines the choice that `Pipeline` makes in
`UploadRefused` and `UploadAccepted`, `Compliance` the choice of an invoice's `kind`,
and `Returns` what `TakeLedger` makes of a ledger.

Definitions whose comment starts with `mutant:` belong to no specification. Each is
a plausible bug in the definition that follows it, and shows that the property it is
paired with in `PROJECT.json` would notice.

### Pipeline

| Variable | Code |
|---|---|
| `live`, `memStatus`, `memLedger` | the keys of `sessions_`, `SessionState::status`, `SessionState::invoices` |
| `dbStatus`, `rows`, `lineRows`, `chat` | the four tables |
| `mutex`, `pc`, `sess`, `doc`, `frames` | `mutex_`, and each thread's place and local variables |
| `uploads` | number of accepted invoices; the bound, and the source of identities |
| `acked`, `filing` | history: uploads whose frames were returned; the ledger behind the last FILING_READY |
| `faults`, `crashes` | counters of the two environment actions |

An action runs a method up to and including its next SQL statement, as everything
between two statements happens under the mutex and leaves no trace if the process
dies. `processUpload` is `UploadAccepted` (extract, validate, evaluate, append to
memory), `SaveInvoice`, `SaveLine` per line item, `ArchiveFrame` per chat frame,
`UploadDone`; `requestFiling` is `FileAdopt` or `FileFound`, `Gather`, `FileChat`,
`FileDone`; early returns are `Unknown`, `UploadRefused`, `CloseNothing`,
`FileUnknown`, and the empty or overflowing ledger in `TakeLedger`.

- `StatementFails` lets any statement fail: the method throws, memory keeps what was
  assigned before, the tables keep what was committed. `sessionExists` answers an
  error with "no", which has the same effect.
- `RehydrationStops` is the failing read: some proper prefix of the rows is taken for
  the whole ledger.
- `Crash` drops memory and threads and keeps the tables.

Abstractions and why they are safe:

- `addChatMessage` and `saveExtraction` begin with a `createSession` of their own.
  It is one step with the INSERT that follows, because it changes nothing when the
  session has its row. That it always has is the invariant `ReferencesHold`, proved
  without any bound.
- The transcript is a set: no property asks for the order or the number of equal
  messages. A message is what it announces and about which invoice.
- An invoice is its identity, its number of lines, and which of three things it turns
  out to be: `clean`, `gaps` (a rule is violated) or `overflow` (the rules pass, and
  `taxOn` throws when the returns are generated). Which document is which is the
  business of `Compliance` and `Returns`.
- `uuid4` never repeats an id (`Fresh`).
- Crow runs one worker thread by default (its `concurrency` of 2 counts the acceptor).
  Threads are modelled all the same, since `Pipeline.hpp:28-29` promises that the
  public methods may be called from any of them. Likewise any method may be called for
  any session, which is what `src/tests` does to drive the cold start; `Gateway` is the
  caller that the program has.

### FilingService

A session has a status, a ledger and a last filing; an invoice is appended, the status
follows the newest invoice, a filing takes the whole ledger, and a filed session is
not abandoned. `PipelineRefinement` maps these to `dbStatus`, `rows` and `filing`.

### Gateway

| Variable | Code |
|---|---|
| `conn`, `worker` | the connection object and the `io_context` that runs its handlers |
| `peer`, `pending` | the client, and its messages that the server has not read |
| `reading`, `posted`, `writing` | `is_reading`; frames waiting in `write_buffers_`; `sending_buffers_` in flight |
| `closing`, `called` | `close_connection_`, `is_close_handler_called_` |
| `userdata` | the heap string with the session id |
| `job`, `outcome` | the handler a thread runs, for which socket and session; whether the method it called threw, or made a frame that cannot be serialized |

A handler is three kinds of steps: one that starts it and makes the call (`Accept`,
`ReadMessage`, `ReadCloseFrame`, `CheckDestroy`), the steps of the method (`Method`, an
`Acquire` or `Handler` of `Pipeline`), and one that does the rest (`OpenReturns`,
`MessageReturns`, `CloseFrameReturns`, `DestroyReturns`). `ReadRefused` is a message
that is answered without a call. `CheckDestroy` is Crow's `check_destroy`, which calls
the close handler unless a close frame has, and then deletes the connection unless a
read or a write still refers to it; it may run more than once for a connection, and
what `onclose` finds in `userdata` decides whether it calls `closeSession` again.

- What a client does while a handler of its socket runs is a step after the handler
  (`Quiet`): the server looks at the socket only between handlers.
- A frame is `fine` or, where it quotes text from outside, perhaps `broken`: cut in the
  middle of a multi-byte character, so that `dump()` throws. `Replies` says which the
  run allows; `gateway` looks at the program without, `gateway_broken` with it.
- `GCrash` is also SIGINT, which stops the server without `onclose`.

Crow is vendored; the members above are modelled from `crow/websocket.h` as far as the
handlers depend on them, and the rows of the map say so.

### Extraction

A JSON value is a record with its type; a number is its range (negative, zero,
positive, too large) and a string is told apart only where it is enumerated. A schema
is a tree of nodes translated from `gemini_schema.json`, with its one peculiarity: the
`$item` of `line_items` has no `$type`. `Conforms` is the generic walk, breadth first
and down to the depth of the schema; `AllReads` lists every read of the sanitizer in its
order, section by section (`SupplierReads` to `IrpReads`), with how it is made (`json::at`,
looked up before, optional), and `Sanitized` finds the first that fails and what it throws.
`InContract` states the same contract path by path, independently of both, and
`AcceptedInContract` compares. `Values` is a set of JSON values that holds what is inside
them, and `Documents` the objects among them that the text of an answer may be. `++` joins
the members of two objects; it is the `@@` of module TLC, which the prover cannot see into.

The request has the five phases of the transports. With curl, one deadline is set for
all of them; with WinHTTP, each phase and each read of the body has its own (`Renewed`).
Time counts in ticks of that deadline. The mock extractor starts at the sanitizer, with
the default document.

### RuleEngine and Compliance

A document maps the dotted paths the rules read to JSON scalars, each with its type or
absent, and `Sanitized` says which documents the sanitizer lets through to the rules.
`LeafFires`, `Combines` and `Fires` are `evalCheck` (which descends to any depth; here
to two levels of groups, which is as deep as the configuration nests them), `Fact` is
`resolveFact` with the flags that `validateAndSanitize` derives, `Literal` resolves a
`source` against the thresholds, `EvalRule` applies `when` and the condition. The operators
are the ones that the configuration uses. Message templates and path syntax are left out.
The rules are translated from `rules_2026.json` one by one, with the e-invoicing threshold as
a parameter (`AatoLimit`).

Amounts are whole numbers of `Grain`-ths of a paisa, since the payload may be finer than
what is filed: the derived flags go by paise (`Paise` is `toCents`), `ne_cross` compares the
amounts as they are. So 0.004 rupees of IGST are none for R-SPLIT-003, and CGST and SGST
of 90.001 and 90.004 are a gap of R-CHRG-006 though they come to the same paisa. An HSN string
is the sequence of its comma-separated codes, each with its length and whether it is all
digits, together with the length of the whole.

`Breached` says, from the summaries in `rules_2026.json` and about the invoice as it is
written, what each rule should find; it reads neither derived flags nor the length of the
whole HSN string. `Excepted` names the cases where the code does otherwise, and
`VerdictIsStatutory` that there are no others:

- R-IRP-002 only asks whether a report date is there (and never reads
  `thresholds.irp_reporting_days`);
- R-SPLIT-003 and R-SPLIT-004 do not see an amount below half a paisa;
- R-HSN-005 measures the whole string and does not look at digits, so it is right about a
  single code of digits only: `4,6` digits are flagged (a string of 11), and `3,4` digits
  pass (a string of 8);
- R-CHRG-006 applies wherever no IGST is charged, not where the supply is within a state;
- R-CLASS-007 takes an empty GSTIN for one.

### TaxMath and Returns

`MaxCents` stands for the largest `Cents`, so that the overflow guard can be checked at
a small width and proved for all, and `MaxAmount` for the cap of `toCents` on one amount.
Only the product in `taxOn` is guarded; the sums are not, and wrap around (`Wrapped`, a
choice for what is undefined behaviour in C++; no property looks at a sum that has left
`Cents`, other than to say when that cannot be). `Returns` generates the files in the order of
`requestFiling`; an overflow in any of them throws. A line item is known by its place
`<<i, j>>`, the j-th of the i-th invoice, which makes every total of the code a sum over a
set of places: of an invoice (`InvoiceValue`), of a bucket (`Group`), of all. CSV text, copied columns and
quantities (doubles, only summed and printed) are left out.

## 3. Runs

| Run | Asks | Bounds |
|---|---|---|
| `pipeline_crash` | do the ledgers of two sessions agree, do filings stay complete, and does `Pipeline` implement `FilingService` | 2 sessions, 2 threads, 2 uploads, 0 lines, 0 faults, 1 crash, kinds clean and gaps |
| `pipeline_faults` | what survives a failing statement: acknowledged uploads whole, filings ordered, status explained by the transcript, references; where may FILED be overwritten | 1 session, 2 threads, 2 uploads, 1 line, 1 fault, 1 crash, all kinds |
| `gateway` | whose is a session, is any left without a socket or touched after it was abandoned; is an ended socket deleted and its session closed | 2 sockets, 2 sessions, 1 thread, 1 message, 1 upload, 0 lines, 1 fault, 1 crash |
| `extraction` | do walk and sanitizer accept exactly the contract, with no exception that processUpload does not answer; does a request over curl end | 3143 documents: the default one changed in one place in every way, or in two of which one is missing; timeout of 2 ticks |
| `compliance` | does each rule find exactly what its summary says, apart from the named exceptions, whatever is claimed or absent | 4031 documents in two slices; a tenth of a paisa as grain, a threshold of 5 |
| `returns` | do the three files reconcile, with bounded rounding, and for how long does `Cents` suffice | 29756 ledgers of up to 2 invoices with up to 2 lines |
| `pipeline_unfiled`, `pipeline_rehydration`, `pipeline_unstored`, `gateway_broken`, `compliance_divergence`, `compliance_hsn` | documented, and not so: see section 5 | |

Why the bounds are enough. The pipeline's hazards are about the order of two things:
two uploads (order and duplication in a ledger), two threads (one inside, one waiting),
two sessions (rows of another), one crash (before and after a cold start), one fault
(the method in flight). One line item suffices to separate an invoice row from its
lines. `pipeline_faults` uses every kind, so a filing that throws also meets a crash.
Two sessions and faults together are not run: no action of one session reads
another's state, which `pipeline_crash` is there to check; the theorems of section 4
take this bound away, and all others, for every property of these two runs but
liveness.

In `gateway` two sockets suffice for one to meet the session of the other, one message
for it to be read after the close, one fault for `closeSession` to throw in either close
path, and the single worker thread is what the program starts. Crossing a fault and a
crash lets a session be half closed when the process dies. The invariants of
`GatewayProofs`, which imply the run's safety properties, were in addition checked with
two threads (1.2 million states) before they were proved. `EndedIsClosed` is the property
for which the run is all there is.

In `extraction`, one change meets every read and every node of the schema with every
type; the second, a missing member, is what could let the walk stop before it reaches
what the sanitizer relies on. Two ticks tell a deadline that is renewed from one that is
not. The ledgers of `returns` straddle a rounding step (300 and 50 paise at 1%)
and, with the chosen `MaxCents`, an overflow within the 5000 that rounding adds; one rate is
odd (25 basis points), and of the largest amount `Cents` holds two lines but not three, so
that some ledgers wrap. `compliance` crosses everything about the tax heads, and everything
else, with the other slice held in order; only R-CHRG-006 and the split rules read tax heads, so no
rule looks at both slices.

**Fairness.** `gateway` and `gateway_broken` assume weak fairness of `Serve(t)`: a worker
thread keeps running while an event of one of its sockets or a step of a handler is
left. That includes the steps of the method that the handler has called, so that a method
returns is assumed here and not shown; `EndedIsClosed` asks what happens to a socket under that
assumption. What backs it is a timeout on the extractor's call (`CurlHttpClient.cpp:75` for
the whole transfer, which is what `CallReturns` of `extraction` checks;
`WinHttpClient.cpp:180` for each of its phases and reads, which bounds nothing if a service
trickles), and that SQLite sets no busy timeout: a locked database is a failing statement at
once. With one worker nobody else takes the mutex, so fairness of the thread is enough;
nothing is assumed or claimed of a mutex that several threads want. Nothing makes a client
send or hang up, and the property starts from one that has. `extraction`
assumes that time passes, that the transport gives up at its deadline and that the
program computes (`Tick`, `Expires`, `Checks`), and nothing of the service, which may
stay silent or send forever.

**Deadlock** is checked in the pipeline runs, where some thread can always call. The
`gateway` really stops when its clients fall silent and its bounded sockets are used up;
the calls of `extraction`, `compliance` and `returns` end. These disable it.

## 4. Proofs

All for any sets of sessions, threads and sockets and any bounds.

| Theorem | Assumes | States |
|---|---|---|
| `TypeCorrect` | | `Pipeline` is well-typed |
| `ReferencesAlwaysHold` | | nothing refers to a session without a row, with any number of failing statements and crashes |
| `LedgersAlwaysAgree` | `MaxFaults = 0` | whenever no method runs, memory and database hold the same ledger |
| `FilingsAreComplete` | `MaxFaults = 0` | every filing is generated from all the stored invoices |
| `FilingsAreInOrder` | | no filing has an invoice twice or out of order |
| `AckedAlwaysDurable` | | an acknowledged upload keeps its row, its lines and its transcript |
| `StatusAlwaysJustified` | | a stored INTERROGATING or FILED is explained by transcript and invoices |
| `FiledAlwaysStays` | | ABANDONED overwrites a stored FILED after a restart only, and there only where a statement has failed or the stored ledger overflows the returns |
| `PipelineImplementsService` | `MaxFaults = 0`, no `overflow` | `Spec` implements `FilingService` |
| `GatewayImplementsPipeline` | | `GSpec => Spec`: all of the above holds behind the gateway |
| `GatewayTypeCorrect`, `SessionsAreAlwaysOwn`, `NoneIsEverOrphaned`, `AbandonedStays` | | the safety properties of `gateway`, with broken frames too |
| `ExtractionTypeCorrect` | | checks meet a document, a call ends with one outcome |
| `AcceptedExactlyInContract` | | whatever object an answer holds, walk and sanitizer together accept it exactly when it is in the contract |
| `NothingEscapes` | | no `json::at()` of the sanitizer throws what `processUpload` does not answer |
| `TaxOnFits`, `TaxOnRoundsHalfUp`, `SplitIsStatutory` | | the arithmetic of one line, any amount, rate and width |
| `CentsAlwaysSuffice` | | in returns that are ready no product left `Cents`, and up to `MaxCents / MostWorth` lines no sum can |
| `FilesReconcile` | `Cents` holds the ledger (in the property) | Table 4A plus what it leaves out, the HSN summary and GSTR-3B add up to the same, head by head |
| `InvoiceValuesAdd` | the same | the value on a row is what the rows of its invoice add up to |
| `RoundingStaysBounded` | the same | at most half a paisa of error per line and head, beyond what halving an odd rate loses |
| `ComplianceTypeCorrect` | | verdicts come in the order of the configuration, none both skipped and violated |
| `VerdictsAreStatutory` | | the seven rules, as the evaluator reads them, find exactly what their summaries say, apart from the named exceptions |
| `ClaimsAreAlwaysIgnored`, `AbsenceNeverFabricates` | | the two other properties of `compliance` |

**Ledgers** (`PipelineProofs`), in three layers:

1. `BaseInv` is `TypeOK`, `LockInv` (a thread past its entry holds the mutex, so at most
   one is inside) and `LocalInv` (a thread saving has an invoice, a thread archiving has
   frames, a thread inside has a session). Typing alone is not inductive: `Head(frames[t])`
   and `doc[t].id` need `LocalInv`, and `LocalInv` of the other threads survives a step
   by `LockInv`.
2. `SessionInv` adds `ReferencesHold` and `OpeningInv`: an id being opened is nobody
   else's. Without it `openSession` could reset the memory of a session that has rows.
3. `AgreeInv` adds `LedgerInv`: the ledgers agree for every live session but two. In
   the one whose upload stands between the append to memory and the INSERT, memory is
   ahead by exactly `doc[t]`; in one that was adopted and not yet rehydrated, memory is
   still empty. With `LockInv`, "no method runs" leaves no exception, and by the time
   `FileDone` runs the ledger has been gathered.

**What survives failures** (`DurabilityProofs`). `OrderInv`: the ledgers in memory and in
the table are in order of identity, nothing in them is newer than `uploads`, and the
invoice being saved is newer than every stored one; so both appends keep the order, and
a prefix of a rehydrated ledger has it too. `DurableInv`: an upload that stands at a place of
`processUpload` has behind it exactly the writes before that place (its row, as many
lines as counted, the frames that are no longer in `frames`), so that by `UploadDone` all
are there; what is in the tables stays, since no statement deletes; and the status an
upload or a filing is about to write has its reason in the transcript already. No step
of these needs a bound on faults: a failing statement only leaves earlier.

**Refinement** (`RefinementProofs`). `FiledInv`: a stored FILED goes with stored
invoices; memory says FILED too for a live session, except in one that a filing has
adopted after a restart and will mark, because its ledger is not empty and nothing
fails, or whose stored ledger overflows; and the invoice an upload is still working on is the newest of its
session. So without faults and overflow `closeSession`, which looks at memory, never
abandons a filed session, the status an upload writes is the abstract one's, and every step
of `Pipeline` is a step of the service or a stutter. A crash is a stutter, since the abstraction has no memory to
lose. Both assumptions are needed: `pipeline_unstored` shows what one fault does, and
`pipeline_unfiled` what an overflow does.

`FiledAlwaysStays` needs neither. Two more invariants say where memory and the stored status
can part. `WarmInv`: before any restart, memory says FILED of every session whose stored
status does, since both are written while the same method runs. `FaultlessInv`: as long
as no statement has failed, `LedgerInv` and `FiledInv` hold, of which the latter leaves the
session whose stored ledger overflows (`Settled`). What remains for `closeSession` to overwrite
is what `FiledStays` names.

**Gateway** (`GatewayProofs`). `GatewaySteps` sorts the steps of the gateway by what they
do to the pipeline, which gives `GatewayImplementsPipeline`. `SocketInv` has four parts.
`JobInv`: a handler runs for a live socket of its thread and for the session bound to
it, and when its method has ended the session is over, or opened, or it failed.
`OwnInv`: a session is named by one socket, and by none while a handler opens it.
`ClosedInv`: a socket whose close handler was called is not read again and its session
is over or about to be; an ABANDONED session is bound only until the handler that closed
it returns. `OrphanInv` strengthens `NoneIsOrphaned` by the moment between `openSession`
and the binding. They are needed together: that a message never meets an abandoned
session (`ClosedInv`) rests on one handler per socket (`JobInv`) and on nobody else
closing its session (`OwnInv`, through the lemma `Exclusive`).

**Extraction** (`ExtractionProofs`). The inductive part is small: `DocumentOK` says that the
document under way is a JSON object, and that the sanitizer meets only one that the walk has
accepted (or the mock's, for which `DefaultConforms` follows the walk). All the rest is about
one document, and goes from both sides to the contract. *Sanitizer:* `ValueAt` is the member
of the member (`RootIsReached`, `MemberIsReached`); whether a document is accepted depends
only on the set of reads, and the sections join and flatten into one (`SanitizerDecides`:
accepted exactly when `Sane`). *Walk:* breadth first, to depth 4, is the same as soundness of
each node with the nodes below (`WalkIs`), which the `Leaves` of a node turn into types of
named members, section by section (`WalkDecides`). Then `ContractIs` and
`ChecksAreContract`: `InContract` is what the walk and the sanitizer ask together. And
`WalkFinds`: every member that is read by `json::at()` is one the schema requires, in each
line item too, so that what is thrown is `invalid_argument`. No bound is set on the number
of line items, warnings, or members that the schema does not name.

**Returns** (`ReturnsProofs`, on `InductionLemmas`). The inductive invariant `FilesInv`
says what each file is as soon as it is written: `b2b` has a row for every B2B place,
`hsn` and `gstr3b` are `Group`s of all the lines, and the guard of `taxOn` holds for every
line. What remains is arithmetic, in two layers. First the width: all terms are natural
numbers, so every sum that the code takes is at most `Value`, the worth of all lines
(`SumMonotone`); where `Cents` holds that, no sum wraps (`WrappedIsSame`, `SumIsHeld`,
`ColumnsAreHeld`). And a line that passed the guard is worth at most `MostWorth`
(`FittingLineIsWorth`), which bounds `Value` by the number of lines (`SumBounded`) and gives
`CentsAlwaysSuffice`; with the code's 2^63 - 1 and 10^15 that is some 3,200 lines, each at
the cap. Then the sums: each total is a sum over a set of places; the sum over a
set that is cut into groups is the sum of the groups' sums (`SumPartition`), whatever the
key of the groups, and so the HSN summary and GSTR-3B both add up to all the lines.
Table 4A and the other lines are a partition too. For the rounding, the error of one line is
between the bounds (`TaxOnRoundsHalfUp`, and `SplitIsStatutory` for the two heads of INTRA),
and bounds of the terms add up to bounds of the sum.

The provers cannot use an induction theorem that takes a predicate as a parameter.
`InductionLemmas` states induction about the *set* of numbers for which something holds, as
a consequence of the library's theorem that < on the naturals is well-founded, and from it
the induction over finite sets. The lemmas on sums follow from that.

**Compliance** (`ComplianceProofs`). The invariant `VerdictsInv` says that the i-th verdict
is `EvalRule` of the i-th rule on the document, and that the status follows from all of
them. The rest is about one document: `AllFire`, `SomeFires` and `LeavesFire` say what the
evaluator makes of a group and of a leaf, and from these each of the seven rules gets a closed
form (`Skips`, `Violates`), from which the three properties are read off. `PaiseOf` and
`AmountsOf` connect the flags, which go by paise, with the amounts that `Breached` looks at,
and `AsSummarised` compares the closed form of each rule with its summary. The theorems hold
for every `AatoLimit` and `Grain` and every set of documents that pass `Sanitized`: no amount
is negative, and the members that the sanitizer requires are there. Nothing is assumed of claimed flags.

`MaxFaults = 0` is needed where it is assumed: `pipeline_unstored` and
`pipeline_rehydration` are counterexamples with a single fault. Assumptions on the
constants are `NoneAssumption`, `KindsAssumption`, `BoundAssumption` (`Pipeline`),
`RepliesAssumption`, `SocketsAssumption` (`Gateway`), `TimeoutAssumption` and
`ValuesAssumption` (`Extraction`: values hold JSON values, and a document is an object, which
`parseSuccessResponse` sees to),
`MaxCentsAssumption` (`TaxMath`), `GrainAssumption` (`RuleEngine`), `AatoLimitAssumption` and
`DocsAssumption` (`Compliance`: the documents have passed the sanitizer), and `MaxAmountAssumption` and
`LedgersAssumption` (`Returns`: no line has a negative amount or rate, or an amount beyond the
cap, which is what the sanitizer refuses).

**Only model-checked:** `EndedIsClosed` and `CallReturns`, since liveness is beyond the
prover. Every other property of the passing runs is a theorem.

## 5. Where code and documents disagree

Each has a run whose counterexample shows it:

| Run | The code | The document |
|---|---|---|
| `pipeline_unfiled` | `closeSession` goes by the status in memory, which a cold start sets to ACTIVE whatever is stored: if filing the adopted session again throws, the close overwrites the stored FILED with ABANDONED (`Pipeline.cpp:296`, `:111`) | "no-op when already FILED" (`Pipeline.hpp:84`) |
| `pipeline_rehydration` | a read error while rehydrating yields a filing without acknowledged invoices | "Lossless rehydration of every invoice" (`InvoiceRepository.hpp:77`) |
| `pipeline_unstored` | an invoice whose `saveExtraction` failed is filed from memory | filings can be rebuilt "after a process restart" (`InvoiceRepository.hpp:11-13`) |
| `gateway_broken` | frames are serialized outside the `try`: one that quotes text cut inside a character throws out of `onmessage`, and the socket is neither read nor closed again (`main.cpp:261`) | "ABANDONED unless already FILED" on close (`main.cpp:271`) |
| `compliance_divergence` | no rule compares claimed heads with `supply_type`, which decides what is filed | a divergence "is what the RuleEngine audit surfaces" (`GSTRGenerator.hpp:9-11`) |
| `compliance_hsn` | R-HSN-005 measures the whole comma-delimited string (`RuleEngine.cpp:315`): any two valid codes are a gap | "Every HSN code on the invoice must be 4, 6 or 8 digits" (`rules_2026.json:118`) |

`pipeline_unfiled` drives the pipeline by its own methods. Behind the gateway a socket names
only the session it has opened, and none after a restart names an old one, so that there the
cold start is not reached at all (`src/tests` reaches it by calling `requestFiling`). It takes
an overflow in the run, where the second upload of a filed session crashes right after its
row was stored; a failing statement in the second filing does the same.

Seen while reading, without a run:

- `requestFiling` looks at no status: an invoice with gaps is filed at once
  (`Pipeline.cpp:280`), where the user was told "Each needs your input before this document
  can be filed" (`Pipeline.cpp:198`).
- `computeTaxSplit` halves the rate first, so 25 basis points become 12 + 12 and a 25th of
  the tax is not charged (`StateMatrix.cpp:112`; `:110` says "each carry exactly half").
  `RoundingIsBounded` counts what an odd rate loses as such (`Charged`).
- A crash inside `saveExtraction` leaves an invoice without its line items for good
  (`InvoiceRepository.cpp:309`), which are "normalized out of the invoice JSON ... so
  GSTR-1 HSN summary ... can aggregate" (`schema.sql:61-62`). Filings are generated from
  the JSON, so nothing that is filed depends on them.
- The extractor may throw `json::type_error` or `out_of_range` for an answer of another
  shape (`GeminiClient.cpp:147-153`, `:219`), where `IExtractor.hpp:19-20` promises
  `runtime_error`; where that happens to the body of an HTTP error, its status is lost.
- `HttpClient.hpp:57` promises a "total request timeout". WinHTTP restarts it for each
  phase and each read (`WinHttpClient.cpp:180`), so a service that trickles holds the
  mutex for as long as it likes; `CallReturns` leaves `winhttp` out.
- The sanitizer alone does not enforce all of the contract that `StateMatrix.hpp:98-102`
  gives it: it never asks for `has_igst`, `has_cgst_sgst` or `total_tax`, which only the
  schema walk does. The mock extractor skips the walk, with a document that has them.
- A `closeSession` that throws under a close frame leaves the session stored as it was
  (only memory says ABANDONED), and neither unbinds it nor writes the close frame back; only a later failure of the
  connection would reach `check_destroy`, which does not call the handler again.
- The warnings of an extraction are stored twice: `Pipeline.cpp:212-224` takes them out of
  the document, and `InvoiceRepository.cpp:255-270` appends them to the same block of it.
- Refusals, too, quote text that may be cut inside a character
  (`GeminiClient.cpp:156`), with the effect of `gateway_broken`.
- R-HSN-005 also misses what it should find: two codes of 3 and 4 digits are a string of 8.
- R-IRP-002 only asks whether a date is present; `thresholds.irp_reporting_days` is
  never read (`rules_2026.json:64`).
- The extractor may send `''` for an absent value, and `''` counts as present
  (`GeminiClient.cpp:124-125`): a B2B invoice with an empty GSTIN passes R-CLASS-007.
- R-CHRG-006 applies whenever IGST is zero, inter-state supplies included
  (`rules_2026.json:135`).
- The sums of the returns are unguarded (`GSTRGenerator.cpp:81-90`, `:131-134`). Up to
  some 3,200 lines no sum can leave `Cents` (`CentsSuffice`); beyond, one may, which is undefined
  behaviour.
- `taxOn` throws `overflow_error` where `StateMatrix.hpp:52` says `invalid_argument`; a
  missing member throws `json::out_of_range` where `StateMatrix.hpp:99-102` says
  `invalid_argument`, which is all that `processUpload` catches.
- An array index in a path never resolves (`RuleEngine.cpp:186`); no configured rule has one.
- A nested group or a check whose operator is not a string passes the constructor, which looks
  at the top level of a condition only (`RuleEngine.cpp:247`, `:276`); no configured rule has
  one.
- `computeTaxSplit` never computes a cess.

## 6. Not modelled

- `statusOf`, `chatHistory`, `sessionCount`, `sessionStatus`: they only read.
- Rule configuration errors at start, message templates, the syntax of paths in rules.
- CSV layout, copied columns and quantities of the returns.
- URLs, headers, TLS and the text of requests and errors in the transports and the
  extractor.
- Start-up, the static file routes and the command line of `main.cpp`: they keep no
  state that the handlers use.
- Vendored libraries: SQLite, nlohmann::json, Crow and Asio make up nearly all lines of
  the repository. What the program relies on in them is modelled at the point of use and
  marked external; Crow's connection, on which the gateway depends step by step, is
  modelled from its source.

## 7. Plan

Done:

1. `Pipeline`, `FilingService`, `PipelineRefinement`, and the first theorems.
2. `RuleEngine`, `Compliance`.
3. `TaxMath`, `Returns`, and the theorems on the arithmetic.
4. `Gateway`, composed with `Pipeline`, and its theorems.
5. `Extraction`: transports, answer, schema walk and sanitizer as one chain.
6. What survives any number of faults, and the refinement, as theorems.
7. The returns and the rules as theorems, with induction over finite sets.
8. The two checks of a document, walk and sanitizer, as theorems.

Left:

9. The startup validation of the rule configuration, as a predicate on rule trees, with
   the property that a configuration it accepts never makes `evaluate` throw.
