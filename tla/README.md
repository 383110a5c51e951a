# Formal verification of otomata-mcp

TLA+ models of the `otomata_mcp` package, model-checked with TLC, and theorems
about them checked with TLAPS. Paths are relative to `src/otomata_mcp/`.

- [1. The system](#1-the-system): components, state, operations, what is hard
- [2. Plan](#2-plan): modules, order, what is done and what is left
- [3. The modules](#3-the-modules): how state and actions correspond to the code
- [4. The runs](#4-the-runs): what each checks, its bounds, fairness
- [5. Findings](#5-findings): where code and documentation part
- [6. The proofs](#6-the-proofs)
- [7. What is not modelled](#7-what-is-not-modelled)

## 1. The system

otomata-mcp is the common base of several MCP servers: a library that composes
a FastMCP server (`bootstrap.build_server`) from tools, two middlewares and
injected stores. It runs on one asyncio event loop; every tool call is a task,
and any `await` is a point where another task may run. FastMCP, httpx, asyncpg
and Postgres are outside the repository.

| component | state | operations | interacts with |
|---|---|---|---|
| Documents and notes on Postgres (`adapters/pg.py`) | tables `content_docs`, `content_revisions`, `shared_memory`; a connection pool | `put`, `latest`, `list`, `history` | tools above, Postgres below, other puts through row locks, unique indexes and the pool |
| Documents and notes on PostgREST (`adapters/postgrest.py`) | the same tables | the same, one HTTP request per statement | httpx client with a 20 s timeout |
| Store protocols, in-memory stores (`content/store.py`, `memory/store.py`) | dictionaries of version lists | the same, synchronous inside | tests, demo |
| Run stack (`run/stack.py`, `run/tools.py`) | one list in the FastMCP session state | `run_start`, `run_finish`, `active_run_id` | session store, access logger |
| Access logger (`logging.py`) | `_PENDING` sink tasks, one row per call | `on_call_tool` | run stack, identity, sinks |
| ACL (`acl/`) | table `grants` | middleware gate and list masking; `grant`, `revoke`, `list_grants` | scope, identity |
| RBAC (`rbac/`) | table `member_roles` | `require_async`, `set_role`, `get_role` | content, memory and feedback tools |
| Content tools, validation (`content/tools.py`, `content/validate.py`) | none | `readme_agent`, `list_instructions`, `get_instruction`, `set_instruction` | RBAC, scope, store |
| Memory tools (`memory/tools.py`) | none | `memory_list`, `memory_read`, `memory_write` | RBAC, scope, store |
| Scope and identity (`scope.py`, `identity.py`) | the consumer's answer for the caller | `resolve`, `current_identity` | every tool |
| Feedback (`feedback.py`) | the consumer's table | `feedback`, `list_feedback` | RBAC, sink |
| Composition (`bootstrap.py`, `instructions.py`) | none | `build_server` | fixes the middleware order: logger outermost, then ACL |

### What is hard, and what makes each part correct

- **Stores.** `put` computes `version = max + 1` from a read and writes it
  back later. Documents are in two tables, the current row and the
  append-only revisions. Correct means: head and history agree; no version is
  skipped, duplicated or overwritten; an acknowledged version stays; a put that
  raised because of a conflict left nothing; a put whose caller lost the
  connection may or may not have landed, but whole; every put ends. Postgres
  has the transaction, the row lock and the primary key for this, but the
  rollback, the pool and the COMMIT in doubt have to work together; PostgREST
  has only the primary key of the revision table.
- **Run stack.** `run_start` and `run_finish` are read-modify-write across two
  awaits. Correct means: an open run is on the stack, once, properly nested; a
  finish removes its own run and nothing else; intermediate calls carry the
  run_id.
- **Access.** The gate, the tool's own check and its write are three awaits,
  each of which resolves the tenant again. Correct means: nothing is written in
  a tenant by a caller who did not hold the right *there* at some moment of
  *this* call, whatever other users do to grants and roles meanwhile; public
  tools and callers without identity bypass the gate but not the tools' own
  checks.
- **Logging, feedback and what agents see.** A log sink must never fail a call, a
  feedback sink does. Correct means: a call that was answered gets its row, once,
  unless its sink or the process ends first; a row says what its call did,
  whenever it is inserted; nothing compares versions when two agents write one
  note, but the versions let them notice; a listing shows latest versions and a
  digest the latest signals although answers are cut and inserts overlap. A
  cancelled call leaves no row and a cut listing misses keys (section 5).

The list of hazards, each at its line with the properties that watch it, is in
`PROJECT.json` under `hazards`.

## 2. Plan

Done, in this order:

1. `VersionedStore` (abstract), `PgStores`, its run, `PgStoresProofs`.
2. `RestStores`, against the same `VersionedStore`.
3. `RunFrame` (abstract) and `RunSession`.
4. `Access`: ACL gate, administration, RBAC and tenant resolution of one call.
5. `ToolCalls`: the logger around tools and stores, its sinks, feedback, agents
   that read and write documents and notes, seeded documents; against the same
   `VersionedStore`, with agents for callers.
6. Proofs: `PgStoresProofs`, `RestStoresProofs`, `RestStoresRefinement`,
   `AccessProofs`, `RunSessionProofs`, `ToolCallsProofs`, with `VersionLemmas` for
   what the stores share, and `VersionedStoreProofs` for what the contract is worth.

Left, by importance:

7. Requests of a log sink that are served after the sink has given up: `RestStores`
   has late requests for puts, `ToolCalls` has them served before or never.
8. Schema start-up: `init_schema` by two servers at once.
9. `validate()` as an operator on texts: it looks at the body only, so a title
   or a description may hold what a body may not.
10. A session store whose `set_state` takes effect although it raised.

## 3. The modules

### VersionedStore

The contract of `ContentStore` and `MemoryStore`: per key a sequence of
accepted puts. A put is accepted at most once (`Accept`); `Confirm` returns the
position its text has; `Refuse` is possible only if it was not accepted, and
excludes acceptance later; `GiveUp` (connection lost, timeout, cancellation)
leaves both open. The in-memory `put` does `Accept` and `Confirm` in one
synchronous step.

The last section of the module says what a caller can rely on: a put enters once
(`EnteredOnce`), the version returned is that of its text (`AnswerIsPosition`), a
refused text stays out (`RefusedStaysOut`), versions are not rewritten
(`HistoryStands`), answers not taken back (`AnswersStand`), and a text that enters
after another was answered stands above it (`LaterIsAbove`). These are proved
of the contract and inherited by whatever implements it.

### PgStores

| model | code |
|---|---|
| `head`, `rows` | committed rows of `content_docs`; of `content_revisions` and `shared_memory` |
| `pc`, `ver` | the statement the transaction is at, and `v` |
| `outcome` | what the caller of `put` knows |
| `Acquire` … `Return` | `pool.acquire()`, `SELECT max(version)`, upsert, INSERT, COMMIT, return |
| `HeadLocked`, `RowInDoubt` | Postgres' row lock on the upserted row and its wait for an uncommitted duplicate key |
| `RowConflict` | `UniqueViolationError`, rollback and release by the two `async with` |
| `Abandon`, `ServerAbort` | connection loss or cancellation at any await; the server notices later, and a COMMIT already sent may take effect |

Uncommitted writes are not stored: what a transaction has written follows from
its `pc`. `latest`, `list` and `history` are one statement each and appear as
the operators `LatestVersion`, `LatestText` and `History` on the committed
state. A call names its text, so "whose text is this" is a comparison.

`NextVersion` reads what `put` reads: the `content_docs` row for documents, the
maximum of the notes' versions for notes. That the former equals the maximum
of the revisions is a property, not an assumption.

### RestStores

The same tables without transactions. A put has one request outstanding; the
server applies it in one step (`ServeSelect`, `ServeUpsert`, `ServeInsert`);
the client goes on (`Continue`, `Return`, `Refuse`) or stops waiting
(`Timeout`), after which the request may be served late or never. `Serial` is
the set of keys whose callers run one put at a time, `Lossy` the set of those
whose callers may give up. `Kept` are the keys for which the adapter keeps the
contract: all notes, and the documents of `Serial` that are not in `Lossy`. The
contract and the agreement of head and history are checked for them; the two
violations show that neither condition on documents can be dropped.

### RunFrame and RunSession

`RunFrame` is the promise: open runs are a stack, a call is stamped with the
innermost one or, when the session store fails, with none, a finish takes the run
named in its `request` off, wherever in the stack, and answers `not_open` only
when that run is not there; a call that raises leaves the stack alone. `request` is
part of the refinement mapping (it is the tool and arguments of the session's call), so a finish that
pops another run is no step of `RunFrame`. `CallsCorrelated` says when a stamp must not
be missing. `RunSession` has one step per await: `Stamp` (the logger's `active_run_id`), `Read` (`get_state`), `Write`
(`set_state` of the edited copy), `Reply`. `StampFails` is the error the logger
swallows, `StoreFails` an error in the tool, `Cancel` a `CancelledError` at any
await. `Parallel` lets the client have several calls in flight: whether this can
happen depends on the client, and whether `Read` and `Write` can then be
separated on the session store, which is FastMCP's and injected by the consumer:
an in-process store may not suspend, a remote one does.

### Access

One call: `Gate` (`AclMiddleware.on_call_tool`), `Check` (`_require_admin`, or
`Rbac.require_async` followed by `validate`), then `Body` or `Write`. Every step
resolves the tenant again, and `Unresolved` is the exception of a resolver
without an answer. `SetRole` is the consumer's, `Switch` the orchestrator's.
`had` is a history variable: the rights the caller has held since the call was
issued. It is limited to what the
call may need, the grant of its tool, admin and the required role. It appears in no guard; the properties are stated with it, because a
check that was true when made may be old when the write happens, and what the
code can promise is that the right was held *during the call*. A revocation that
ended before the call was issued is thereby never overlooked.

`resolve()` and the statement that follows it are one step: the only await
between them is the resolver's own. The resource `tool:<name>` is the name of
the tool; the arguments of a call are reduced to what decides (who is granted
what, whether the text is valid). A call without identity passes the gate and holds
no grant or role. The role table takes any text: a value outside the hierarchy ranks like none.

### ToolCalls

| model | code |
|---|---|
| `Issue` | `on_call_tool` up to `call_next`; the stamp is `RunSession`'s |
| `Refuse` | every refusal of `Access` and of the tools' own argument checks: an exception before any effect |
| `Put`, `Get` | the statement of `set_instruction` and `memory_write`, of the reads |
| `Begin`, `Report` | the insert of `feedback` begins and takes its `created_at` (`DEFAULT NOW()`); it commits and its row is seen, maybe after one that began later |
| `begun`, `signals` | the inserts in the order of their times; the rows of `tool_feedback` in the order they appeared |
| `earlier` | history variable: the signals acknowledged when a signal was sent |
| `Return`, `Fail` → `End`, `Emit` | the tool returns or raises; the row is completed and handed to the sink in the same step, no await lies between |
| `pending`, `SinkWrites`, `SinkFails` | `_PENDING`, the task of an asynchronous sink, its exception that nobody retrieves |
| `lost` | history variable: rows that a sink or the end of the process dropped |
| `Cancel` | `CancelledError` at an await |
| `basis`, `Holds` | what an agent knew of the key when it issued the call; a text is the set of contributions it holds |
| `Page`, `Listing` | `PostgrestMemoryStore.list`: the rows whose `Position` in the sorted answer is below `MaxRows`, and of those the first of each key |
| `Newer`, `Digest` | `list_feedback` with any limit: the rows that have fewer than the clamped limit of rows with a later `created_at` |

The stores are those `VersionedStore` promises: a put takes effect in one step.
A conflict of two puts is a `Fail` before the effect, a lost answer one after
it. Times of inserts are taken to be distinct and to grow on the one database server.
`async` chooses the kind of sink at start. `Init` has the documents that
`seed()` inserted before the server took calls, with the versions they carry.
Agents do what `instructions.py` and the docstring of `memory_write` ask: they
write all they know of a key and their own contribution. Nothing makes them
read first, so `basis` may be old.

`Contract` is `VersionedStore` again, one level up: its history of a key is what
follows the seeds (`PutsOf`), its outcome what the tool told the agent (`Told`: an
error leaves open whether the text is in, and so does a call cut off before its
answer), its answer the version counted from the last seed (`Base`).

### MC modules

`MCPgStores`, `MCRestStores`, `MCRunSession`, `MCAccess` define the symmetry
sets and, for `Access`, the initial grants and tenants and the mixes of tools; `MCToolCalls` defines the
plans, i.e. who calls which tool on which key, and the seeded versions.

## 4. The runs

| run | states | what it shows |
|---|---|---|
| `pg_puts` | 32,138 | three puts, a document and a note, two connections, failures: head and history agree, acknowledged versions stay, refused puts vanish, the contract is implemented, every put ends |
| `rest_puts` | 65,586 | three puts on documents and a note with late requests: the history is append-only, without holes for notes, honest to its callers; every put ends; notes implement `VersionedStore` under every fault, documents with one writer at a time and no failure |
| `rest_race`, `rest_giveup` | violations | neither hypothesis of `rest_puts` about documents can be dropped (section 5) |
| `session_parallel` | 732,049 | four overlapping calls with faults: no run twice, nesting kept, only opened runs are named |
| `session_sequential` | 224,117 | one call at a time with faults: `RunFrame` is implemented, so a finish pops the run it names; an open run stays on the stack, calls are correlated, one finish reports it |
| `session_race` | violation | correlation is lost with overlapping calls (section 5) |
| `access_calls` | 903,746 | three calls of gated, public and role-checked tools, `grant` and `revoke` among them, with roles changing, to values outside the hierarchy too, and a caller losing the tenant and getting it back: the gate holds while grants change, writes need the role, grants change by admins only, a tenant without admin is frozen |
| `access_switch` | violation | what the administrator check does not cover when a caller moves to another tenant (section 5) |
| `calls_journal` | 242,428 | three calls of two agents, both kinds of sink, faults, the end of the server: rows once and truthful, an answered call is journaled, the tools implement the stores' contract towards agents, lost contributions show in the versions, listings show latest versions and miss only last keys, digests follow the time of the signals, seeded histories stay unambiguous |
| `calls_cancel` | violation | a cancelled call leaves no row (section 5) |
| `calls_listing` | violation | a cut answer makes `memory_list` miss a note (section 5) |

**Bounds.** Every behaviour is bounded by the number of calls, in `ToolCalls`
also by that of faults; no state constraint is used. Three puts on a document and a note give every split of
writers over the two keys, hence three-way races on one key (a winner, a loser
that had upserted, a third that reads after the winner) and a put of another
kind competing for the pool; two connections make one of three puts wait while
another waits for a row. `rest_puts` has a document whose callers take turns and
never give up, one whose callers do neither, and a note: two overlapping puts
on a key and a third after them are what its properties need. Four session calls are what an open, a nested open, a finish and a
stamped call need; a lost update takes two. In `access_calls` three
calls let two admins revoke each other while a third call is past its check. Its
bound is `Mixes`: the calls of one behaviour are of two tools, `grant` and `revoke`, or
`revoke` and a gated write, or a read that needs admin and a checked text, or a read that needs a
role and a public one. There is one tenant and one user who may lose it and get it back: what
matters there is a tenant lost between two steps. Two tenants, and moving from one to the other, are `access_switch`
and the theorems. Stuttering at the end (`Finished`) is a
disjunct of each next-state relation, so deadlock is checked everywhere: a
state where nothing moves and some call has not ended is an error. In `Access`
the consumer may change a role at any time, so a stuck call would not
show as a deadlock there.

In `ToolCalls` calls are numbered in the order the server receives them, which
does what symmetry would do without its conflict with liveness. The four plans
have a writer who reads first, two writers of one note and three rows of two notes
where PostgREST returns two, two signals where a digest shows one, and a
seeded document with a signal in between. `MaxFaults` bounds failures and
cancellations to one per behaviour; the end of the process and a synchronous
sink that drops its rows come on top.

**Symmetry** is over calls only, and only in runs that check invariants or
step properties.

**Fairness.** `PgStores`: weak fairness of the steps of each call. The event loop
resumes a task whose await is done; Postgres answers; a lock wait ends when its
holder ends; the server detects a dead connection. No fairness for starting a
put nor for a failure. `RestStores`: weak fairness of the client's steps only.
The server owes nothing, not even an answer: what makes a put end is the
timeout `httpx.AsyncClient(timeout=20.0)`. `ToolCalls`: weak fairness of each sink
task while the process runs: the loop resumes it, and the insert answers or
fails. Nothing is assumed of calls, so an answer or a cancellation may never
come. `RunSession` and `Access` state safety only.

**Mutants.** Each property of a passing run has a mutated operator, a plausible
slip in the code named in a comment starting with `Mutant:` before the definition it
would replace, under which TLC finds the property violated.

## 5. Findings

Six statements of the repository's documentation that the code does not keep;
details and lines in `PROJECT.json`.

1. **PostgREST, two writers** (`rest_race`). Both read version *n*. The second
   upsert overwrites `content_docs`, its insert conflicts, `put` raises, and its
   text is what `get_instruction` serves. The adapter claims the contract of
   the asyncpg one, where `RefusedPutsVanish` is a theorem.
2. **PostgREST, a caller gives up** (`rest_giveup`). Between the two requests a
   lost connection or a cancelled call leaves a current version that the
   "append-only history (revert/audit)" does not hold.
3. **Run stack, overlapping calls** (`session_race`). A `run_start` between the
   read and the write of a `run_finish` is overwritten; later calls are logged
   without run_id although the instructions promise correlation. Needs two
   calls of a session in flight and a session store whose awaits suspend.
4. **Tenant of the check and of the write** (`access_switch`). `grant` resolves
   the tenant twice with an await between; the README says the scope is
   injected "à chaque appel". Needs an orchestrator whose answer for a user can change
   during a call; with a constant resolver it cannot happen.
5. **A cancelled call is not logged** (`calls_cancel`). `except Exception` does
   not catch `CancelledError`: a call cancelled while its tool runs has no row,
   even when its write took effect, though "TOUT accès est loggé".
6. **A cut listing misses keys** (`calls_listing`). `PostgrestMemoryStore.list` asks
   for every version of every note without a range and drops the older ones itself. A
   PostgREST with a maximum of rows cuts the answer, and the last keys are missing,
   though `memory_list` "liste les clés" and the adapter claims the contract of the
   asyncpg one, whose `DISTINCT ON (key)` returns all. Needs a table with more
   versions than that maximum. `ListingCurrent` says what remains true.

## 6. The proofs

Every safety property of the passing runs, the three refinements of
`VersionedStore` and the one of `RunFrame` included, is a theorem, for every value
of the constants that the modules' assumptions allow: any sets of calls, agents,
users, tenants, keys, documents, plans and faults. No proof assumes fairness or a
bound on calls. The last column says what a theorem needs beyond the assumption of
its module.

| theorem | statement | needs |
|---|---|---|
| **VersionedStoreProofs** | | |
| `PutsEnterOnce`, `AnswersArePositions`, `RefusedPutsStayOut` | `Spec => []EnteredOnce`, `[]AnswerIsPosition`, `[]RefusedStaysOut` | |
| `HistoriesStand`, `AnswersAreFinal`, `LaterPutsStandAbove` | `Spec => HistoryStands`, `AnswersStand`, `LaterIsAbove` | |
| **PgStoresProofs** | | finitely many calls |
| `TypeCorrectness` | `Spec => []TypeOK` | |
| `HeadAgreesWithHistory` | `Spec => []LatestIsLastRevision` | |
| `AcknowledgedVersionsStay` | `Spec => []AcknowledgedIsDurable` | |
| `RefusedPutsVanish` | `Spec => []RefusedLeavesNoTrace` | |
| `Implementation` | `Spec => Contract`: the asyncpg adapter implements `VersionedStore` | |
| `CallersMayRely` | the six consequences of the contract, inherited | |
| **RestStoresProofs**, **RestStoresRefinement** | | |
| `TypeCorrectness` | `Spec => []TypeOK` | |
| `AcknowledgedVersionsStay` | `Spec => []AcknowledgedIsDurable` | |
| `RefusedPutsStayOut` | `Spec => []RefusedNotInHistory` | |
| `NoteVersionsHaveNoHole` | `Spec => []NotesContiguous` | |
| `KeptReadsAgree` | `Spec => []LatestIsLastRevision` | |
| `HistoryIsAppendOnly` | `Spec => HistoryAppendOnly` | |
| `Implementation` | `Spec => Contract`: for the kept keys the PostgREST adapter implements `VersionedStore` | |
| `CallersMayRely` | the six consequences of the contract, for the kept keys | |
| **AccessProofs** | | |
| `TypeCorrectness` | `Spec => []TypeOK` | |
| `GateIsNotBypassed` | `Spec => []GateHolds` | |
| `NobodyWritesUnchecked` | `Spec => []SomewhereAllowed` | |
| `GrantsAreAdministered` | `Spec => []GrantsChangedByAdmins` | `Settled` |
| `WritersHaveRole` | `Spec => []WritesNeedRole` | `Settled` |
| `NoAdminNoChange` | `Spec => FrozenForGood` | `Settled` |
| **RunSessionProofs** | | |
| `TypeCorrectness` | `Spec => []TypeOK` | |
| `RunsAreUnique` | `Spec => []NoRunTwice` | |
| `RunsAreNested` | `Spec => []Nested` | |
| `OnlyOpenedRunsAreNamed` | `Spec => []RunsAreReal`: rows and answers name runs that were opened | |
| `OpenRunsStay` | `Spec => []OpenRunsOnStack` | `~Parallel` |
| `FinishIsReportedOnce` | `Spec => []ReportedOnce` | `~Parallel` |
| `CallsAreCorrelated` | `Spec => CallsCorrelated` | `~Parallel` |
| `Implementation` | `Spec => Promise`: a session implements `RunFrame` | `~Parallel` |
| **ToolCallsProofs** | | |
| `TypeCorrectness` | `Spec => []TypeOK` | |
| `CallsAreJournaledOnce` | `Spec => []RowsOnce` | |
| `JournalIsTrue` | `Spec => []JournalTruthful` | |
| `NoCallIsForgotten` | `Spec => []Accounted` | |
| `VersionsAreNames` | `Spec => []VersionsNameTexts` | |
| `LostWritesShow` | `Spec => []LossShows` | |
| `DigestsFollowTime` | `Spec => []DigestFollowsTime` | |
| `ListingIsAlwaysCurrent` | `Spec => []ListingCurrent` | |
| `Implementation` | `Spec => Contract`: the tools implement `VersionedStore` towards agents | |
| `CallersMayRely` | the six consequences of the contract, for agents | |

The hypotheses in the last column are those under which the runs check the same
properties, and each is needed: `session_race` violates `CallsCorrelated` with
overlapping calls, `access_switch` has a caller who changes the grants of a
tenant he was no admin of. `Settled` says that callers keep their tenant (`Movers` is empty), or that
there is one tenant only, which they may lose and regain at any moment.
`NobodyWritesUnchecked` is what remains without it.

Each module has an inductive invariant `IInv`, its preservation (by one lemma per
conjunct, or in `ToolCallsProofs` per action), `Invariance == Spec => []IInv`, and
the properties as consequences. TLC has checked each invariant on small instances.

### The contract

`EnteredOnce`, `AnswerIsPosition` and `RefusedStaysOut` are inductive together and
not one by one: `Accept` keeps a refused call out because it looks at the outcome,
`Refuse` one that is in because it looks at the history, and `Confirm` returns a
position that appending keeps. `VersionedStoreProofs` proves this once. The three modules
with an `Implementation` instantiate it with their refinement mapping (`Inherited`),
`SameContract` says that the two instances have one specification, and
`CallersMayRely` follows: versions are in the order of time for a transaction,
for three HTTP requests and for an agent's tool call by the same argument.

### Stores on Postgres

`LatestIsLastRevision` is not inductive: a transaction about to commit an old
version would break it. `IInv` adds what the transactions have to be like:

- `Contiguous`: committed versions are 1..n and the head repeats the n-th;
- `Computed`: a transaction past its SELECT has a version of at most n + 1;
- `Reserved`: one that has inserted its row has n + 1 exactly, and is the only
  such of its key;
- `Ownership`: the committed rows belong to the committed calls;
- `Informed`: what the caller was told agrees with what the server did.

The argument is that the primary key of the revision table decides. A
transaction can insert only a version that is not committed and not in doubt;
with `Computed` that is n + 1, so at most one transaction of a key is between
INSERT and COMMIT, and when it commits the versions stay contiguous while all
others are left with an old version and must conflict. The row lock of
`content_docs` plays no part in safety: `Reserved` is preserved by `InsertRow`
alone. It only decides who waits where.

`Implementation` maps `Commit` to `Accept`, `Return` to `Confirm`, `RowConflict`
to `Refuse`, `Abandon` to `GiveUp` and everything else to stuttering;
`NewRowIsAppend` turns the table of versions into a sequence.

### Stores on PostgREST

There is nothing to roll back, so `Ownership` speaks of single rows: a row belongs to
the call whose insert was served, at the version that call computed. With the
primary key that alone gives the three theorems that hold under every fault. For
notes `Computed` and `Contiguous` repeat the argument above. The head row of a document is
another matter: `InStep` says that it is either level with the last revision, or one
ahead while a single put is between its two requests. This is inductive only
for documents with one put at a time whose callers wait (`Sole`): `Alone` says
that no second put runs and none was given up, and `rest_race` and
`rest_giveup` show that both are needed. In the refinement `ServeInsert` is
`Accept`: the contract speaks of the history, and what a reader of the head row
sees between the two requests is outside it, as it is outside `KeptReadsAgree`.

### The run stack

With overlapping calls the stack loses runs and gets finished ones back, so no
invariant of the stack alone is inductive. What all the values it takes have in
common is that each was edited from a copy of an earlier one, by a single call:
`WellFormed` is stated for the stack *and every call's copy*. Its runs were
pushed, each once, and the runs below a run are in the copy its `run_start` had
read. Copies of a `run_start` past its write do not change, which makes this
inductive under any interleaving. With one call at a time `OneAtATime` makes the
copy at a write equal to the stack; `Answered` relates what was reported to how
far a call has come, `KeptOpen` says that a run leaves the stack only once a
finish was sent, and `Gone` that a finished one is not pushed again. `Promise` follows
step by step: `Stamp` is `Enter`, `Write` is `Start` or `Finish`.

`OnlyOpenedRunsAreNamed` is what the journal keeps when calls overlap: a lost update
may leave a row without its run, or with another, but never with the id of a
`run_start` that failed or was cancelled before its write. `RInv` says so of every
run of every copy, because a stamp comes from the stack and a finish from its copy.

### Access

The invariant is about `had`, the rights a caller has held since the call was
issued: `Current` says that whoever holds a right now has it in `had`, `Checked` that
a call past its check found its right in the tenant it can still resolve, and
`Written` that this is the tenant it wrote to. `CheckSeesRight` shows that
both checks, the exact match of a grant and the rank comparison of `at_least`, look
at rights in that sense, for roles outside the hierarchy too (`RankIsHierarchy`).
For a *required* role outside it `UnknownRequirementIsOpen` says that everybody
has it, which is why `AccessAssumption` excludes it.
`NoAdminNoChange` is a step property: a tenant is `Frozen` when nobody is
its admin and no administration call is past its check, be its caller without a
tenant for the moment.

### The logger, the sinks and the agents

- `Progress`, `Rows`, `Accounted`: a call has an outcome from the end of its tool on;
  a row, inserted or pending, is of such a call and repeats its outcome; no call
  has two, and every such call has one or its loss is on record.
- `Numbered`: the entries of a key are the seeds, then versions counting from the
  last seed. `VersionsAreNames` is its consequence.
- `Caused`, `Effective`: what the tables hold of a call is what it asked for and
  got, at most once; what it was told it did is there. Together with `Rows` this is
  `JournalTruthful`.
- `Informed`: what agents know of a key, what calls were issued with and what
  they were answered is nothing or the text of a version that was once the latest.
- `Merged`: the property `LossShows` for every entry, acknowledged or not.

`Merged` is where these meet. A put that gets the version after the one its agent
knew found the latest version equal to that one; `Numbered` says versions from
the last seed on do not repeat, so by `Informed` what the agent knew was the latest text itself,
and the new text holds all that it held. An agent who knew nothing has version 0
and passes only on a key without puts.

`ListingCurrent` is about a sorted, cut and deduplicated answer. `Position` counts the
rows before a row; the table is finite in every reachable state, so `Position`
is strictly monotone in the order of the answer, and the cut page is closed under
earlier rows. The newest row of a key comes before its other rows
(`LatestRowIsFirst`, from `Numbered`), so a page with any row of a key has the newest, and
the first of each key is it. When nothing is cut, every key has a row; when a key is
listed, the rows of all keys before it are on the page.

`DigestFollowsTime` rests on `Timed`: `begun` has no call twice, every signal in the
table has begun, and what was acknowledged before a signal was sent began before
it did, in whatever order the two appeared in the table. `NewerDecreases` says that a later
row has fewer rows after it, so the digest is closed under later rows, and
`DigestIsNotEmpty` that one row has none.

`Implementation` maps `Put` to `Accept`, `Return` to `Confirm`, `Refuse` to `Refuse`
and an error to `GiveUp`; a cancelled call stays open, its text in or not. `Caused`
gives what `Accept` and `Refuse` require, that the call is in no history yet;
`Effective` and `Numbered` what `Confirm` requires, that the version answered is the
position of the call's text above the seeds.

### Only model-checked

- Liveness under fairness (`PutsEnd`, `AnsweredIsJournaled`). The safety half of the
  latter is `NoCallIsForgotten`.
- The violations of section 5, by their nature.

Tuples are taken apart with `w[1]`, `w[2]` rather than patterns, and `RunFrame`
names the position a finish removes rather than filtering the sequence, because
the provers reason about neither patterns nor recursive filters. `Listing` is the set of rows
that the loop of `list` keeps, not a fold, for the same reason: induction over
sequences is out of their reach.

## 7. What is not modelled

- A `set_state` that raises is taken not to have written; a remote session store may
  do otherwise (section 2).
- FastMCP's dispatch, httpx, asyncpg and Postgres: modelled only as far as
  the code relies on them (session state, one outstanding request, READ
  COMMITTED with row locks and unique indexes, pool limit). Two statements of
  PostgREST in one HTTP request do not occur.
- `SCHEMA_SQL` as text: the primary keys are modelled where they decide;
  `init_schema` is left (section 2). A required role outside the hierarchy,
  which every caller would reach, is excluded by `AccessAssumption`.
- Late effects of requests whose caller has given up are in `PgStores` and
  `RestStores`; `ToolCalls` has such an effect before the failure or never. The
  pool that puts and sinks may share is in `PgStores` with puts only.
- `doctrine:<name>` grants: they can be stored, no code reads them.
- `on_list_tools`: it changes nothing and decides with the gate's own test on the
  grants of the moment; a list is a snapshot, and `GateHolds` speaks of calls.
- What the adapters make of a caller without identity: in `Access` he holds no grant,
  as the NULL of the asyncpg adapter gives; `PostgrestGrantStore.grants` writes the
  missing `sub` as the text `None`, which matches nobody unless a user has that name.
- A restart of the server: it keeps nothing but the tables, and `ToolCalls` ends
  with the process.
- Texts: names, bodies, formatting, the DSN and headers. Of timestamps only the
  order of signals is modelled, without ties.
- `Rbac.require` (the synchronous variant) has no caller in the package.
- Models, server instructions, package exports, demo and CI have no behaviour of
  their own.
- The parts marked `partly` in `PROJECT.json`, for the reasons given there.
