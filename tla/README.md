# Agent First: specifications

TLA+ models of the Agent First server (`src/server`, Rust: axum, tokio, sqlx,
PostgreSQL), their model-checking runs, and theorems about them that TLAPS
checks. Line numbers refer to the repository at the commit beside which this
directory is kept.

    tlc -workers 2 -config MCMemoriesWrite.cfg MCMemories.tla     # one run
    tlapm AccountsProofs.tla                                      # one module of proofs

`PROJECT.json` maps every definition to the lines it models and lists the runs,
the mutants that show each property can fail, the findings, the hazards and the
theorems.

## The system

Agents (programs) write down experiences, *memories*, and search those of others;
developers own the workspaces their agents work in and decide what becomes
public. One server process serves an HTTP API over one PostgreSQL database.

| Component | State | Operations | What makes it correct |
|---|---|---|---|
| Read rule (`auth.rs`, `authz.rs`, and SQL in five handlers) | none | who the caller is, which rows it may read | all copies of the rule decide the same |
| Memories (`store.rs`, `handlers/memories.rs`) | `memories`, `memory_evidence`, `memory_relations`, `gap_memory_links` | create, import, list, get, publish, remove | the owner decides what is public; a removed memory has nothing left and never comes back; a batch is all or nothing; get shows nothing the caller may not read |
| Feedback (`handlers/feedback.rs`) | `memory_feedback` | rate a memory, as an agent or as its owner | ratings are of memories the rater may read |
| Gaps (`handlers/gaps.rs`) | `experience_gaps` | create, list, get | as for memories |
| Search (`search.rs`, `handlers/search.rs`) | none | two channels, lexical and semantic, merged by rank | what is found may be read; the order is total and favours what both channels found |
| Embedding client (`embed.rs`) | the breaker: failures in a row, open until | embed a text, at most 3 s, off for a while after three failures | an outage of semantic search is bounded and ends by itself |
| Rate limiter (`ratelimit.rs`) | a map of windows behind a mutex | `ensure_rate` | nobody gets more than the allowance, and the map is bounded |
| Accounts (`handlers/developers.rs`) | `developers`, `developer_sessions`, `workspaces` | claim, login, renew an invite, set the policy, delete the account | one owner, for good; deletion leaves nothing behind, and fails only for what appeared meanwhile |
| Agents (`handlers/agents.rs`) | `agents`, `agent_keys` | register, create, rename, rotate the key | one live key per agent |
| Start and background (`lib.rs`, `state.rs`) | the pool of ten connections, the http client | hand out connections; session cleanup every six hours | no request waits for good; the cleanup deletes no session that is live |
| Client address (`net.rs`) | none | the address a rate is counted for, behind proxies | a client cannot choose it |
| Public pages (`handlers/public.rs`), meta, routes, wire formats, configuration, validation, redaction | none | read-only, or pure | outside the models, see below |
| Web console (`src/web`) | React state | fetches over the API | not modelled, see the plan |

**How they interact.** Every request is a tokio task; at each `await` another may
run. A handler authenticates in one statement, checks in a few more, and then
writes, often in a transaction opened after the checks. PostgreSQL runs at READ
COMMITTED: *each statement* has a snapshot of its own, so what a handler checked
may be gone when it writes. Searches share the breaker; `insert_memory` and
`create_gap` call the embedding service past it. Registration, claims, logins, searches
and the creation of memories, gaps and ratings share the rate limiter, and all handlers
share a pool of ten connections.

**What is hard.** Checks separated from the writes they guard; transactions that
read through *another* connection (`insert_memory` calls `can_read_memory` on the
pool while its own transaction is open); deletions written out table by table that
race with inserts into those tables; row locks taken in different orders; requests that
hold a connection of the pool while they ask for another; outcomes
of embedding calls that arrive after the breaker has changed; a batch that fails
half way; one rule in eight copies. The "hazards" of `PROJECT.json` list them with
their lines.

## The modules

| Module | Models | Role |
|---|---|---|
| `ReadRule` | principals, `read_scope`, and every copy of the read rule | used by `Memories` |
| `Memories` | create, import, publish, remove, rate and get, statement by statement | the core; extends `ReadRule` |
| `Lifecycle` | what the server promises about one memory | abstract specification; `Memories` implements it |
| `Accounts` | workspaces, developers, agents, keys, sessions and the requests over them | |
| `RateLimiter` | the map of windows with eviction and capacity | |
| `RateHistory` | the limiter with the calls it granted | a history variable: `allow` keeps a count per window only |
| `Quota` | an allowance per key | abstract specification; `RateLimiter` implements it |
| `EmbedBreaker`, `EmbedOutage` | the breaker under concurrent searches; with a clock of the time since the last call | |
| `AccountDeletion` | `delete_developer_account` statement by statement and row by row, against the requests over accounts, memories, gaps and ratings, under the foreign keys of `0001_init.sql` | the schema in full; `Accounts` and `Memories` have what their handlers meet of it |
| `ConnPool` | the pool of connections under requests that need one, and requests that need a second | |
| `ClientIp` | `net.rs`: trusted networks and the walk over `X-Forwarded-For` | pure operators, and the chain of proxies that feeds them |
| `Ranks`, `RankLists` | `merge_ranks`, and the lists of two channels that it merges | pure operators, and the channels that find one memory after the other |
| `Search` | `search`, `get_gap` and `related_gaps_for_query`, statement by statement | composes `Memories` and `Ranks` |
| `MC...` | instances for TLC | |
| `...Proofs` | theorems | extends the module it is about |

### How state and actions correspond to the code

*Memories.* A row is absent, live or removed (`removed_at`). Text, tags and vectors
are left out: no modelled decision reads them. The four child tables are one set of
records with a `table` field. A handler is a *slot* with a program point `pc` and the
locals it carries between statements; the slots of a kind are the requests of that
kind that can be in flight together. One action is one statement, or a run of
statements that nothing else can tell apart: `insert_memory` is `StartItem`
(the early refusals and the await on the embedding), `CheckRelation` (one
`can_read_memory` on the pool per relation) and `StageItem` (the INSERTs, which stay
in the slot until `CommitImport`). `remove_memory` is five actions, because its row
locks are what other removals wait for: four DELETEs and the UPDATE that scrubs the
row. A request that returns an error, is dropped by axum because the client went
away, or dies with the server is a `Drop...` action: nothing is persisted but by a
commit. `create_memory` is an import of one.

*Accounts.* Tables are functions from ids to rows; a row is unused, live or gone,
keys can be revoked and sessions expired. Ids stand for what the server draws at
random (UUIDs and tokens) and are never drawn twice. `SELECT ... FOR UPDATE` is a
guard over the other slots (`ClaimHolds`, `RotationHoldsIn`); when the lock is
granted the statement looks at the row again, which is why the guard and the
condition stand in one action. Foreign keys are guards of the INSERTs; ON DELETE
CASCADE is part of `DeleteAccount`, which is the commit of
`delete_developer_account`: the ids that the handler read before may miss an agent,
and the cascades catch it. Owner checks that precede a lock in an earlier statement
are merged with it; between them only an expiring session could act, and it does so
just as well afterwards.

*Search.* A search is five statements with the await on the embedding in their midst:
`BeginSearch` (lexical), `FetchSemantic` or `SkipSemantic` (the vector came or did not),
`FetchGaps` and `FetchLinks` (`related_gaps_for_query`), `FetchSummaries`. `get_gap` is
`BeginOpen`, `FilterReadable`, `FetchLinked`. What text matches is data: a channel
returns any list of the rows that its WHERE lets the caller see, and `Ranks` merges the
two. They read beside every handler of `Memories`, whose steps are steps of `SNext`.
`BeginOpen` joins the check of the gap to the selection of its links, since no handler
changes a gap.

*AccountDeletion.* A row is its table and its references; `live` is what is committed,
and `tx` has each request in flight with the locks it holds. A statement is as many
actions as it locks rows: `StartStatement` takes its snapshot (`Targets`: the WHERE of
the statement), `Take` locks one more row and waits for whoever holds it, `Pass` finds it
gone, `Fire` runs the triggers of a deleted row (CASCADE adds its children, RESTRICT and
the CHECK on a rating's author `Refuse` the deletion). `Begin` is what a handler looks up
before it writes, for a deletion the ids of its workspaces and of their agents
(`developers.rs:139`). What is not in this repository, the locks and triggers of
PostgreSQL, is external in the map. Inserts of other handlers are lists of rows.

*ConnPool.* Any handler without a connection of its own is `Ask` and `Finish`, statement
by statement. `create_memory` and `import_memories` are `Begin`, then any number of
`Check`s up to `MostAwaits` with the transaction open (`can_read_memory` and
`can_read_gap` go to the pool), then `Finish`. The queue of sqlx is first come, first
served; `TimeOut` is its acquire timeout, which the code leaves at 30 s.

*ClientIp.* `SharesPrefix` has the shift of `is_trusted_proxy` with its width: a
register of `Wide` bits shifts by a count modulo `Wide`. `Write` is what a client puts
into the header, `PassOn` a trusted proxy, which appends the address it got the request
from. The server reads the first `X-Forwarded-For` line only, and the proxies are assumed
to append to it.

*RateLimiter.* The mutex makes a call of `allow` one action. `Tick` is
`Instant::now()` going on. *EmbedBreaker.* A call takes the lock twice, once to ask
and once to report, so it is two actions with any number of others in between; the
cooldown and the age of a call are counters that `Tick` moves.

## The runs

Every run that passes finishes its whole state space. Deadlock is checked except
where the instance really stops: the id pools of `Memories` and `Accounts` run out
(`Search` has those of `Memories`), the requests of `AccountDeletion` end (what waits in a
circle there `BreakDeadlock` aborts), the lists of `RankLists` and the headers of `ClientIp`
are full, and the clock of `RateLimiter` stops at `Horizon`.

| Run | Question | Bounds |
|---|---|---|
| `memories_write` | can writers break the tables or the promise of `Lifecycle`, and what makes the check of a relation stale? | batches of up to two, two memories, one gap, one import, publication and removal at a time, with claims and policy changes in two workspaces |
| `memories_read` | can a read in several statements serve what it may not, which checks go stale, do the copies of the read rule agree, and does the inductive invariant hold? | one memory of an agent in one of two workspaces; an import, a publication, a rating and a removal around a read. The rule compares one row with one caller, so that an own and a foreign one of each kind are all cases |
| `accounts` | can two claims, two rotations, or a deletion and a login, leave an account, a workspace or an agent in between, and does the inductive invariant hold? | two workspaces, two accounts and login names, two agents, three keys; two claims, two rotations, a registration, an invite renewal and a login against expiry, cleanup and deletion: two of whatever races |
| `rate_limiter` | does forgetting windows give calls away, and what does a key get in a span that lies across two windows? | three keys with three windows, eviction from one window on, room for two: every call meets both thresholds |
| `embed` | how long is semantic search off after the last call, and does the breaker always let searches through again? (liveness) | five searches, threshold 2: enough for late failures to open the breaker twice |
| `search` | can a search or `get_gap` show what its caller may not read, and does a related gap have a solution the caller sees? does the inductive invariant hold? | one memory, one gap, one agent, with its owner and an anonymous caller beside it; one each of import, publication, removal, search and `get_gap`. Each property is about one memory and one caller, and other memories and callers take no part in what is readable. `limit` cuts nothing off here: a longer list only has more items to check |
| `account_deletion` | does a deletion that answers leave anything, what refuses one, and who waits in a circle? | two accounts that related, rated and linked each other's memories, so that each foreign key and each table two handlers share has a row of either side; any three of twelve requests at once, both deletions with an import and a fourth, and the circles that take more (520,707 states): one memory removed twice beside a deletion or an insert, three removals of memories that name each other, and two removals beside a deletion and the import of a row that the deletion meets late |
| `conn_pool` | how long can creations block the server, and does every request end? (liveness) | two connections, four requests, timeout 2, one check per creation (102,509 states): two creations take the whole pool and two more requests wait behind them |
| `algorithms` | is the order of the results total, and does it favour agreement? is a request counted for its sender, whatever it writes into its headers? | every pair of lists of up to three of four ids, `RRF_K` = 2, where three candidates are the most the assumption admits; addresses of one and of two bits, every network of either family with every prefix, alone and beside another, and headers of up to three entries (707,240 states) |

The bounds of the models themselves are constants named in the modules:
`ImportMaximum` (100 in the code), `InviteMaximum`, `Horizon` and `MostRefused`
(calls counted beyond the maximum), `Limit` of `EmbedOutage`, `Arrivals` of
`AccountDeletion`, `MostAwaits` of `ConnPool`, `MostEntries` of `ClientIp`. The safety runs of
`Accounts` use symmetry over ids and slots; no property of theirs names one.

**Fairness.** `conn_pool` assumes that the clock goes on, that the pool serves its queue,
and that a request which has what it waits for ends it or takes the next step: PostgreSQL
answers, and the http client ends an embedding after 3 s. No client has to go away, and
nobody has to ask. `embed` assumes that time passes and that the http client ends
every request at its timeout (`state.rs`, 3 s); nobody is assumed to search, so the
property says that the breaker lets through, not that calls succeed.

### What the violated runs show

Each states what a document, an error text or a test says, and TLC finds a run of the
code that does otherwise.

| Run | Said | Done |
|---|---|---|
| `publish_removed` | "已移除的经验不能公开" (`memories.rs:358`) | `publish_memory` checks, then updates by id: a removal in between is published over. The row stays removed, so nobody reads it |
| `late_feedback` | removal deletes the sensitive content (`API.md:134`) | a rating inserted after the removal keeps its note |
| `half_open` | a half-open state (`ARCHITECTURE.md:93`) | after the cooldown the breaker is closed, and takes three failures to open again |

Six more statements of the documents do not hold of the code; they follow from a
line or two of it and have no run of their own:

- `API.md:131` says that a rotated invite is void at once; `register_agent` looks the
  workspace up by its invite without a lock (`agents.rs:46`) and inserts the agent
  statements later, so that an agent which showed the old invite before the rotation
  joins after it. `BeginJoin` and `InsertAgent` model it.
- `API.md:45` says that the agents of an unclaimed workspace write private memories
  only; `insert_memory` (`store.rs:34`) takes `developer_shared` from them as well, and
  `server/tests/api.rs:324` expects it. `StartItem` and `Audience` model it.
- `API.md:85` says at most 5 an hour; the window is fixed (`ratelimit.rs:38`), and up to
  twice as many fall into one hour. `TwiceInAnySpan` shows that it is never more.
- `ARCHITECTURE.md:157` says that a removal leaves no dangling relation; a relation that
  was checked before the removal is committed after it (`store.rs:67`). It is the
  removal that `OnlyRemovalMakesChecksStale` has to except.
- `SKILL.md:127` says that the developer's policy decides on a request to publish; the
  policy is read when the agent is authenticated and used after the embedding of each item
  (`store.rs:41`), so that an owner who switches to manual meanwhile still sees `auto`
  applied. `BeginImport` and `StartItem` model it.
- `API.md:142` admits networks as trusted proxies; `::/0` is accepted, and trusts its base
  alone in a release build (`net.rs:49` shifts 128 bits by 128). `TrustIsByPrefix` has to
  except it.

Also worth knowing, though no document says otherwise:

- Requests can wait for each other in a circle, and PostgreSQL aborts one of them, which its
  sender sees as an internal error: two deletions of accounts whose memories rate or relate
  to each other, for each holds rows that the other wants; a deletion and an import of the
  account's own agent, or the removal of one of its own memories; two removals of one memory,
  when two of its rows lie in one table; three of memories that relate to each other.
  `CirclesAreInOneTable` says what cannot happen, see the proofs.
- An agent that joins, rates or writes after `delete_developer_account` has read its ids
  is caught by CASCADE, or has the deletion refused as a whole: nothing is left half done
  (`AccountLeavesNothing`), and a second try succeeds unless that happens again (`RefusedForNewRowsOnly`).
- A header that `to_str` refuses is skipped, and `X-Real-IP` stands in for it: behind a
  proxy that passes that one on as it came, the sender chooses its address there.
- Lengths are checked before trimming and on other bounds than the schema has: an action
  of one space, or a login name of two letters, passes validation and fails the CHECK, as
  an internal error (`security.rs:86`, `0001_init.sql:6`).

## The proofs

TLAPS proves these for every value of the constants, from the named assumptions of
the modules and nothing else.

*Memories* (`MemoriesProofs`). `IInv` is inductive. The properties alone are not:
`RemovedIsStripped` needs to know which tables an open removal has been through and
that no import in flight will insert rows of a memory that exists (`RemovalsOK`,
`ImportsOK`), `PublicHasOwner` needs that the policy an import read came from a
claimed workspace and that the owner a publication checked is still the owner
(`ChecksHold`), and the rest needs rows to have authors and targets to exist
(`RowsOK`, `TargetsOK`). From it follow each invariant, the action properties
(`ServedIsReadable`, `ImportIsAtomic`, `OnlyRemovalMakesChecksStale`), and
`KeepsPromise`: every step is a step of `Lifecycle` or changes nothing there.

*Accounts* (`AccountsProofs`). `IInv` adds to `OneLiveKey`, `NoOrphans`,
`DeveloperOwnsOne` and `OneWayIn` what the locks are for: an open claim has its
workspace and its account to itself (`ClaimsOK`), an open rotation has its agent to
itself and has revoked all of its keys (`RotationsOK`), an invite is renewed in a
workspace that has an owner (`RenewalsOK`). The theorem that a claimed workspace
keeps its owner (`OwnersAreFinal`) is an action property over the same invariant.

*RateLimiter* (`RateLimiterProofs`). The map is bounded, and the limiter implements
`Quota` for any maxima, windows, retention, eviction and capacity: an evicted window
is at least `Retention` old, and no window is longer, so its allowance was whole again.
What a key gets in a span is an invariant over the history of `RateHistory`: the calls
since the window of a key was opened are no more than it has counted, and those before it
that the span still reaches no more than one maximum (`SpanInv`); when a window goes, all
its calls become earlier ones. That the history loses no call is a theorem of its own
(`EveryGrantIsCounted`), without which the bound would say little.

*AccountDeletion* (`AccountDeletionProofs`). That a deleted account leaves nothing is no
invariant by itself: it takes that the foreign keys hold between any two actions
(`KeysOK`). `IInv` adds what makes them hold: locks are on live rows and exclude each other (`LocksOK`), what
an INSERT refers to is locked by it, its own, or about to be locked (`StagedOK`), what
refers to a deleted row is deleted, locked to be, or comes with a trigger that has yet to
fire (`ChildrenOK`), no id is inserted twice (`LiveOK`), and a developer goes after its
workspaces, so that no trigger leaves one without an owner (`DevelopersOK`). For
`RefusedForNewRowsOnly` a second invariant `DInv` follows the twelve statements: after
each, the rows of the tables it is done with are gone but for those that were committed
since. It rests on `AuthorsAssumption`: an agent writes in its own workspace, which the
handlers see to and no constraint of the schema does. The behaviour of PostgreSQL is part
of the model, and what is proved is proved of the two together.

`CirclesAreInOneTable` is about the sets of transactions that wait for each other, each for
one more of the set, when no smaller set will do. A third invariant `KInv` says which tables
each kind of request has locked rows of by the statement it has reached: an INSERT
changes none of its locked rows, so that it waits for those alone who delete or hold what it
names (`InsertOK`); a removal locks what names its memory, table by table (`RemovalOK`);
a deletion goes through feedback, relations and links in this order (`AccountOK`). So
whoever waits for another is no further than the other among the tables that they share
(`RemovalsInOrder`, `RemovalWaitsForDeletion`, `DeletionWaits`), and a measure that never
shrinks along a circle is the same all along it (`OneLevel`, from minimality). Hence they
are all in one statement of one table. Two of its hypotheses are there because without them
TLC finds a circle that crosses tables on the instance of `account_deletion`: with the removal
of a memory of the deleted account, because a deletion takes memories together with what
names them (CASCADE, and the first statement before the fourth on the same table); and with
a row that was committed after the deletion had passed its table (`Undisturbed`), which the
cascade of a later statement locks, out of order. Circles with two deletions are left out
because the measure does not order deletions among themselves; nothing is claimed of them. A circle of two
removals is about one memory: two different ones share one relation row at most
(`RelationsAssumption`, which `validate_memory_input` provides), and nobody can hold and want
the same single row (`PairsShareTheirMemory`). Deleting from `memory_relations` before
`memory_feedback` in `remove_memory` breaks the property: the mutant does that.

*ConnPool* (`ConnPoolProofs`). A stall is never longer than the wait of each request that
takes part in it (`StallOK`), who is in the queue waits and is there once (`QueueOK`), and
no wait is longer than the timeout: so creations never block the server for longer, for
any pool size, timeout and number of requests.

*EmbedBreaker* (`EmbedOutageProofs`). A failure restarts the cooldown, but only a call
no older than `Timeout` can fail: `cooling + quiet <= Timeout + Cooldown`.

*Ranks* (`AlgorithmsProofs`). The two arithmetic facts the order rests on, for every
`RRF_K` and any number of candidates up to `RRF_K + 1` (the code has 60 and 20): two
ranks score more than one, and better ranks score more. Scores are fractions, and compared
by products: that the comparison is total and transitive is arithmetic over positive
denominators (`RanksAreTotal`). The lists name nothing twice (`ListsInv`). A strict total order on a finite set
puts exactly one member in each place: the members before an id are a subset of those
before any later one, and a set of numbers that maps one to one into its own size is all of
it. So `MergeRanks`, which takes for place i the id with i - 1 before it, shows the first
`limit` of the order (`ShownByTheSort`), and what scores more is shown first
(`BothChannelsAreShownFirst`, `BetterRanksAreShownFirst`) after the cut as well.

*ClientIp* (`AlgorithmsProofs`). Behind the entries that the sender wrote come its own
address and then trusted proxies only; the last entry that no network trusts is the
sender's (`SendersAreCounted`), for any networks and any length of the header. Nothing of
how a network is matched is used there. `TrustFollowsPrefixes` is about the match: two
numbers shifted right are equal when their leading bits are, by a least bit in which they
would differ; powers of two come from the number of subsets of a set (`FS_SUBSET`), and
the induction from the least member of a set of naturals, since the induction theorems of the
library take an operator.

*Search* (`SearchProofs`). Every step of `Search` is a step of `Memories` or leaves its
variables alone, so that all theorems about `Memories` hold beside searches
(`SpecBelow`). `SearchIInv` adds that every id and every gap in the hands of a request
was readable to its caller when it was found, and that it still is or has been removed
(`FoundOK`); that is inductive because no write but a removal narrows who may read a
memory. From it follow `FoundIsReadable`, `ReadableUntilRemoved` and
`RelatedGapsAreClosed`.

*ReadRule* (`MemoriesProofs`). The copies of the read rule agree on every row and for
every caller; with the type invariant of `Memories` it follows that they agree at every
reachable state (`CopiesKeepAgreeing`).

**Only model-checked:** the liveness properties `RequestsEnd` and `LetsThroughAgain`:
fairness and ENABLED are out of the prover's reach. Every other property of the runs that
pass, invariants, action properties and the two refinements, is a theorem. An induction
over data is out of reach in the form of the library's theorems, which take an operator as
a parameter; where one is needed it is by the least member of a set, or by a cardinality.

That removals always end is not claimed: rows of one statement are locked one by one in an
order that PostgreSQL does not promise, and it may abort a request that waits in a circle.

## What is not modelled, and why

- *Account deletion within `Memories` and `Search`*: their tables keep their agents and
  owners. `Accounts` has the deletion as one step beside the other requests over accounts,
  and `AccountDeletion` row by row beside those over memories; what a search shows while
  an account is deleted is in neither.
- *The index and unique constraints a request may wait on*, but for the login name and the
  claim code of `Accounts`: ids are drawn at random.
- *Validation, redaction, hashing*: inputs of the models have passed them; tokens are ids.
- *The console*: see the plan.
- *`rename_agent`, `developer_overview`, `list_memory_feedback`, `list_gaps`, public pages, meta*: they
  change nothing that a property tells apart.
- *Columns that no handler ever sets* (`agents.revoked_at`, `developer_sessions.revoked_at`,
  `experience_gaps.removed_at`): always NULL in the models.
- *Rounding of scores*: `Ranks` has fractions. Among the ranks of the server no two
  different sums are close enough for f64 to confuse them, and the two terms of equal
  sums are the same.
- *A restart*: it loses the rate limiter and the breaker, which start empty and closed,
  and drops every request, as the models do one by one.

## Plan

Done: `ReadRule`, `Memories` with `Lifecycle`, `RateLimiter` with `Quota`,
`EmbedBreaker`, `Ranks`, `Accounts`, `Search`, `AccountDeletion`, `ConnPool` and
`ClientIp`, each with its run and proofs. Open:

1. `AccountDeletion`: the order of all its statements for the circles of two deletions,
   which the property leaves out: which tables they can cross.
2. `ConnPool` against an abstract specification of what a pool promises, as `RateLimiter`
   has one in `Quota`.
3. The console's overlapping loads of a list (`LibraryPage.tsx:57`), which are not aborted
   as its searches are.
