# A TLA+ model of faux-seer

faux-seer answers Sentry's Seer endpoints.  Most endpoints format a prompt,
call a provider and return; the interesting part is the work that outlives its
HTTP request.  Chat turns, investigations, assisted queries, agent features,
coding-agent advancement and code indexing run as background tasks, write their
outcome into SQLite rows that clients poll, and share those rows with requests
that arrive meanwhile.  This project models that part, the shorter handlers that
keep state (replay summaries, grouping records, preferences, offboarding), the
commits made at a git host, and the algorithms the endpoints rest on.

## 1. Inventory

| Component | State | Operations | Interacts with |
| --- | --- | --- | --- |
| run manager (`internal/runmgr`) | `inflight` handles by key, `wg`, one root context | `Start`, `Cancel`, `CancelAll`, `WaitContext`, `Inflight` | every service starts tasks with it; `main()` shuts it down |
| process (`cmd/faux-seer/main.go`) | the signal context, the five-second shutdown context | signal, cancel all, HTTP shutdown, wait | run manager, `net/http` |
| explorer (`internal/explorer`) | `explorer_runs` rows, each one state blob; `Service.mu` | chat (start, continue), update (interrupt, answer, skip, await, create PR), `chatTask` | run manager, provider, code index |
| persisted runs (`internal/runs`) | `runs` and `run_commands` tables | `Start`, `AcceptCommand`, `UpdateProjection`, `Complete`, `Fail`, `dispatch` | run manager, provider |
| investigations, assisted query, agent features | none of their own | create by idempotency key, commands by request id, tasks | persisted runs |
| autofix (`internal/autofix`) | `autofix_runs` rows | report agents, update one agent, advancement task | run manager, provider |
| code index (`internal/codeindex`) | chunks in a vector store | index, search, delete | run manager, git, preferences, offboarding |
| preferences (`internal/preferences`) | one row per organization | list, remove repositories, remove handoffs | code index |
| replay (`internal/replay`) | one row per replay | start, state, delete | provider |
| git providers (`internal/git`) | none here; branches and commits at the host | read tree, pull request and files; create branch, commit | code index, generation |
| similarity and vector stores | embeddings | upsert, search, delete | provider |
| summaries, severity, feedback, generation, monitoring | none | provider call, parsing, fallback | provider, git |
| HTTP server, auth, stub endpoints, config, observability | none that changes | routing, signatures, logging | all |

What is hard in this code:

* **Interleaving.**  Handlers and tasks read a row, work on the copy and write
  the whole row back.  Only some explorer paths take a lock; nothing else does.
* **Cancellation.**  A newer task of a key cancels the older one, and shutdown
  cancels all.  Some writes survive the cancelled context, others fail with it.
* **Partial work.**  Handlers use the request's context: a client that hangs up
  stops them between two statements.
* **Retries.**  Sentry repeats requests; idempotency keys and request ids are
  looked up in one statement and stored in another.
* **Restart.**  Rows survive the process and tasks do not.

What makes the components correct, in short: the manager never loses track of a
live run and shutdown reaches every run; a run's row tells its poller the truth
(a processing run is being worked on and shows progress, a finished one has its
outcome); repeated requests are not applied twice; a writer does not undo what
another writer was told succeeded.  `hazards` in `PROJECT.json` lists the places
where this can go wrong, by line.

## 2. Modules

| Module | Models |
| --- | --- |
| `BackgroundWork` | abstract specification: runs are launched, told to stop and finish; the service is open, closing, drained or killed |
| `RunManager` | `runmgr.go` and the shutdown part of `main.go`; shown to implement `BackgroundWork` |
| `Explorer` | `explorer/service.go` with its table, its lock and its use of the run manager |
| `PersistedRuns` | `runs/service.go` with investigations, assisted queries and agent features on top |
| `Autofix` | `autofix/service.go` |
| `Preferences` | `preferences/service.go` and its table |
| `CodeIndex` | `codeindex/service.go`, the index and offboarding handlers, on top of `Preferences` |
| `Records` | `replay/service.go` and the grouping records of `similarity/service.go` |
| `GitHub` | `CreateBranch` and `CreateCommit` of `git/github.go` against a host |
| `Text` | `chunkText`, `lineNumber`; `llm/json.go` with the JSON grammar it is to follow |
| `Listings` | `ReadTree`, `GetPRFiles`; pages of supergroups in both vector stores |
| `Replies` | what the stateless endpoints make of a completion, or of none |
| `Algorithms` | applies `Text`, `Listings` and `Replies` to every input within bounds; their properties |
| `MC*` | instances for TLC; they add constants and bounds only |
| `RunManagerProofs`, `ExplorerProofs`, `PersistedRunsProofs`, `AutofixProofs`, `CodeIndexProofs`, `RecordsProofs`, `GitHubProofs`, `AlgorithmsProofs` | the theorems about the module each is named after, checked by TLAPS (section 5) |

Common conventions.  A member of `Requests` (or `Tasks`) is one HTTP call and
also names the task that call starts.  `pc` says where it is; the head of each
module draws the paths.  Each SQL statement is one atomic step, because the
store keeps a single SQLite connection; what the Go code computes between two
statements belongs to the later step.  A critical section is one step where it
contains no statement, and an explicit lock where it does (`mu` in `Explorer`).
Message texts, timestamps and prompts are replaced by the identity of the
request they come from, so that the properties can tell replies, reports and
updates apart.

**RunManager.**  `Start` is split into deriving the context, the critical
section, and `wg.Add` with the `go` statement, because `CancelAll` and
`WaitContext` can fall between them; the goroutine's deferred calls are separate
steps in the order Go runs them.  `Cancel` reads the handle under the lock and
calls it after.  `phase` is `main()`: serving, signalled, stopping (after
`CancelAll`), draining (`Shutdown`), waiting, and three ways to exit.
`net/http` is external: it starts handlers while the listener is open, and
`Shutdown` returns when none is active.

**Explorer.**  The row keeps the status, the blocks, whether input is pending,
and the failure reason.  `resolveLoadingBlock` and `dropLoadingBlocks` are
operators on the block sequence, as in the code; the latter gives the blocks
that stay by their rank among them, which can be reasoned about without
induction on the list, and `MCExplorer` has TLC compare it with the loop on short
lists (`DropIsTheLoop`).  Chat calls do not take `mu`;
updates, `completeRun` and `failRun` do.  `completeRun` fails when the task's
context is cancelled; `failRun` does not.  `Abandon` is a handler that breaks
off before its next write, `Restart` a process that ends and starts again.

**PersistedRuns.**  The kinds are `investigation`, whose tasks update the
projection and leave the status alone, and `answer`, which stands for assisted
queries and agent features (same code path, `Complete` or `Fail`).  Commands can
address any run id, existing or not, as in `EnsureRun`.  `commands` holds the
logged version per request id; 0 stands for no entry.  `CommandLoad` joins
`EnsureRun` and the `GetRun` after it: a row, once there, is never deleted, and the
later of the two reads is the one that is used.  An investigation's
task reads the row before the provider call and writes a projection built from
that copy after it.

**Autofix.**  A blob holds the failure reason and an entry per agent: the report
it stems from, the updates merged into it and whether a description was added.
A report replaces all entries, an update changes one, and the task writes back
the snapshot it was given.  `held` and `later` are history variables that record
who could still overwrite a row when it was written.  `overlapped` in
`PersistedRuns` does the same for commands applied while another was at work.

**Preferences and CodeIndex.**  An organization's preferences are one row; each
edit reads it and saves it whole.  `raced` remembers that a save overwrote a
change made since its read.  An index request consults `RemovedSet` (whatever
that returns), then starts a task under `code_index:owner/name`.  The run
manager appears as in `Explorer`: `handle`, `ctxDone`, `root`, with the deferred
delete that may remove a successor's handle (`orphaned`).  The task fetches
(each failure and early return of `IndexRepo` is an alternative), embeds, deletes
and inserts; a cancellation can fall between any two.  A chunk is recorded as
the pass that wrote it, so that a mixture of passes shows.  `Offboard` is
acknowledged whether or not its delete succeeds, as in `codeReview.go`, which logs
the error and goes on: one alternative deletes the chunks, the other leaves them
(the only one for organization 0, which `DeleteRepo` refuses).  `gone` holds the
passes whose chunks an offboarding did delete.  Organization 0 is a
request that names none.  Both vector stores key chunks and write them alike;
`map` names one of them per definition.

**Records.**  A replay start writes `processing`, calls the provider, and writes
`completed`, all with the request's context; a delete is one statement per id.
A grouping record is embedded and then stored, beside deletions by hash or by
project.  `Break` is a client gone, a failed statement or the end of the
process.  `outdated` remembers writers whose rows were deleted after their last
write.

**GitHub.**  Each REST call that changes a ref is a step; the reading of the head and
the posting of blobs, tree and commit, none of which changes a ref, are one
(`BuildCommit`).  The host accepts an
update of a ref only if it is a fast-forward, loses answers, and lets others
delete branches.  A commit carries its history and, per path, the commit that
wrote it.  Nothing in the service calls these two operations yet; they are the
part of `git.Provider` where a wrong order of calls would destroy work.

**Text, Listings, Replies, Algorithms.**  Sequential functions.  Runes and JSON
tokens come from small alphabets with one member per class the code
distinguishes; `Values` builds JSON values from the grammar, independently of the
bracket counting of `jsonEnd`.  A repository is a prefix-closed set of paths, and the host's
truncation is a limit on the entries of an answer; the order of a directory's
entries is left open (`SetToSeq`).  Completions are `Down` (the
call failed), `Garbage` (no JSON in it) or a record with any field missing.
Scores are integers: hundredths in a reply, thousandths in a completion.  `ExtractJSON` gives where the decoded value begins and ends; what
a failed decoding may have left in `out` is not represented.  `Fails` is an error
reply, `Panics` a handler that panics, so that the connection is dropped.  The
scores a model gives and the lengths of lines and titles are constants of
`Algorithms`; the run has the values at and next to each bound of the code.

## 3. Runs

| Run | Bounds | Result |
| --- | --- | --- |
| `run_manager` | 3 tasks of one key, or 2 and one of another; 1 caller | all hold, about 41,000 states |
| `explorer` | 3 calls, 1 run, insert index none or 1, 1 restart | all hold, about 188,000 states |
| `persisted_runs` | 3 requests, 1 key, 2 command ids, versions 0 and 2 | all hold, about 263,000 states |
| `command_applied_once` | 3 requests | violated: the insert's result is ignored |
| `autofix` | 3 requests, 2 runs, 2 agents | all hold, about 720,000 states |
| `code_index` | 3 requests, an organization and none, 1 repository with or without provider, 2 paths | all hold, about 433,000 states |
| `removed_stays_out` | same | violated: `RemovedSet` returns what is kept |
| `records` | 3 requests, 2 replays, 2 projects with 2 hashes | all hold, about 34,000 states |
| `github` | 4 requests, 2 branches, 2 paths | all hold, about 956,000 states |
| `algorithms` | completions to 7 tokens, files to 6 runes, sizes and overlaps -1..4, 4 rows, pages of 1 to 3, trees of depth 3 over 2 names | all hold, about 1.5 million calls and answers |
| `read_tree` | same | violated: a truncated tree is not completed |
| `extract_json` | same | violated: a bracket in the prose hides the value after it |

*Why the bounds suffice.*  Every race in this code is between two writers of one
row, with a third request needed to see or to undo the result: a superseded
task, its successor and an update; two racing creates and a retry; two racing
deliveries of a command and a late duplicate, or a command accepted between the
read and the write of another's task; a report and two updates; an index task,
its successor and a third that finds no handle; two starts and a delete.  Three
requests cover these.  `GitHub` has four because a branch must be created, and
may be deleted and created again, before two commits race on it.  One row is enough where rows do not interact
(`Explorer`); `Autofix` has two because an update searches all rows,
`PersistedRuns` up to three because creates add rows, and `Records` two because
one delete names several replays.  One repository is enough for `CodeIndex`:
tasks meet through its key and its chunks only; no organization beside one (its
index is kept apart, as a second organization's would be) and the missing provider
are what makes keys and targets differ.  Requests are
interchangeable, so the instances let them arrive in order (`ArriveInOrder`).

The other bounds are constraints of the `MC` modules; each is named there, and
cuts off the same race in larger company rather than a race of its own.
`MCRunManager` uses the second key instead of the third call, not beside it
(`ThreeCalls`).  `MCPersistedRuns` bounds the tasks (`MaxTasks`) and the commands ahead
of the stored version (`MaxAhead`), with a third request also commands and tasks
together (`MaxWork`), has at most two requests where a create comes without a key
(`MaxBesideKeyless`), and lets command ids differ (`FewIds`) only when nothing but
commands arrives.
`MCExplorer` does not shut a restarted process down again (`OneEnding`), and
`MCAutofix` has at most one report about the second run (`MaxElsewhere`).  A
behaviour with a shutdown has two requests (`FewAtTheEnd`, `MaxEnding`) in these
three and in `MCCodeIndex`: a shutdown cancels every task at once, and a task that it
cancels meets at most one other.  `MCCodeIndex` lets one request be of no
organization or leave its provider out (`OneOdd`), and combines edits with index
requests only as far as they meet, in `RemovedSet` (`Either`).  `MCRecords` uses one
of its two tables per behaviour (`OneTable`): no statement touches both.  `MCGitHub`
creates at most two branches, with two commits then, or has three commits (`Few`,
`MaxBranchings`).  Agents and paths of files are interchangeable (the symmetry sets),
and so are command ids, which are used in order (`IdsInOrder`).  `MaxRestarts` and
`MaxRuns` bound restarts and rows.  For the algorithms, seven tokens hold an object with a string that contains an escaped
quote or a bracket; six runes give three chunks with overlap; four rows make a page
exactly full, short and absent; depth
three has a directory below one that the cut left out.

*Properties.*  For `RunManager`: a handle always belongs to a live run of its
key (`HandleIsOfLiveRun`); a run loses its handle to a run of the same key only
(`HandleLostOnlyToSameKey`); `CancelAll` reaches runs caught anywhere in `Start`
(`CancelAllReachesEveryRun`); a nil from `WaitContext` means that nothing runs
or can start (`WaitCoversEveryRun`); contexts are cancelled for four reasons only
(`CancelledForAReason`); refinement, termination of runs and of shutdown.

For the other modules, `RowsAreCoherent`, `PreferencesAreKept`,
`HistoryIsCoherent`, `ChunksAreTheFile`, `ListingsAreWhole` and
`RepliesCanBeShown` are conjunctions of named parts, the type invariant among
them.

* `Explorer`: copies made under the lock are overtaken by chat calls only; a
  processing run shows a loading block and a failed run has none; a reply is
  recorded at most once; a "shutdown" reason has a shutdown or a newer turn
  behind it; a processing run does not stay so, with stated exceptions.
* `PersistedRuns`: all retries under a key are told the oldest run; a second run
  of a key needs a create that looked before the first was stored; a duplicate
  command is answered with the version that stays logged; outcomes are coherent;
  a run shows the last command applied to it unless two were at work at once
  (`LastCommandIsShown`); logged commands get their task; answers end.
* `Autofix`: a row's agents are those of exactly one report; a run nobody works
  on has ended, except after shutdown or an update; an accepted update and a
  completed outcome are lost to a racing or later writer only; a failure reason
  in a completed run is left over from another, failed task
  (`ReasonIsALeftover`).
* `CodeIndex` with `Preferences`: an acknowledged removal is undone by an
  overlapping edit only, and no edit removes what nobody named; what a search
  finds of a repository comes from one pass (`OnePassPerRepository`, with the lost
  handle as its exception); what an offboarding deleted of ended passes is not
  found again (`OffboardedCodeStaysGone`; a pass under way is left
  alone and may store its chunks afterwards, and a delete that fails deletes nothing); a repository that was indexed has an index unless
  it was offboarded or a pass was cut off between delete and insert.
* `Records`: a summary comes with completion and a processing row with a start;
  what was deleted comes back only by a request in flight or later; processing
  ends unless a start broke off.
* `GitHub`: a reported commit stays in its branch; the head shows every change in
  its history; an error means the commit is absent, unless the answer was lost.
* `Algorithms`: chunks cover the file, bring something new and carry their lines;
  what is decoded is the first complete value by the grammar, and it is decoded if
  no bracket precedes it.  An untruncated tree has each path once; of a truncated
  one no file below a listed directory is missing (directories within a listed one
  are walked twice, so that files do come twice).  Pull request files are neither
  lost nor doubled at a page's edge, up to the last page that is read.
  `BackendsAgree` says, for all inputs, how far the two supergroup backends agree: a
  negative offset panics on one and is an error on the other; pgvector lists only
  projects asked for; if all rows are of those, the pages are the same for a
  positive limit, and pgvector's is the beginning of SQLite's for another; if not,
  what SQLite's first page has of them is on pgvector's.  Failures of unit-test
  requests are not acknowledged.  Summaries have their texts and do not deny the
  request's trace, label groups have their lists, a one-shot result is no echo,
  scores and titles are within bounds.  This does not make replies consistent in
  themselves: an empty primary label of a group is passed on, and a fixability
  reply without a score is 0 and still fixable (`issueSummary/service.go:171-178`).

*Fairness.*  A handler that has begun and has not been broken off, and a task,
keep being scheduled by the Go runtime, and every provider call ends by
`OUTBOUND_TIMEOUT`: weak fairness per handler and per task.  `Explorer` tasks
get strong fairness because they wait for `sync.Mutex`, which does not starve a
waiter.  Nothing is assumed of requests arriving, clients hanging up, signals,
deadlines or restarts.  The constraints of the runs with liveness properties
limit arrivals, signals and restarts, which no fairness condition refers to;
`LittleWork` of `MCPersistedRuns` also leaves out behaviours with more tasks than its
bounds.  They bound the behaviours that are checked and make none of them fairer.

## 4. Disagreements with what the repository says

`findings` in `PROJECT.json` quotes the lines of those shown by a run: a
command delivered twice at the same time is applied twice; the set of removed
repositories that indexing consults holds those that were kept; a truncated
tree is completed with bare names, and from the listed directories only (which of
the two the trace of `read_tree` shows depends on the order TLC goes in);
`ExtractJSON` is documented to find the first complete value, and gives up when a
bracket in the prose precedes it.

The passing runs state what remains true in spite of further ones, each as the
exception in a property:

* the deferred delete of a superseded run removes its successor's handle, which
  `Inflight` then does not report (`HandleLostOnlyToSameKey`,
  `OnePassPerRepository`);
* `continueRun` is outside the lock that the comment on `mu` in
  `explorer/service.go` calls for (`LockedCopiesAreFresh`), replies may fill
  another turn's block (`ReplyRecordedOnce`), and a task cancelled
  after the answer writes no terminal status (`ProcessingEnds`);
* simultaneous creates duplicate a run (`SecondRunOnlyInARace`);
* an advancement task starts from a snapshot and not from the stored state
  (`LostOnlyToARace`);
* `vectorstore/store.go` lets two organizations index a repository "without
  colliding", but the task key makes them cancel each other, also between delete
  and insert (`StoredIndexSurvives`);
* offboarding drops the index "so that stale chunks from the deleted repository are
  no longer surfaced", but neither stops nor waits for a pass under way, which may
  store it again, and a delete that fails is acknowledged (`OffboardedCodeStaysGone`);
* label groups are documented (`ARCHITECTURE.md:101`) to have one entry per requested
  label, and are what the model gives (`RepliesAreFilled`);
* a replay that `replay/service.go` says is polled until "completed" or "error"
  stays in processing when its start breaks off, and "error" is never set
  (`ProcessingEnds` of `Records`).

Smaller ones met on the way.  `TestIndexSkipsRemovedRepositories` passes because
indexing is asynchronous, not because the repository is skipped.
`codeReview.go` says that the organization id "is not used for code index
lookups", but `DeleteRepo` deletes per organization and refuses 0, which the
caller is not told.  A value of the wrong type may leave the `out` of `ExtractJSON`
changed, which its comment (`json.go:9-10`) excludes.  A chunk that ends in a newline has an end
line one too far.  `ListSupergroups` on SQLite ignores the projects asked for and
panics on a negative offset (`BackendsAgree`).  From its second page on `ListRepos` appends
"?page=n" to a path that already has a query.  A run id that cannot be parsed
becomes 1 (`handler/investigations.go:87`).

## 5. Proofs

Each theorem holds for every value of the constants that meets the named
assumptions of its module: any set of requests, tasks or writers, and any runs,
keys, agents, organizations, repositories, replays, branches and files, where
the runs of section 3 have three or four requests and one or two of the rest.
The assumptions say that numbers are numbers, that `None`, `NoTask`, `Missing`,
`Panics` and the like differ from the values they are to differ from, that the set of
tasks of `RunManager` is finite and that its keys are keys, that the main branch
is a branch; for `Algorithms`, that the bounds (`MaxText`, `MaxFile`, `MaxRows`,
`MaxPages`, `MaxDepth`) are natural numbers, that configured sizes and scores are
integers, that lengths are natural numbers, that names are finitely many and that
the default page is not empty.  TLC evaluates them in every run.

| Module | Theorem | States |
| --- | --- | --- |
| `RunManagerProofs` | `TypeCorrect`, `HandlesAreOfLiveRuns`, `HandlesLostToSameKey`, `CancelAllIsComplete`, `WaitIsComplete` | the five invariants of the run |
| | `CancellationHasAReason` | the action property `CancelledForAReason` |
| | `ManagerImplementsWork` | `RunManager` implements `BackgroundWork` |
| `ExplorerProofs` | `LockedCopies`, `CoherentRows`, `RepliesAreRecordedOnce`, `ShutdownsAreExplained` | `LockedCopiesAreFresh`, `RowsAreCoherent`, `ReplyRecordedOnce`, `ShutdownReasonExplained` |
| `PersistedRunsProofs` | `CoherentRows`, `RetriesAgree`, `SecondRunNeedsARace`, `DuplicatesEcho`, `LastCommandShows` | `RowsAreCoherent`, `ReuseIsOfTheOldest`, `SecondRunOnlyInARace`, `DuplicateEchoesFirst`, `LastCommandIsShown` |
| `AutofixProofs` | `RowsOfOneReport`, `ReasonsAreLeftovers`, `RestingRunsHaveEnded`, `LossNeedsARace` | `RowsAreCoherent`, `ReasonIsALeftover`, `RestingRunHasEnded`, `LostOnlyToARace` |
| `CodeIndexProofs` | `KeptPreferences`, `OnePassFound`, `OffboardedIsGone`, `IndexSurvives` | `PreferencesAreKept`, `OnePassPerRepository`, `OffboardedCodeStaysGone`, `StoredIndexSurvives` |
| `RecordsProofs` | `CoherentRows`, `DeletionsHold` | `RowsAreCoherent`, `DeletedStaysDeleted` |
| `GitHubProofs` | `CoherentHistory`, `ErrorsAreFinal`, `RefsMoveForward` | `HistoryIsCoherent`, `FailedCommitsAreAbsent`, the action property `ReportedCommitsStay` |
| `AlgorithmsProofs` | `FailuresAreReported`, `RepliesAreShown` | `FailuresAreNotAcknowledged`, `RepliesCanBeShown` |
| | `ChunksCover`, `TheFirstValueIsDecoded`, `ListingsWhole` | `ChunksAreTheFile`, `DecodesTheFirstValue`, `ListingsAreWhole` |

None of the invariants but a few of `RunManager`'s is inductive by itself: a row
is written from a copy that was read several steps before, so that what is said
of rows has to be said of copies, too.  Each proofs module defines an inductive
invariant `IInv`, proves it in `Invariance` (in `RunManagerProofs`, `AlwaysIInv`) with
one lemma per conjunct, and derives the properties from it.  The lemmas follow
one pattern.  `Steps` names the request or task a step is of and `OthersAreKept`
or `OpIsKept` says what it leaves alone; `RowWrites` and `CopyMoves` describe, for
all actions at once, how a row or a copy can have changed; lemmas such as
`CompletedIs`, `AcceptedRowIs` or `MergeIs` say what the operators that build a row
return; the lemmas ending in `Step` show a conjunct preserved.  All inductive
invariants were first checked as invariants of the corresponding run.

* **RunManager.**  `WgCounts` (`wg` is the number of goroutines between `wg.Add`
  and `wg.Done`, which makes a zero meaningful and a negative value impossible),
  `RootFollowsPhase` (the root context is cancelled exactly from the signal on,
  so that contexts derived later are born cancelled) and `HandlersLeft` (once
  `Shutdown` has returned no handler is left and no later `wg.Add` can come).
  For the refinement, `ServiceOfPhase` relates phases and abstract service,
  `AbstractStutter` collects the steps that do not show, and `RefinementStep` maps
  every step to an abstract one.
* **Explorer.**  `Shapes` says at which stages a request holds a copy and `mu`:
  mutual exclusion, from which freshness follows.  `AllCoherent` and
  `AnswersAreOver` say of copies what is wanted of rows, and that an answer in any
  of them is of a task that is over; a task still at work is therefore in none,
  and its answer is added once.  `AllExplained` traces the reason "shutdown" back
  through the copy, the failure and the cancelled context to the two turns or the
  shutdown.  The block lists are of any length: `DropIs`, `ResolveIs` and
  `TruncateIs` say what the list operators keep.
* **PersistedRuns.**  `CopiesAreCoherent` for outcomes; `LookedBefore` (a create
  that goes on to store has looked when no run of its key was there) for the
  second run of a key; `LogIsKept` (an entry, once logged, keeps its version) for
  duplicates; `Alone` and `Carried` (where nothing overlapped, a command works on
  its run alone, and what it and its task carry agrees with the row) for the last
  command.
* **Autofix.**  `AllWhole` and `AllReasons` for rows and copies; `WillEnd` (a
  processing run has a task that is going to write it, an accepted update or a
  shutdown); `AllSeen` (a write still shows in the row and in every copy that may
  be written back, or somebody has an excuse).
* **CodeIndex and Preferences.**  `RowsKeep` and `HandoffsClear` for rows and for
  the rows read by edits under way; `OneWriter` (one live task per key, unless a
  handle was lost) and `EmptiedStaysEmpty` (what it has emptied stays empty until
  it inserts) for the single pass; `ChunksHavePasses` and `GoneHaveReturned` for
  offboarding, which may fail at any time: what it deleted is of ended passes, and
  an ended pass inserts nothing.
* **Records.**  `RowsHaveWriters` and `RecordsHaveWriters` tie each row to the request
  that wrote it; `OutdatedAreOver` says that outdated writers have ended.
* **GitHub.**  `HistoriesAreWhole` (histories are transitive), `CommitsShowEveryChange`
  (of every commit, referred to or not) and `UnpublishedAreUnknown` (no branch,
  history or request knows a commit before its branch's update took effect).
* **Algorithms.**  The answer is the function's; the lemmas say what each function
  returns.  Scores and lengths are any numbers; a message has any number of lines,
  a file any number of runes, a completion any number of tokens, a repository any
  depth and any number of names, and a page any size.  The other inputs are the
  classes that `Algorithms` enumerates.

The functions of `Text` and `Listings` are recursive, and the library's induction
theorems cannot be used, because they are about operators.  Induction is therefore
done on sets: `UpwardInduction` and `DownwardInduction` say that a set which has a
number of a range whenever it has all smaller (greater) ones is the range, and
follow from the existence of least numbers.  A recursive function is in TLA+ some
function that satisfies its equation; `LoopExists`, `FlattenIs`, `RoundsExist` and
the first part of `BodiesAre` and `ValuesAre` show that there is one, after which the
equation can be used.

* *Chunks.*  `Cuts` describes the chunks from some rune on: none is empty or too
  large, each ends later than those before it, and what is in none is blank.
  `LastCut` and `NextCut` are the two turns of the loop and `ChunksCut` the
  induction from the end of the file.  `SpanIs` gets the lines of a chunk from the
  fact that line numbers go up by at most one at a time.
* *Decoding.*  `BodiesArePassed` shows that `Scan` passes over a string's body with
  the depth it had and ends inside the string, `ValuesArePassed` that within a
  value the depth is above zero until its last character; `EndIs` concludes that `jsonEnd` finds the
  end of the value, and that there is only one.  What begins at the first bracket is
  then the first complete value of the text, if it is complete.
* *Listings.*  `FilesAreRead` goes from the last page to the first.  `EverythingIs`
  (the host lists each path once) goes by depth: what is below a directory is the
  disjoint union of what is below its paths (`UnderSplits`, `UnderIsOfOne`).
  `WalkReaches` follows the path to a file round by round from the listed directory
  it is below.  `FlattenHas`, `FlattenLists` and `FlattenSingletons` say what
  `FlattenSeq` of the community modules returns.  `KeptIs` says what the selection of
  projects keeps and in which places, from which `PagesAgree` follows.

Model-checked only: the liveness properties (`EveryRunFinishes`, `ShutdownCompletes`,
`ProcessingEnds` of `Explorer` and of `Records`, `LoggedCommandsRun`, `AnswersEnd`),
because fairness and ENABLED are out of the prover's reach.  Every invariant and
action property of a passing run is proved.

## 6. Not modelled

* Provider and embedding clients, and the choice among several models: network
  I/O; a call is a step of its caller that answers or fails.  That records and
  queries may be embedded by different models is not covered: the choice is
  random and the vectors are floating point.
* Nearest-neighbour search: floating-point distances, one statement.
* Git providers other than GitHub, `OpenPR` and `PostPRReview` (single calls), and
  how a host answers the odd URL of `ListRepos`.
* Monitoring, spam detection, feedback labels and the `Generate` endpoints pass
  on or default a single value.
* Configuration, authentication, routing, logging and metrics.
* Database failures inside a task of `Explorer`, `PersistedRuns` and `Autofix`,
  and reads that change nothing.

## 7. Plan

1. Done: run manager with its abstract specification and proofs; explorer;
   persisted runs; autofix; preferences and code index; replay summaries and
   grouping records; commits at a git host; chunking, JSON extraction, listings
   and replies.
2. Done: proofs of every invariant and action property of these modules, and of the
   refinement.
3. Left: the refinement of an abstract specification for a second component (a
   table of runs for `PersistedRuns`) would need a run of its own.
