# Verification of the Jeonbuk chatbot server

TLA+ models, TLC runs and TLAPS proofs about `src/app/backend/open_webui`, a
fork of Open WebUI extended with a public voice chatbot and a web crawler that
feeds it. Paths below are relative to that directory.

The parts chosen are those in which several coroutines or processes share state
and the result depends on their order: the voice turns, the crawl of a page and
of its attachments, the documents edited together with the tasks behind their
saves, the registry of socket sessions with its lock, and the limiters of
requests. Upstream request handling that is one database transaction per call,
file converters and string rules are left out (section 7).

## 1. The system

### 1.1 Components

| component | state it keeps | operations | works with |
|---|---|---|---|
| voice turn merging `utils/voice_rag_pipeline.py` | conversation history, pending and active segments, generation counter and task, flags of the last reply, timers | handlers of VAD, Bot* and transcription frames; generation task; STT timeout | STT, LLM, TTS, the page |
| chatbot page, voice part `static/public-chatbot.html` | accepts audio or not, label | reaction to each server message | voice pipeline |
| voice socket `routers/voice_ws.py`, `utils/voice_pcm_serializer.py` | one pipeline per socket | accept, run, close | voice pipeline |
| spoken text rules `utils/voice_cleaning_rules.py`, `utils/voice_tts_text.py` | none | string rewriting | voice pipeline |
| public chatbot `routers/public_chatbot.py` | its limiter | requests, reply stream | rate limit, retrieval |
| limiters `routers/public_chatbot.py`, `utils/rate_limit.py` | counters per address in Redis, requests in memory | check a request | Redis |
| crawl of a page `tasks/crawler.py`, `routers/crawler.py`, `models/crawler.py` | `crawled_page` row, vector chunks | crawl (incremental, full), reingest, delete a site, test a page | vector store, crawled site |
| attachments and graph `tasks/crawler_attachments.py`, `retrieval/graphrag` | attachment rows, chunks, graph nodes | process, mark | tail of a page's crawl |
| crawl schedule `main.py`, `tasks/crawler_worker.py`, `tasks/crawler_supervisor.sh` | leader lock, jobs, queue of requests | start jobs, take over, restart the worker | crawl of a page |
| crawl discovery and engines `tasks/crawler_sites.py`, `tasks/crawler_engines` | list of addresses of one run | traverse, clean text | crawl of a page |
| collaborative documents `socket/main.py`, `socket/utils.py` | list of updates and set of users in Redis, rooms | join, state, update, leave, disconnect, compaction | item tasks, session pool |
| chat and item tasks `tasks/__init__.py` | registry of asyncio tasks, its copy in Redis | create, stop, list, clean up, listen for commands | documents, chats |
| sessions and usage pools `socket/main.py`, `socket/utils.py` | SESSION_POOL, USAGE_POOL, RedisLock | connect, heartbeat, disconnect, two cleaners | documents |
| Redis with Sentinel `utils/redis.py` | chosen master | retry a command after failover | all of the above |
| usage and limits `models/usage_tokens.py`, `utils/usage_limits.py` | tokens per user and day | check, record | chat completion |
| sign-on server `sso/sso_server.py` | none | one redirect | - |
| retrieval, chat completion, upstream tables and routers, converters, configuration, operator scripts | upstream Open WebUI | see `PROJECT.json` | - |

### 1.2 What is hard

* **Voice.** Pipecat gives a processor two lanes, one for system frames (VAD,
  Bot*) and one for data frames (transcriptions); the generation runs in a task
  beside them. All three read and write the same fields and yield at every send.
  Whether the last reply was *heard* is inferred from late frames and two flags.
* **Crawl.** The row and the chunks are in different stores without a common
  transaction; most failures are logged and swallowed; a process can die between
  any two accesses; nothing keeps the scheduler, an administrator and the worker
  from crawling the same page at once.
* **Documents.** Every event of a socket is a coroutine of its own. Joining is
  four Redis or room commands, leaving five, an update up to six; checks and the
  effects that rely on them are separate commands.
* **Tasks, sessions, limits.** Read-modify-write over Redis or a table by several
  nodes; locks that expire; commands published to listeners that may be absent;
  commands that fail, so that the memory of one process decides for all.

`PROJECT.json` lists these as hazards, each at the line where it bites, with the
properties that cover it or the reason why none does.

### 1.3 What makes each component correct

* voice: the LLM gets whole turns; a closed turn stays closed, and before any is, a
  reply nobody heard is taken back when the user goes on; nothing said is lost by an
  interleaving; no overtaken answer is spoken; no handler hangs;
* crawl: what is called *unchanged* is searchable; the current version becomes
  searchable when disturbances stop; old versions go;
* documents: editors converge on what is stored; what someone has seen is kept;
  an abandoned document is cleared, a used one is not;
* attachments: a file recorded as processed, and so never looked at again, can be
  found; attempts that failed are repeated until one has it recorded so (the failures
  that leave the hash of the bytes with them: see the hazard at
  `tasks/crawler_attachments.py:545`);
* tasks: the content of the save scheduled last arrives, and on its node nothing is
  written after it; a finished task is forgotten;
* sessions: a connected session is kept, one that has ended does not come back
  and is reaped; one cleaner at a time;
* limits: no more than the limit is let through in any window, and nobody is
  refused but for what was asked in it.

## 2. Modules

| module | models | lines of source |
|---|---|---|
| `VoiceTurn` | one voice session | `voice_rag_pipeline.py`, part of `public-chatbot.html` |
| `MCVoiceTurn` | its instance | |
| `VoiceTurnProofs` | theorems about it | |
| `CrawlPage` | one crawled page | `tasks/crawler.py`, `routers/crawler.py`, `models/crawler.py` |
| `MCCrawlPage` | its instance | |
| `CrawlPageProofs` | theorems about it | |
| `CrawlAttachment` | one file a crawled page links to | `tasks/crawler_attachments.py`, the tail of `tasks/crawler.py`, `routers/crawler.py` |
| `MCCrawlAttachment` | its instances, and a claim of a docstring | |
| `CrawlAttachmentProofs` | theorems about it | |
| `CollabDoc` | one document | `socket/main.py`, `socket/utils.py` |
| `MCCollabDoc` | its instances, and a claim of a log line | |
| `CollabDocProofs` | theorems about it | |
| `ItemTasks` | the saves of one document and the registry of tasks | `tasks/__init__.py`, `socket/main.py` |
| `MCItemTasks` | its instance | |
| `ItemTasksProofs` | theorems about it | |
| `SessionRegistry` | what the registry of sessions promises | abstract |
| `SessionPool` | the registry over Redis, its lock and its cleaner | `socket/main.py`, `socket/utils.py` |
| `MCSessionPool` | its instances, and a claim of a docstring | |
| `SessionPoolProofs` | theorems about it, the refinement among them | |
| `RateLimit` | the two limiters of requests that work | `routers/public_chatbot.py`, `utils/rate_limit.py` |
| `MCRateLimit` | its instances, and a claim of a docstring | |
| `RateLimitProofs` | theorems about it: types, expiries | |
| `RateLimitBoundProofs` | theorems about it: how many are let in, who is refused | |

The components meet in few variables, and each module takes from the others what
their code shows it: `CrawlAttachment` sees of `CrawlPage` whether the next crawl
will store the page; `ItemTasks` is the tail of `CollabDoc`'s update handler and
writes none of its keys; `CollabDoc` sees of `SessionPool` that a disconnect whose
entry is gone cleans no document (`FailsToLeave` there), which `BeatingIsCleanedUp`
bounds.

The map in `PROJECT.json` gives the lines of every definition.

### 2.1 VoiceTurn

Each variable is a field of `JeonbukRAGProcessor` (`history`, `gid` is
`_generation_id`, `pending` and `active` the two lists of segments,
`audioStarted`, `postReset`, `budget` is `_pending_started_at` and its
comparison with the six seconds), of the caption observer (`reply`), of the
output (`tts`, `botSpeaking`, `botStarted`), or of the page (`accept`, `ui`).
`sys`, `data` and `task` hold the point at which each coroutine awaits, with the
locals it will use afterwards; one action is what runs between two awaits. So
`StopsGeneration`, `SysBroadcasts`, `SysCancels`, `SysJoined` are one call of
`_stop_current_generation` by the VAD handler, and `Restarts`, `DataBroadcasts`,
`DataCancels`, `StartsGeneration` one by the transcription handler.

A transcription is its number. A segment is the *set* of transcriptions whose
texts it joins: the code compares segments as strings to drop repetitions, and
the model compares them as sets (`Join`). A reply is named after its generation.

`owed`, `talking`, `heard`, `starts` are the environment: the user may speak at
any time, the STT may return a text, noise or nothing for each utterance, in the
order spoken.

Assumptions:

* *Pipecat* (not in the repository, modelled from its use): system frames are
  handled one at a time in one task, data frames in another; a barge-in flushes
  the TTS and cancels the data lane's current handler, except where that handler
  suppresses the cancellation. An interruption is broadcast only while the bot
  speaks, as the broadcaster in the file checks.
* `QuickSends`: sending a message to the page and broadcasting an interruption
  take less time than the debounce. Without it (FALSE) a stale handler can cancel
  a generation that has already taken its question, and `KeepsQuestions` fails;
  no comment claims anything for sends that slow. All theorems but `QuestionsKept`
  hold for both settings.
* The stream of deltas of the LLM ends, in "done" or an error; retrieval is part
  of it.

### 2.2 CrawlPage

`row` is the page's row in `crawled_page`, `chunks` the versions that have
chunks in the vector collection. `version` is what the site serves; hashes and
validators name the version they came from, 0 is NULL. `crawl[c]` is where the
process `c` stands in `_process_url` with the locals later code reads; `admin`
and `test` are the jobs of the administration router. Every action is one access
and may fail (`Fails`, up to `MaxFailures`) the way its caller sees it: raised,
or logged and swallowed. `Crashes` kills a process between two accesses.

A version that was replaced does not come back. (A page that returns to an
earlier version and gets back its earlier validator is listed as a hazard.)

Nothing in the code excludes overlapping jobs, and overlapping jobs leave chunks
and rows that do not agree. The observers `alone` and `trusted` mark the states
for which something can be claimed: since jobs last overlapped, or an
administrator's job last failed, a crawl that ran alone has stored the page. No
guard and no assignment of the modelled state reads them.

`SameDatabase` says whether the crawler's tables share the main database
(`internal/db_chatbot.py:41-53`); the reset of a reingest reaches them only then.

### 2.3 CollabDoc

`updates` and `users` are the two Redis keys of the document, `room` its
Socket.IO room, `pool` SESSION_POOL; `client` and `doc` stand for the page. The
handlers `join[s]`, `quit[s].leave`, `quit[s].disconnect` and `update[e]` may all
run at once. A Yjs update is a set of edits and applying one is union: Yjs
promises that updates commute and that repeating one changes nothing. A
published update reaches each other node in its own time (`bus`): a session
stands for the node it is connected to.

`torn` observes that a compaction rewrote a list that had changed since it was
read, that a clean-up ran although a user was there or an update on its way, or
that an update was stored for a document without users. The code excludes none
of these, and the first two lose updates; `UsedDocumentKeepsItsUpdates` is the
counterexample. What is claimed is claimed before that.

Left out: the debounced save of the note and the task registry it uses (they
write neither key; they are `ItemTasks`), awareness (forwarded only), a second
join over the same socket, the loss of a node, failing Redis commands, and the
variant without Redis, whose methods contain no await.

### 2.4 ItemTasks

`request[u]` is the handler of update `u` in `yjs_document_update`, from
`stop_item_tasks` to `create_task`; `save[u]` is the `debounced_save` it
schedules and that task's clean-up. `tasks` and `items` are the dictionaries in
memory, `hash` and `set` the keys in Redis, `commands` the stop commands on their
way to the listeners. `ahead[u]` are the saves scheduled before `u`'s, and the list
`item_tasks[document]` is the set `items` in that order (`Position`). An update, its
save and the content it carries share a number.

`node[u]` is the node that handles `u` and runs its save. All saves sleep half a
second, so those of one node wake in the order in which they were scheduled: its event
loop takes timers in the order in which they are due (`SleepIsOver`). Nothing orders
the loops of two nodes: one that is held up may wake a save long after a newer one of
another node, and will write it unless a stop command has reached it first.

With Redis stopping works on a copy of the set and waits for nothing; a command
may arrive late, or never, as nothing restarts a listener that died (`LosesStop`).
Without, it iterates over the list in memory itself, which a clean-up shortens
while the loop awaits a task (`Following`); an emptied list is dropped and a new
one made (`live`). There is no await between two tasks but for the end of the
first, which `Next` says. A handler that awaited a task resumes before the
clean-up of that task: the done callback only starts a task for it.

`QuickEntries`: the entry made by `redis_save_task` arrives before the save it
is for wakes. Without it an entry can arrive after its own clean-up, and stays.

Observers: `last` is the save scheduled last, `lost` that a handler has since
ended without scheduling one (no session, no content) or that this save was
refused (no note, no access), and `overtaken` that it was written while one scheduled
before it slept on, uncancelled. The properties name what that allows (`HeldUp`): a
save of *another* node may then be the one the note ends with.

Left out: the endpoint that stops one task by its id, the listings, tasks that
fail. The dictionaries in memory of several nodes are modelled as one: a task's number
is used once, and only its own node finds it there. Without Redis there is one node
(`Init`), as each would have a registry of its own.

### 2.5 SessionPool

`pool` are the keys of SESSION_POOL, `age` the time since a session's
`last_seen_at`; `owner` and `left` are the lock's key and its expiry. A node is an
event loop with a synchronous Redis client: a handler (`job`, `who`) or the
cleaner (`cleaner`, `todo`, `nap`) that has begun runs to its next await, while
the other nodes run between any two of its commands. `RedisLock` is four
commands: SET NX EX, SET XX EX (which renews whoever's key is there), and a
release that reads and then deletes. The cleaner compares `last_seen_at` with the
time at the start of its round; ticks that fall into a round count as passed,
which reaps no later than the code does by less than a round.

`Crashes` takes a node with its sockets, whose entries and lock stay; `Dead` is
the id of a lock whose process is gone. `timely` says that no event loop is held
up for as long as a tick; `lease` is the lock timeout of the deployment. By
default the lease (60 s) is shorter than the sleep (120 s): then a cleaner finds
its lock expired after one round and ends for good, and `LeaseProtects` claims
nothing. `Leases` has a value on either side.

`SessionRegistry` is the abstract specification: sessions enter, leave, fall
silent and are reaped in single steps, a session that has ended never enters
again, and where the lock outlasts the sleep one node cleans at a time.
`SessionPool` implements it with `gone <- Gone`, `cleaning <- Cleaning`,
`trusted <- Trusted`.

Left out: USAGE_POOL and its cleaner; what `disconnect` cleans beside the pool
(the documents are in `CollabDoc`); a cleaner cancelled by an orderly shutdown;
failing Redis commands; the variant without Redis, whose locks always succeed.

### 2.6 CrawlAttachment

`row` is the row in `crawled_attachment`, `chunks` the versions of the file with
chunks in the collection, `job[j]` a process in `process_one_attachment` with the
locals later code reads. Of the page one bit is left: `due`, its row does not name
what the site serves, so that the next crawl stores it and then processes its
attachments; `StoresPageOnly` stands for all the ways in which it does not.
Accesses fail and processes die as in `CrawlPage`, up to `MaxFailures`.

`alone` and `sound` are observers, as there: `sound` turns FALSE when jobs
overlap, when a site's chunks are deleted, when a failed attempt leaves the hash
of bytes it did not store, or when one that did not see the row dies or fails half
way; it turns TRUE when a lone job has stored the file.

### 2.7 RateLimit

`kind` chooses the limiter: "fixed" is `_check_rate_limit` of the public chatbot,
one counter with an expiry; "rolling" is `RateLimiter` of the sign-in, a counter
for each bucket. Both count in Redis (`count`, `left`) and, when a command fails,
in the worker's own memory (`memory`). A worker is one request under way in a
process, with that process's memory; `asked` and `admitted` are the history. One
action is one command; `timely` says that no request lasts a tick, otherwise one
may be late by less than a bucket. A failed command may have been obeyed.

`utils/public_chatbot_rate_limit.py`, a third limiter, is not modelled: it calls
`get_redis_connection` without an argument it requires (48-54), and never limits
anything.

## 3. Runs

Deadlock is checked where the system cannot stop (crawl, attachments, sessions). A
voice session, a document and its updates may: the user falls silent, everyone
leaves; the limiters are looked at for a bounded time.

| run | instance | shows |
|---|---|---|
| `voice` | 3 utterances, 1 sentence before the last, queue of 2 | 5 invariants, 3 action properties, `HandlersReturn` |
| `crawl` | 2 crawls, 2 versions, 2 failures | `UnchangedIsSearchable`, `Converges` |
| `attachments` | 2 jobs, 2 versions, 3 failures | `ProcessedIsSearchable`, `EndsProcessed` |
| `attachments_slate` | 1 job, no failure | a claim of a docstring, violated |
| `collab` | 2 sessions, 2 edits, compaction at 2 | three invariants |
| `collab_cleared` | the same | a claim of a log line, violated |
| `tasks` | 3 updates, on 2 nodes with Redis and on one without | two invariants, `LastContentArrives` |
| `sessions` | 2 nodes, 1 session, 2 crashes, both leases | two invariants, an action property, the refinement, `OrphansAreReaped` |
| `sessions_orphans` | the shorter lease, 1 crash | a claim of a docstring, violated |
| `rate` | 2 workers, 4 or 3 requests, both limiters, 1 crash | two invariants, `RefusesOnlyTheBusy` |
| `rate_refused_forever` | 1 worker, 3 requests, "fixed" | a claim of a docstring, violated |

### Bounds

* **voice.** Three utterances reach every branch of the transcription handler in
  one behaviour: a turn answered and heard, one cut short and merged, one past the
  budget. A queue of two overflows with the third. One sentence before the last
  is enough to have the TTS hold two entries and the stream fail before, between
  and after them. The safety properties were also checked once with four utterances
  (5.1 million states).
* **crawl.** Two versions give one replaced and one current; with a third nothing
  new is compared, since only equality with the current one matters. Two failures
  are a failed access and the failed recording of its error, or a crash and a
  failed deletion afterwards. Two crawls are an overlap. The theorem covers any
  number of each.
* **collab.** Two sessions are two who leave at once, or one who leaves while
  another joins. Two edits are two handlers of updates and one compaction, which
  starts at two entries. With two entries the first half is one entry, and the
  rewrite merges nothing; that it merges without loss for longer lists is proved
  (`CompactionKeeps`, section 4). `Symmetric` is sound: no property names a session, none
  is temporal. `CONSTRAINT Whole` stops at states in which `torn` has become
  true: all invariants are claimed of other states only, and `torn` never becomes
  false again.
* **tasks.** With Redis three updates are two saves pending and one handler that
  stops them, with room for a clean-up that deletes the set under a new entry. Without,
  they are a handler awaiting one save while another takes the next away and a
  clean-up shortens the list. Two nodes are the one that is held up and the one whose
  save overtakes it; a third would only be another of either. With four updates the
  loop can pass a save over; the invariants were checked once for four on one node,
  with Redis (4.3 million states) and without (0.7 million), and liveness without. The
  theorems cover any number of updates and nodes.
* **sessions.** Two nodes are a holder and one that waits, takes over or renews
  the other's lock. Sessions meet only in the cleaner's round, whose set `todo` a
  second one would lengthen; two are out of reach of the run, and the theorems
  cover any number. A timeout of two ticks has a beat just in time and one too
  late; leases of one and three are on either side of the sleep. Two crashes are
  the holder and its successor.
* **attachments.** Two versions are the same bytes and others. Three failures are
  a failed lookup, a failed deletion and a crash in one attempt.
* **rate.** "fixed" has a limit of 2 in a window of 2 ticks and 4 requests: its bound,
  `2 * Limit - 1`, and one more; one request less than that bound is violated.
  "rolling" has a limit of 1 in a window of 3 ticks, which is one bucket of 3, and 3
  requests, over seven ticks: three buckets, so that counters expire and a request
  may be two ticks late in the next bucket. On time its bound, the limit, is tight.
  For late workers the bound is proved for any instance, but these requests do not
  reach it; TLC shows that one less by `Cardinality(Workers)`, stated here once, is
  false with four requests at a limit of 2.

### Fairness

* **voice** (`Fairness`): a coroutine that can run does (the asyncio loop), the
  stream ends, a sentence is synthesised to its end, the output falls silent, the
  STT timer fires. Nothing is asked of the user, the STT or the budget.
* **crawl**: a crawl or an administrator's job once begun goes on or dies, and
  crawls of some mode keep being started. The scheduler, the worker or an
  administrator may be the one who starts them; see the hazard at `main.py:823`
  for why the incremental ones of the schedule may not be. `Converges` needs
  no fairness of any one mode: an incremental crawl of a page whose row is out of
  date stores it as well as a full one does.
* **attachments**: a job once begun goes on or dies, an administrator's deletion
  ends. That the page keeps being stored or tested is a premise of `EndsProcessed`, as
  nothing in the code repeats an attachment by itself.
* **tasks**: the event loop runs each handler, save and clean-up that can run, and
  sleeps end; for handlers that wait for others to stop tasks, whenever none does.
  Nothing is asked of those who edit, or of the listeners.
* **sessions**: handlers and cleaners go on, and time passes. Strong fairness of a
  node's cleaner and of the ticks: an event loop takes what is due in the order it
  came due, so that clients that keep sending do not keep it from the cleaner for
  ever. Nothing is asked of clients, starts and crashes.
* **collab**, **rate**: none; their properties are safety.

### What the runs check

Voice:

* `HistoryAlternates`: user, assistant, user, assistant, whatever one coroutine
  retracts and another appends.
* `QueuedReplyIsLast`: the reply whose caption waits is the last of the history.
* `NoStaleSpeech`: outside a flush that has begun, only the current generation
  has sentences in the TTS.
* `AsksWholeTurn`: a current generation asks everything the turn has collected.
* `ClosedTurnsStayClosed`: after a reply was heard no message is taken back.
* `UnheardReplyIsRetracted`: before any reply was heard, a reply that is finished and
  the latest is taken back with its question by the next transcription, which asks that
  question again. From the first heard reply on the code deliberately does not
  (`voice_rag_pipeline.py:488-491, 641-644`): there `ClosedTurnsStayClosed` holds
  instead.
* `KeepsQuestions`: only the reset after a heard reply and the queue's caps drop
  anything the user said. What a current generation in its debounce holds as active
  does not count: it is a copy of what is pending, and goes when that generation ends.
* `HandlersReturn`: the handlers that cancel and await the generation come back.

Crawl:

* `UnchangedIsSearchable`: if the row has the hash or the validator of the
  current version, so that crawls will skip the page, its chunks are there.
* `Converges`: when jobs no longer overlap and nobody reingests, the current
  version becomes searchable and stays so.

Documents:

* `NothingFallsBetween`: what is stored is in every editor's page, or on its way
  to it.
* `SeenIsStored`: what an editor has is stored or about to be.
* `AbandonedIsCleared`: when all handlers have returned and no user is recorded,
  no updates are kept.

Attachments:

* `ProcessedIsSearchable`: what is recorded as processed has its chunks, as long as
  no accident (2.6) has happened since a lone job stored the file.
* `EndsProcessed`: as long as the page keeps being stored or tested, attempts end with
  the file recorded as processed, for good, and its chunks are there from then on but
  where an accident came after it was last stored. One such accident is a failed
  attempt that left its hash: the next records the file as processed without chunks.

Item tasks:

* `LastScheduledIsSaved`: when all is done the note has the content of the save
  scheduled last. Handlers stop each other's saves, lists are incomplete and stops
  late, missed or lost, and yet the last is not stopped, and no save of its own node is
  written after it. One of another node may be, if that node's loop was held up past
  the last save and no stop had reached the save by then.
* `AllForgotten`: when all is done no task is registered anywhere.
* `LastContentArrives`: the save scheduled last reaches the note (where one held up on
  another node may then replace it), unless one scheduled after it takes its place or
  its handler gives up: no handler waits for
  ever for a save it has stopped.

Sessions:

* `LeaseProtects`: where the lease outlasts the sleep and no loop is held up, a
  cleaner in its loop holds the lock until it wakes.
* `BeatingIsKept`: a connected session never silent for too long is in the pool.
* `BeatingIsCleanedUp`: the disconnect of such a session finds its entry.
* `KeepsRegistry`: `SessionPool` implements `SessionRegistry`.
* `OrphansAreReaped`: what an ended session left is reaped, or no cleaner runs.

Limits:

* `AdmitsAtMost`: in no window does Redis, or the memory of one worker, admit more
  than its bound: the limit, but for the turn of a counter's life under "fixed"
  (`2 * Limit - 1`) and for workers late at the turn of a bucket under "rolling":
  one more for each late worker where the window begins, and one more for each other
  worker where it ends.
* `CountersExpire`: a counter without expiry has a request under way that will set it,
  unless that request's command failed or its process died.
* `RefusesOnlyTheBusy`: who is refused has asked more than the limit in the window
  (and a bucket, under "rolling"), as long as no counter was left without expiry.

Every one of these has a mutant, a plausible slip in the code, under which TLC
finds it violated.

## 4. Proofs

For every value of the constants, from the assumptions named in the modules
(`BoundsAssumption`, `CrawlAssumption`, `AttachmentAssumption`, `CollabAssumption`,
`TasksAssumption`, the four of `SessionPool`, the five of `RateLimit`), and, where the
table says so, `QuickSends` or `QuickEntries`:

| module | theorem | establishes |
|---|---|---|
| `VoiceTurnProofs` | `TypeCorrect` | `Spec => []TypeOK` |
| | `HistoryAlternating` | `Spec => []HistoryAlternates` |
| | `QueuedReplyLast` | `Spec => []QueuedReplyIsLast` |
| | `NoStaleSpeechEver` | `Spec => []NoStaleSpeech` |
| | `AskingWholeTurns` | `Spec => []AsksWholeTurn` |
| | `ClosedTurnsStay` | `Spec => ClosedTurnsStayClosed` |
| | `UnheardRetracted` | `Spec => UnheardReplyIsRetracted` |
| | `QuestionsKept` | `QuickSends => (Spec => KeepsQuestions)` |
| `CrawlPageProofs` | `TypeCorrect` | `Spec => []TypeOK` |
| | `UnchangedSearchable` | `Spec => []UnchangedIsSearchable` |
| `CrawlAttachmentProofs` | `TypeCorrect` | `Spec => []TypeOK` |
| | `ProcessedSearchable` | `Spec => []ProcessedIsSearchable` |
| `CollabDocProofs` | `TypeCorrect` | `Spec => []TypeOK` |
| | `SeenStored` | `Spec => []SeenIsStored` |
| | `NothingFalls` | `Spec => []NothingFallsBetween` |
| | `AbandonedCleared` | `Spec => []AbandonedIsCleared` |
| `ItemTasksProofs` | `TypeCorrect` | `Spec => []TypeOK` |
| | `LastSaved` | `Spec => []LastScheduledIsSaved` |
| | `AllForgottenOnce` | `QuickEntries => (Spec => []AllForgotten)` |
| `SessionPoolProofs` | `TypeCorrect` | `Spec => []TypeOK` |
| | `LockProtects` | `Spec => []LeaseProtects` |
| | `BeatingKept` | `Spec => []BeatingIsKept` |
| | `BeatingCleanedUp` | `Spec => BeatingIsCleanedUp` |
| | `Refines` | `Spec => KeepsRegistry` |
| `RateLimitProofs` | `TypeCorrect` | `Spec => []TypeOK` |
| | `CountersExpireOnce` | `Spec => []CountersExpire` |
| `RateLimitBoundProofs` | `AdmissionsBounded` | `Spec => []AdmitsAtMost` |
| | `OnlyTheBusyRefused` | `Spec => RefusesOnlyTheBusy` |

**Voice.** `TypeOK` is inductive because it bounds the transcriptions by the
utterances (`heard + owed <= starts`). The history changes in three ways only
(`HistoryMoves`: it stays, loses its last turn, or gains one), and each keeps
alternation and the caption's place; `TtsMoves` does the same for the TTS.
`AsksWholeTurn` is inductive together with `GenerationsInOrder`: no task or
handler carries a generation newer than the counter, so that one made stale
never becomes current again. `ClosedTurnsStayClosed` needs the typing alone.

`UnheardReplyIsRetracted` hangs on `active`: a transcription retracts only when no
segment is active. Once the current generation has answered, it has either cleared
them or still speaks its fallback; it asks nothing more, and no handler is about to
start it anew (`AnsweredIsOver`, with `TaskOlder` for the handlers); and no message is
of a generation to come (`GensInOrder`), so that every restart leaves the history
without an answer of the new generation. That the two messages taken back are the
question and its reply is `RetractsTurn`, from `HistoryAlternates`.

`KeepsQuestions` asks of every step where the questions it touches go. The active
segments of a generation may be forgotten for three reasons, and the invariant
(`KeepsInv`) has a part for each: the generation about to start asks them among the
pending ones, into which the restart merged them (`CopiesPending`); it has answered,
and they are in the history (`SpokenAnswered`, and `AsksWholeTurn` for the commit);
or it is cancelled, and then it is stale, or current and still in its debounce
(`CancelsEarly`, the only part that uses `QuickSends`; `TaskOlder` says that what a
transcription handler cancels is stale). A retraction takes back a reply, which asks
nothing (`RepliesAskNothing`), and a question, which joins the pending ones;
`AskedJoin` shows that joining drops no question.

**Crawl.** `UnchangedIsSearchable` speaks of the row and the chunks, but its
truth depends on what jobs under way remember. The invariant adds: nothing is
recorded of a version not yet served, and a crawl never writes a validator newer
than its text (`Dated`); beside a lone crawl nothing runs (`Exclusive`); a lone
crawl knows the row it will compare with and has stored what it will record
(`LoneKnows`); in a trusted state the row's validator is no newer than its hash,
and a test under way has not stored less than the row says (`Sound`).

**Documents.** `SeenIsStored` and `NothingFallsBetween` relate the stored list,
the pages and what is on its way. The invariant says, while nothing is torn, that
every user is recorded and what a user has, or will be sent, is stored or about to
be (`Recorded`); that what is stored is known to every user who was sent the
state, or under way to them (`Delivered`); and that after the last user was
removed a handler is still on its way to clear the list (`Clearing`). At any time:
handlers of leaving run only for those who left (`Departed`), a user is in the room
from before the state is read (`Places`), and a compaction rewrites more than one
entry (`Compactable`). `CompactionKeeps` shows that the rewritten list merges to
the same document, however long it is and wherever it is cut.

**Attachments.** The invariant says what a lone job knows: the row as it looked it
up, and, past its saving, that the chunks of what it will record are there; that
jobs not alone go with `~sound`; and that a job that failed to look the row up
makes the state unsound before it ends without recording.

**Item tasks.** "When all is done" is the end of an argument about every state. The
save scheduled last has all others ahead of it (`LatestOK`). If it is stopped, or
about to be, a handler is still at work that will schedule another or give up
(`SafeOK`), because a handler lists saves before it schedules its own and nothing
is known of a save before (`KnownOK`). So, until then, it sleeps, or it was written when
nobody slept whom no stop had reached, or else it overtook; and those it overtook are
of other nodes, as on its own all had woken before it (`ReachedOK`). For `AllForgotten`, what is registered sleeps
or is being cleaned up (`RegisteredOK`), and an entry not yet made can be neither
stopped nor removed (`EnteringOK`), so that its save outlives its making
(`EnteredOK`, the only part that uses `QuickEntries`).

**Sessions.** `LeaseProtects` is inductive with the typing: while it holds, a
renewal finds the node's own key, and `SET NX` fails for the others. The pool needs
to know what the nodes are in the middle of: a node handling a session is the one it
is connected to, or it has just been disconnected there, and a cleaner about to reap
a session that has since beaten has seen it silent. `Refines` maps each command to
a step of the registry or to none; the step of a tick may let any number of
sessions fall silent.

**Limits.** Two requests never owe the same counter its expiry (`ExpiresOnce`), and a
counter owed one has none (`ExpiryDue`): it cannot end, so that no second request
can begin it anew.

How many are let in is a sum over the history, and the invariant (`BoundInv`) relates
it to sums over the counters and numbers of requests under way, in layers:

* the memory of a worker: nothing is remembered or admitted of times to come, and in
  the window it remembers what it admitted, or more (`Remembrance`), so that its own
  test of the limit is the bound;
* "fixed": the counter counts requests made in its life (`FixedAsked`). A life lets in
  no more than the limit, and one less after the tick in which its first request set
  the expiry; so when the next life begins at most `Limit - 1` of the window are from
  lives before (`FixedBound`), which makes `2 * Limit - 1`;
* "rolling": a counter is there for as long as somebody counts its bucket
  (`LivesLong`); from any bucket on the counters have counted what was admitted there,
  but for one request of each worker that was late when the bucket began
  (`AdmittedCounted`), and no more than was asked (`CountAsked`). A request on time is
  let in when the buckets of the window count no more than the limit. A late one
  misses the present bucket, and is let in beyond that only while the buckets before
  it still count no more than the limit, which `RollingBound` keeps room for.

`RefusesOnlyTheBusy` reads the same layers from the other side: a counter, and a
memory, count no more than was asked in the span they look back on.

**What proving changed.** Three definitions were wrong where the instances of the
runs could not show it, and were corrected: the bound for late workers, which was
less by `Cardinality(Workers)` (false from buckets of three ticks on); the two cases
of `Bound`, which overlapped; and `Kept`, which counted active segments of a
generation cancelled in its debounce although their only copy that matters is the
pending one (a fourth utterance shows the difference, by the queue's cap).

**Only model-checked:** the liveness properties (`HandlersReturn`, `Converges`,
`EndsProcessed`, `OrphansAreReaped`, `LastContentArrives`), which are out of TLAPS's
reach.

## 5. Findings

Each is the counterexample of a run; `PROJECT.json` quotes the line that says
otherwise.

1. `collab_cleared`: a document is cleared under a user who joined after the
   check (`socket/utils.py:254`).
2. `sessions_orphans`: a node that does not get the lock at its start, or finds it
   expired after its sleep, never cleans again; once the holder has died nobody does
   (`socket/main.py:181`).
3. `attachments_slate`: deleting a site's data deletes the chunks of its attachments
   but not their rows, so that no later crawl brings them back
   (`routers/crawler.py:386`).
4. `rate_refused_forever`: a counter whose EXPIRE failed never expires, and its
   address is refused for good (`routers/public_chatbot.py:313`).

Runs of earlier versions of these modules, not kept, also found false of the code:
that texts queued past the budget are asked (`voice_rag_pipeline.py:467`); that a
caption comes with the first audio (`:738`); that the start of speech cancels only
generations it made stale (`:422`); that old versions of a page are removed
(`tasks/crawler.py:464`, after one swallowed failure); that a reingest forces the
page where the crawler has a database of its own (`routers/crawler.py:274`); that
stopping all tasks of an item stops all (`tasks/__init__.py:202`, without Redis).
The hazards at these lines say so. And a reply interrupted while its *fallback* is
spoken stays in the history though nobody heard it, and its question is asked again
beside it: its segments are still active, so that nothing is retracted
(`voice_rag_pipeline.py:497`; the comment at 485-487 describes the reply as finished,
which this one is not). `UnheardReplyIsRetracted` is about a generation that has ended
by itself.

Read but not modelled, and only listed as hazards: the incremental jobs of the
schedule are lambdas that return a coroutine nobody awaits (`main.py:823, 843, 865`).

## 6. What was done, and what could follow

Done, in this order: voice turns, the crawl of a page, collaborative documents, the
tasks behind their saves, the registry of sessions and its lock with its abstract
specification, attachments, the limiters.

The project ends here. What a continuation could take up: the crawler's schedule
(leader lock, worker, supervisor), so that "crawls keep being started" becomes a
conclusion; the configuration flag that overlapping reingests save and restore
(`routers/crawler.py:210`: the comment there promises that it is restored, and the
second of two that overlap restores what the first had set); pages that go back to
an earlier version and its validator; USAGE_POOL.

## 7. Not modelled

Rendering, audio coding and microphones; retrieval, embedding and language
models (external); the graph database; the text of prompts, captions and pages;
configuration and migrations; converters of documents. Most of the repository is
upstream Open WebUI (chat completion, knowledge, channels, access grants,
configuration: some hundred thousand lines) whose requests are one transaction or
one forwarded call each: a model of them would restate their assignments. The
modules therefore cover a small share of all lines, and most of those of the
components in which order and failure decide. `PROJECT.json` gives the reason for
each component.

*Usage accounting* is left out because there is nothing it promises: tokens are read,
added and written back, and limits checked before a reply whose cost is recorded
after it; several processes lose counts and pass limits, and no line of the
repository says that they do not. *The schedule* is left out because what it decides
lies in a scheduler library and in process groups; `CrawlPage` names what it takes
from it as a premise.

Within the modelled components, what is left out is named in section 2.
