# TLA+ models of the SO2 key-value store server

This directory holds TLA+ models of the server in `src/src/server`, the TLC
configurations that check them, and `PROJECT.json`. `PROJECT.json` maps each
definition to the source lines it models and lists the runs, mutants, findings
and hazards.

## The system

The server (`src/src/server/main.c`) is one process with several threads and
child processes:

* **Job threads** (`thread_operation`, `MAX_THREADS` of them). They share one
  `readdir` stream over the jobs directory, guarded by `dir_lock`. Each thread
  takes the next `.job` file and runs its commands in order:
  * `WRITE`, `READ` and `DELETE` each run a *batch* of keys.
  * `SHOW` prints the table.
  * `BACKUP` forks a child that writes a `.bck` file.
  * `WAIT`, `HELP` and invalid lines write output only.
* **Store** (`kvs.c`, `operations.c`). The hash table has 26 buckets chosen by
  `hash`, which takes the lower-cased first letter, or the digit for keys that
  start with a digit. Each bucket has its own rwlock (`list_lock`). A
  table-wide rwlock `global_lock` (G) protects the whole table:
  * WRITE and DELETE batches take G for reading.
  * READ batches do not take G at all.
  * SHOW and BACKUP take G for writing (`lock_table`).
* **Batch order.** A batch is sorted by `create_alphabetical_index`, a
  selection sort using `strcasecmp`. The batch then locks buckets as it reaches
  them and holds them to the end.
* **Subscription registry** (`subs_list`, guarded by the rwlock `subs_lock`).
  It keeps one node per key with the notification fds of that key's
  subscribers.
  * `write_pair`, when it replaces a value, takes `subs_lock` for reading and
    writes a type-1 notification to every subscriber.
  * `delete_pair` calls `remove_all_subscriptions_from_key`. That function
    takes `subs_lock` for writing, writes a DELETED notification and removes
    the node.
* **Session workers** (`ClientHandlerFunction`, `S` of them). Each takes a
  client from the ring buffer filled by the host thread, opens the client's
  pipes, and serves SUBSCRIBE, UNSUBSCRIBE and DISCONNECT until the client
  disconnects or goes away (EOF). `add_subscription` for a key with no node
  calls `key_exists`, which read-locks G.
* **Host thread** (`HostThreadFunction`). It reads registrations from the
  server FIFO into the ring buffer (semaphores `empty` and `full`). On SIGUSR1
  it frees the registry and disconnects every client. `main` blocks SIGUSR1
  before it creates any thread, and only the host thread unblocks it.
* **Clients** (`src/src/client`). A client creates three pipes, sends
  CONNECT, and runs a notification thread that exits the process on EOF.
* **Backup children.** At most `MAX_PROC` run at once. `active_child` counts
  them under `active_child_mutex`, and `wait(NULL)` reaps one when the limit
  is reached.

## Modules

| Module | Models | State | Actions |
|---|---|---|---|
| `KeyOrder` | `hash`, `strcasecmp`, `create_alphabetical_index` | – (pure operators) | `Hash`, `StrCaseCmp`, `MinFrom`, `Swap`, `SelectionSort`, `CreateAlphabeticalIndex`; reference definitions `IsPermutationOf`, `IsCaseOrdered`, `BucketsAscend` |
| `KVS` | job threads, store, locks, registry, session workers, backup children | see below | one action per step of each handler |
| `MCKVS` | key and value constants, the job directories and client scripts of each run; `MCSpec` restricts `Init` to the (directory, client script) pairs of the run; the invariants that check `KeyOrder` over every batch of up to three keys and every batch of the job directory | – | – |
| `AtomicStore` | what the job side promises (spec 4.1–4.3, 8.3): each command indivisible, in file order | `store`, `jobs`, `done`, `out` | `Write`, `Delete`, `Read`, `Other` |
| `SessionServer` | host thread, connection ring, session workers with descriptor numbers, active-clients list, SIGUSR1 reset, client processes | see below | one action per step of each thread |
| `MCSessionServer` | client, worker model values and client scripts | – | – |

In `KVS`:

* Keys are byte sequences, so that `Hash` and `StrCaseCmp` compute what the C
  code computes. Values are model values.
* `table` is the set of present keys with their values. `subs` maps a key that
  has a registry node to its subscribers.
* Locks:
  * G is held in `gReaders` (read holds per actor) and `gWriter`.
  * Bucket locks are held in `bucketWriter` and `bucketReaders`.
  * `subsWriter` records `subs_lock` when a worker holds it across
    `key_exists`.
  * A lock that the code takes and releases around non-blocking work is not a
    variable. It is a guard on the one step that does the work.
* A job thread's program counter `jpc` names the point in `thread_operation`
  where it is waiting. A session's `spc` does the same for its worker.
* Step structure of the job thread:
  * `TakeFile` is `readdir` plus opening the files.
  * `StartBatch` sorts the batch and read-locks G (WRITE and DELETE only).
  * `WriteKey`, `ReadKey` and `DeleteKey` are one loop iteration each: lock
    the bucket if not held, then `*_pair`.
  * The notification part of `write_pair` and `delete_pair` is two steps
    each. `WriteNotify` read-locks `subs_lock` (`subsReaders`), and
    `DeleteNotify` write-locks it (`subsWriter`). `WriteSend` and
    `DeleteSend` then write to every subscriber and unlock; `DeleteSend`
    also unlinks the key's node.
  * A send step waits while a live subscriber's pipe already holds
    `PIPE_CAP` unread notifications (`CanNotify`). Meanwhile the thread
    keeps its bucket locks and `subs_lock`, as `safe_write` does in the
    code. The model writes to all subscribers in one step once every pipe
    has room; the code writes to them one at a time.
  * `EndBatch` and `EndRead` are the unlock epilogues.
* `BACKUP` is split at every lock and at every line where another thread can
  interleave:
  * `BackupLockTable`, then `BackupLockMutex`.
  * `BackupReap`, the `wait`, taken only at the limit.
  * `BackupFork`, which is `fork` plus `unlock_table`.
  * `BackupUnlock`, which is line 255.
  * `BackupCount`, which is `active_child++` at line 256.
* Session steps:
  * `SubscribeNode` is `add_subscription` when a node already exists.
  * `SubscribeLookup` and `SubscribeKeyExists` are the path without a node.
    `SubscribeKeyExists` keeps the read hold on G that `key_exists` never
    releases.
  * `Unsubscribe`, `Disconnect` and `ClientEOF` are the remaining requests.
* Client side (`api.c`):
  * `curSubs` is the client's `current_subs`. `SubscribeRefused` is the
    `MAX_NUMBER_SUB` check of `kvs_subscribe` (lines 176-182), which refuses
    without sending. `SubscribeNode` and `SubscribeLookup` are guarded by the
    same check, because the request is only sent when it passes.
  * `Answer` counts the answer as the client does: `SubscribeCount` adds one
    on any nonzero SUBSCRIBE answer, `UnsubscribeCount` removes one only on
    answer 0.
  * `nread` counts the notifications the notifications thread has read, and
    `ClientNotification` reads the next one, taking one off `curSubs` on
    DELETED.
* The SIGUSR1 reset (`HostReset`, main.c 452-463) is one step: it waits for
  no job lock, drops the whole registry, installs a new `subs_list`
  (`regGen` counts them) and closes every session. `jreg` is the `subs_list`
  each job thread's batch was handed at `StartBatch` (main.c 139, 165). A
  batch handed an older list than `regGen` is `Stale`: its notify step locks
  the destroyed lock and reads freed memory. `create_subscription_list`
  never initialises `subs_lock`. The startup list lives in fresh, zeroed
  heap, which glibc reads as an unlocked rwlock. The list a reset creates
  reuses the chunk just freed, so its lock holds leftover bytes. `BadLock`
  is either case, and the ghost `badSubsLock` records a lock taken under
  it. Both are undefined behaviour. The model takes the outcome in which
  the lock works, and the freed list yields no subscribers
  (`SubscribersIn`) and is left unchanged.
* Ghost variables:
  * `ver` counts the commits to each key.
  * `notif` is the sequence of notifications written to each client's pipe,
    each tagged with its commit number.
  * `snaps` holds the views taken by SHOW and by each fork, with the set of
    threads whose batch was then half applied.
  * `sigpipe` records a notification written to a client that is gone.
  * `jseen` holds, per job thread, the value each key of its current batch
    had when the batch reached it: `read_pair`'s answer for a READ, the
    overwritten value for a WRITE or DELETE. `jout` collects the answers of
    finished READ commands.

### Refinement: `KVS` implements `AtomicStore`

`KVS` declares `AS == INSTANCE AtomicStore WITH ...` and checks
`AtomicBatches == AS!Spec` as a property. The mapping:

* `store <- AbsStore`: the table with every key touched by an in-flight WRITE
  or DELETE batch (one between `StartBatch` and `EndBatch`) rolled back to the
  value in `jseen`. A batch is therefore linearized at its unlock epilogue.
* `done <- Finished`: the commands of every file handed out by `readdir`
  that its thread has moved past.
* `out <- jout`, `jobs <- dir`, `Missing <- NoOne`.

A READ is linearized at `EndRead`: the values it read while taking its bucket
locks must equal the abstract store at that moment. This holds because all
three batch kinds lock buckets in sorted order and hold them to the end
(strict two-phase locking). `kvs_read` takes no `global_lock`, and the check
shows it needs none.

### `SessionServer`

* Descriptors are numbers. `fdFile` maps each number to the pipe it refers
  to, or to `Closed`. `open()` takes the lowest free number (`LowestFree`),
  so a closed number is reused by the next open. A `read()` that is already
  blocked keeps its pipe (`wcap`) even if the number is closed under it.
* Host thread (`hpc`):
  * `HostCheckSignal` is lines 452–468.
  * `HostReadFrame` is the FIFO `read()`.
  * `HostWriteBack` is line 471.
  * `HostSemWait` and `HostProduce` are `sem_wait(&empty)` and the slot write
    with `sem_post(&full)`.
  * `HostReset` is `free_subs_list`, `disconnect_all_clients` and the new
    registry.
  * `HostClearFlag` is line 460.
* Ring: `ring`, `in`, `out`, `empty`, `full`, as in the code. The ghost
  `live` marks slots holding an unconsumed record.
* Worker (`wpc`):
  * `Consume`, `OpenPipes`, `AddActiveClient`.
  * `ReadOpBegin` (`read()` on `req_fd`: EBADF, or block on a pipe), then
    `ReadOp` or `ReadEOF`.
  * `Request` (SUBSCRIBE/UNSUBSCRIBE and the answer).
  * `DisconnectClose`, `DisconnectRespond`, `RemoveActiveClient`.
  * `write_response` (`WriteResp`) writes to whatever the response number
    now refers to.
* `active` is `active_clients_list` from `head`. Nodes freed by
  `disconnect_all_clients` stay in the sequence marked `freed`, because `head`
  still points at them.
* The registry is the set `subs` of subscribed notification descriptor
  numbers.
* Client (`cpc`):
  * `Connect` is the CONNECT frame of `kvs_connect`.
  * `SendRequest` is one command of the client loop, or the process ending;
    a write to a request pipe nobody reads raises SIGPIPE.
  * `ClientEOF` is the notification thread's `exit(1)` on EOF, and a reply
    read that hits EOF.
* Signals:
  * `SigHandled` is `sig_handler` run while the host thread is not blocked.
  * `SigInterrupt` is the handler interrupting the blocked `read()` or
    `sem_wait()`. `sa_flags` is 0, so the call fails with EINTR.
  * `main` blocks SIGUSR1 before it creates any thread, so the host thread
    is the only thread that takes it.
* Ghosts: `sigPending` is a signal no reset has handled yet. `uaf` is a freed
  node accessed. `crosstalk` is a descriptor number used while it refers to
  another client's pipe. `sigpipe` is an answer written to a client that has
  exited.

## Runs

| Run | Expect | What it shows |
|---|---|---|
| `kvs` (`MCKVS.cfg`) | pass | Two job threads, one client and at most one SIGUSR1 reset at any step, over two scenarios. In the first, threads write, re-write and delete `a` and `b` while a client capped at one subscription subscribes, unsubscribes and re-subscribes. In the second, WRITE, DELETE and READ batches race SHOW and two BACKUPs with `MAX_PROC = 1` while a client leaves. Checks: a registry node exists only for a present key or a delete in progress; notifications of a key reach a client in commit order; no SHOW or fork sees a batch half applied; no notification goes to a pipe the reset closed; the server never holds more of a client's subscriptions than its cap; every job thread and every client finishes, with notification pipes that hold one unread notification; `KVS` refines `AtomicStore`. Every batch of at most 3 keys from {a, A, b, B, ab, 1, 2}, and every batch of the job files, sorts to a permutation in `strcasecmp` order. In that order the buckets ascend among letter keys and among digit keys. They descend only at the step from the last digit key to the first letter key, which is the deadlock `kvs_digit_deadlock` shows. |
| `kvs_digit_deadlock` | violation | `WRITE [(1,x),(a,y)]` against `WRITE [(a,..),(b,..)]`: the digit sorts first but hashes to bucket 1, so the two threads lock buckets 0 and 1 in opposite orders. |
| `kvs_show_after_subscribe` | violation | A SUBSCRIBE through `key_exists` leaves a read hold on G, and the following SHOW blocks forever. |
| `kvs_client_gone` | violation | A client exits without DISCONNECT. Its subscription stays, and the next WRITE of its key writes to a pipe with no reader. SIGPIPE is not ignored, so the server dies. |
| `kvs_reset_registry` (`MCKVS_reset_registry.cfg`) | violation | `SubsLockValid`: every `subs_lock` operation must be on a live, initialised rwlock. TLC's trace: SIGUSR1 resets the registry, then a WRITE's `write_pair` read-locks the new list's lock, which `create_subscription_list` never initialised. With that lock initialised, the same run fails through the other path: a batch handed `subs_list` (main.c 139) before the reset locks and walks the freed list. |
| `kvs_client_count` | violation | A client subscribes to `b` twice. The second answer is 2 (already subscribed), which `kvs_subscribe` counts, so `current_subs` is 2 while the server holds one subscription. With a cap of 2 the client now refuses every SUBSCRIBE. |
| `session` | pass | One worker, a ring of two slots, two clients and one SIGUSR1. Every CONNECT is admitted exactly once, through the FIFO, the host thread, the ring and a worker. Every client ends, even when the reset closes its pipes. |
| `session_signal_lost` | violation | A SIGUSR1 taken after line 468 is overwritten by `received_sigusr1 = intr`, when the FIFO already held a frame. One taken during the reset is cleared at line 460. Either way no reset follows. |
| `session_ring_overwrite` | violation | With the ring full, SIGUSR1 interrupts `sem_wait(&empty)`. Its result is not checked, so the host thread overwrites an unconsumed slot, and that client waits in `kvs_connect` for ever. |
| `session_freed_node` | violation | `disconnect_all_clients` leaves `head` at the freed nodes. A second SIGUSR1 walks and frees them again. |
| `session_fd_reuse` | violation | Two workers and no signal. Between `close(resp_fd)` and `remove_active_client(resp_fd)`, another worker opens a new client on the same numbers, and the new client's node is unlinked instead. |
| `session_disc_sigpipe` | violation | DISCONNECT closes `notif_fd` before it writes the answer. The client's notification thread sees EOF and exits, so the answer goes to a pipe with no reader (SIGPIPE). |

Each property of a passing run has a mutant in `PROJECT.json`. The mutant is a
plausible slip in the mapped code, and TLC finds the property violated when the
mutant replaces that code:

* a swap that loses an element;
* `hash` without `tolower`;
* the raw -1 sent as the UNSUBSCRIBE answer;
* `delete_pair` without `remove_all_subscriptions_from_key`;
* a write without its bucket lock;
* a read without its bucket lock (breaks `AtomicBatches`);
* an epilogue that keeps its bucket locks;
* `kvs_read` unlocking G it never took;
* `lock_table` that ignores readers;
* a consumer that does not advance `out`, or does not wrap it;
* a producer without `sem_post(&full)`;
* an UNSUBSCRIBE that uncounts whatever the answer (breaks `ClientCapRespected`);
* a reset that keeps the registry (breaks `NoNotificationToClosedPipe`);
* `write_pair` returning without unlocking `subs_lock` (breaks `ClientsFinish`).

## Bounds

* **Two job threads.** This is the least number that can race. Each run has two
  `.job` files of one to three commands, and each batch has one or two keys.
* **Keys.** `a` and `b` fall in different buckets. `1` shares bucket 1 with
  `b`. This gives both the same-bucket and the different-bucket cases, and the
  digit/letter mismatch.
* **`kvs`, first scenario.** It writes `b` three times, so that two
  replacing writes of one key (the only writes that notify) can race. The
  client's cap is 1, so a DELETED notification read late, or an UNSUBSCRIBE
  answer, decides whether the next SUBSCRIBE is sent.
* **`kvs`, second scenario.** The READ of `a` and `b` can run while the
  other file's WRITE of both is half done, which is the case the refinement
  is about.
* **Pipe capacity.** `PIPE_CAP = 1` in `kvs`. A second notification to
  the client then blocks its writer until the client reads the first, with
  the batch's bucket locks and `subs_lock` held. That is the smallest case
  in which a real pipe is full. In `kvs` the writer blocks while the same
  client's SUBSCRIBE or UNSUBSCRIBE is waiting on `subs_lock`. The
  violation runs use 2, which never binds.
* **Resets.** `MaxResets = 1`: one SIGUSR1 may hit any state of either
  scenario. A second reset adds nothing the first does not show.
* **Scenarios.** `MCSpec` pairs each job directory with its client script
  instead of taking every pair, which keeps the run near 165,000 states.
* **Sessions in `KVS`.** One session serves one client script. Scripts cover a
  repeated SUBSCRIBE (answer 2), an UNSUBSCRIBE of a key with no node
  (answer 2), and both DISCONNECT and EOF.
* **Backups.** `MAX_PROC = 1` with two BACKUPs is the smallest case where the
  limit and `wait(NULL)` matter.
* **`SessionServer`.**
  * Two clients, one connecting after the other, wrap a ring of two slots
    once.
  * One SIGUSR1 can hit any step of the host thread.
  * Three descriptor numbers per client keep `open()` from failing, while
    still letting a closed number be reused by the next client.
  * The violation runs use the least that shows each defect: a ring of one
    slot, two signals, or two workers.
* **Why these are enough.** Every action fires in the passing runs, and every
  mutant is caught. The ghost `ver` is bounded by the number of commits in the
  job files.

## Fairness

Job threads, session workers, the host thread, backup children and client
processes are OS threads and processes. Each one that stays able to run
eventually runs. So the model assumes weak fairness:

* per job thread, per session, per client's notifications thread, and for
  child exit in `KVS`;
* per worker, for the host thread and per client in `SessionServer`.

No fairness is assumed on lock hand-over. A thread blocked on a lock is not
enabled, so it does not need to be. SIGUSR1 comes from outside, so it has no
fairness at all.

The liveness properties:

* `JobsComplete`: main joins the job threads.
* `ClientsFinish` (`KVS`): every client's script ends, even though job
  threads block on full notification pipes while holding `subs_lock`.
* `AllClientsFinish`: every client ends.

`SessionServer` runs set `CHECK_DEADLOCK FALSE`. Once every client has ended,
the host thread waits on the FIFO for ever, and the server never stops by
itself. `AllClientsFinish` is what checks that nothing gets stuck before then.

## Not modelled

* **The job-file parser.** It is not part of the repository, and its output
  is modelled as command records (`spec_modelled` in the map).
* **Text.** `WAIT`, `HELP` and invalid commands, and all `.out` and `.bck`
  text.
* **I/O failures in `KVS`.** Open, close, write and fork failures are left out.
* **Response-pipe capacity.** A client waits for each answer, so its
  response pipe never holds more than one.
* **`key_exists`'s unlocked bucket walk.** It is one step reading the
  table, so it never overlaps a `DeleteKey` freeing a node of the same
  bucket. The data race is there by construction, since no lock excludes
  the writer. Only its effect on the registry is checked
  (`SubscriptionImpliesEntry`).
* **The byte-level loops of `io.c`.** Frames are at most `PIPE_BUF` bytes, so
  they are read and written whole.
* **Descriptor exhaustion.** The EOF/EBADF break leaks three descriptors per
  client, and a worker whose `open()` fails returns for good (main.c 324). It
  takes hundreds of clients to matter, so `FdNums` is sized so that `open()`
  never fails.
* **What `SessionServer` leaves out:**
  * registry contents and key existence, which are modelled in `KVS`;
  * the reset's effect on job threads and on the registry, and the client's
    `current_subs`, which `KVS` models (`HostReset`, `curSubs`).
* **The window in a session worker between reading `subs_list` and locking
  it.** A worker in the middle of SUBSCRIBE when the reset runs is closed by
  the reset in the model; in the code it may still touch the old list. The
  job-thread case, which is the same defect, is `kvs_reset_registry`.
* **The per-key subscriber array (`10*S` entries).** Filling it needs more
  than `10*S` subscriptions left by dead clients of one key, far past what
  TLC can enumerate.
* **`safe_write`'s EINTR retry (io.c 71).** SIGUSR1 is taken only by the host
  thread, which never calls `safe_write`, and the client installs no handler,
  so the path cannot be reached.
* **The client's `write_result` 1/2 paths.** SIGPIPE is not ignored, so a
  write to a closed pipe kills the client before the result is seen.
* **Not checked by any run.**
  * The stability of the sort. `KeyOrder` reorders equal keys.
  * The `MAX_PROC` ceiling. `KVS` lets two BACKUPs pass the check.
  Both are visible in the model, but their violation runs were retired in
  favour of the session and signal runs.
