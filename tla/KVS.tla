-------------------------------- MODULE KVS --------------------------------
(***************************************************************************)
(* The server's shared store and its threads (src/server/main.c, kvs.c,    *)
(* operations.c):                                                          *)
(*  - job threads (thread_operation) take .job files from the shared       *)
(*    directory and run WRITE / READ / DELETE batches, SHOW and BACKUP;    *)
(*  - session workers (ClientHandlerFunction) serve one connected client   *)
(*    each: SUBSCRIBE, UNSUBSCRIBE, DISCONNECT, or EOF when it goes away;  *)
(*  - backup children (fork in CMD_BACKUP) run until they exit.            *)
(* Locks: the table-wide rwlock global_lock (G), one rwlock per bucket and *)
(* the registry rwlock subs_lock. pthread rwlocks are reader-preferring    *)
(* (glibc default): a waiting writer does not hold back new readers.       *)
(* A step holds a lock across steps only where the code blocks while       *)
(* holding it; a lock taken and released around non-blocking work is one   *)
(* step with the lock's availability as its guard.                         *)
(***************************************************************************)
EXTENDS Integers, Sequences, FiniteSets, TLC, KeyOrder

CONSTANTS Threads,       \* job threads (MAX_THREADS)
          Sessions,      \* session workers, each serving one client (S)
          Keys,          \* keys, as byte sequences (see KeyOrder)
          Values,        \* values
          JobDirs,       \* possible jobs directories: sequences of .job files
          ClientScripts, \* possible request sequences of one client
          MAX_PROC,      \* ceiling on backup children
          MAX_NUMBER_SUB, \* the client's cap on its own subscriptions
          MaxResets,     \* bound on the SIGUSR1 resets of a behaviour
          PIPE_CAP,      \* notifications a client's pipe holds unread
          NoOne          \* model value: nobody holds the lock

Actors  == Threads \cup Sessions
Buckets == {Hash(k) : k \in Keys}

ASSUME \A k \in Keys : Hash(k) \in 0..25
ASSUME NoOne \notin Actors

\* Parsed job-file commands (the parser is an external collaborator).
WriteCmd(pairs) == [op |-> "WRITE", batch |-> pairs]
ReadCmd(ks)     == [op |-> "READ", batch |-> [i \in DOMAIN ks |-> <<ks[i], "none">>]]
DeleteCmd(ks)   == [op |-> "DELETE", batch |-> [i \in DOMAIN ks |-> <<ks[i], "none">>]]
ShowCmd         == [op |-> "SHOW", batch |-> <<>>]
BackupCmd       == [op |-> "BACKUP", batch |-> <<>>]

\* Requests read from a client's request pipe; EOF when the client is gone.
SubReq(k)   == [op |-> "SUB", key |-> k]
UnsubReq(k) == [op |-> "UNSUB", key |-> k]
DiscReq     == [op |-> "DISC", key |-> "none"]
EofReq      == [op |-> "EOF", key |-> "none"]

VARIABLES
  table,          \* kvs_table: present key -> value
  subs,           \* subs_list: key with a Subscription node -> subscribers
  gReaders,       \* global_lock read holds per actor
  gWriter,        \* global_lock write holder
  bucketWriter,   \* list_lock write holder per bucket
  bucketReaders,  \* list_lock readers per bucket
  subsWriter,     \* subs_lock write holder, held across a blocking step
  subsReaders,    \* job threads holding subs_lock for reading (write_pair)
  dir, dirPos,    \* the jobs directory and the readdir position
  jpc, jfile, jcmd, jbatch, ji, jheld, jnote,  \* job thread locals
  childMutex,     \* active_child_mutex holder
  activeChild,    \* active_child
  children,       \* backup children: "running" | "exited" | "reaped"
  script, spos, spc, resp, clientAlive,        \* session locals / clients
  notif,          \* notifications written to each client's notif pipe
  ver,            \* ghost: number of commits to each key
  snaps,          \* ghost: table views taken by SHOW and by backup forks
  sigpipe,        \* ghost: a notification was written to a closed pipe
  jseen,          \* ghost: per thread, the value each key of its batch had
                  \* when the batch first reached it (read_pair's answer)
  jout,           \* ghost: answers of finished READ commands, by command
  curSubs,        \* client: current_subs (api.c), guarded by subs_rwlock
  nread,          \* client: notifications its notifications thread has read
  regGen,         \* the subs_list in use: number of registries created
  jreg,           \* per job thread, the subs_list its kvs_write/kvs_delete got
  badSubsLock     \* ghost: subs_lock was used destroyed or uninitialised

jobVars  == <<jpc, jfile, jcmd, jbatch, ji, jheld, jnote>>
sessVars == <<script, spos, spc, resp, clientAlive>>
lockVars == <<gReaders, gWriter, bucketWriter, bucketReaders, subsWriter, subsReaders>>
bckVars  == <<childMutex, activeChild, children>>
cliVars  == <<curSubs, nread>>
regVars  == <<regGen, jreg, badSubsLock>>
vars == <<table, subs, lockVars, dir, dirPos, jobVars, bckVars,
          sessVars, notif, ver, snaps, sigpipe, jseen, jout, cliVars, regVars>>

----------------------------------------------------------------------------
(* Helpers                                                                 *)

\* f with key k removed from its domain.
Drop(f, k) == [x \in DOMAIN f \ {k} |-> f[x]]

\* f with k mapped to v, k added to the domain if absent.
Put(f, k, v) == [x \in DOMAIN f \cup {k} |-> IF x = k THEN v ELSE f[x]]

\* Mutant: lock_table that waits for no reader of global_lock.
GFreeWriterOnly == gWriter = NoOne

GFree == gWriter = NoOne /\ \A a \in Actors : gReaders[a] = 0

\* Mutant: a batch that writes a bucket without taking its lock.
CanWriteBucketUnlocked(t, b) == TRUE

\* A thread may write bucket b: it already holds it, or nobody does.
CanWriteBucket(t, b) ==
  b \in jheld[t] \/ (bucketWriter[b] = NoOne /\ bucketReaders[b] = {})

\* Mutant: a read batch that reads a bucket without taking its lock.
CanReadBucketUnlocked(t, b) == TRUE

\* A thread may read bucket b: it already holds it, or no writer does.
CanReadBucket(t, b) == b \in jheld[t] \/ bucketWriter[b] = NoOne

CurCmd(t) == dir[jfile[t]][jcmd[t]]

\* A write or delete batch of t has applied some but not all of its keys.
Partial(t) == /\ jpc[t] \in {"write", "w_notify", "w_send", "delete", "d_notify", "d_send"}
              /\ 1 < ji[t] /\ ji[t] <= Len(jbatch[t])

\* subs_lock can be write-locked: no writer and no reader holds it.
SubsFree == subsWriter = NoOne /\ subsReaders = {}

\* Notifications written to s's pipe and not yet read by its client.
Unread(s) == Len(notif[s]) - nread[s]

\* write_notification's safe_write to each subscriber in ss can complete:
\* a live client's pipe has room; a write to a pipe whose reader is gone
\* fails at once (SIGPIPE).
CanNotify(ss) == \A s \in ss : clientAlive[s] => Unread(s) < PIPE_CAP

\* Appends notification m to the pipe of every subscriber in ss.
Notify(ss, m) ==
  /\ notif' = [s \in Sessions |-> IF s \in ss THEN Append(notif[s], m) ELSE notif[s]]
  /\ sigpipe' = (sigpipe \/ \E s \in ss : ~clientAlive[s])

\* add_subscription with no node for the key: a new node holding the
\* client alone, inserted at the head of the list.
NewSubscription(f, k, s) == Put(f, k, {s})

\* remove_subscription_from_a_client on the node of k.
RemoveSubscriber(f, k, s) == [f EXCEPT ![k] = @ \ {s}]

\* remove_all_subscriptions_from_client: the client off every node; nodes
\* left empty stay in the list.
RemoveClient(f, s) == [k \in DOMAIN f |-> f[k] \ {s}]

\* The subs_list t's batch was given has since been freed by a reset.
Stale(t) == jreg[t] # regGen

\* The subs_lock t's batch locks is not a live, initialised rwlock: the
\* destroyed lock of a freed list, or the lock of a list made by a reset's
\* create_subscription_list, which never calls pthread_rwlock_init (the
\* startup list's fresh, zeroed heap happens to be a valid lock; the reset
\* gets back the chunk free_subs_list just released). Using such a lock is
\* undefined; the model lets the use go through as if the lock worked.
BadLock(t) == Stale(t) \/ jreg[t] > 0

\* The subscribers of key k in the list t holds. A freed list is read
\* after free (undefined): the model lets it yield no subscriber.
SubscribersIn(t, k) ==
  IF ~Stale(t) /\ k \in DOMAIN subs THEN subs[k] ELSE {}

Snapshot == [tbl |-> table, partial |-> {t \in Threads : Partial(t)}]

\* Ghost: jseen[t] with key k's current value (NoOne if absent) recorded
\* the first time t's batch reaches k.
Seen(t, k) ==
  IF k \in DOMAIN jseen[t] THEN jseen[t]
  ELSE Put(jseen[t], k, IF k \in DOMAIN table THEN table[k] ELSE NoOne)

\* What a READ batch wrote to the .out file: each key with its value or
\* KVSERROR (NoOne).
ReadAnswer(t) == {<<k, jseen[t][k]>> : k \in DOMAIN jseen[t]}

----------------------------------------------------------------------------
Init ==
  /\ table = <<>>
  /\ subs = <<>>
  /\ gReaders = [a \in Actors |-> 0]
  /\ gWriter = NoOne
  /\ bucketWriter = [b \in Buckets |-> NoOne]
  /\ bucketReaders = [b \in Buckets |-> {}]
  /\ subsWriter = NoOne
  /\ subsReaders = {}
  /\ dir \in JobDirs
  /\ dirPos = 1
  /\ jpc = [t \in Threads |-> "take"]
  /\ jfile = [t \in Threads |-> 0]
  /\ jcmd = [t \in Threads |-> 0]
  /\ jbatch = [t \in Threads |-> <<>>]
  /\ ji = [t \in Threads |-> 0]
  /\ jheld = [t \in Threads |-> {}]
  /\ jnote = [t \in Threads |-> <<>>]
  /\ childMutex = NoOne
  /\ activeChild = 0
  /\ children = <<>>
  /\ script \in [Sessions -> ClientScripts]
  /\ spos = [s \in Sessions |-> 1]
  /\ spc = [s \in Sessions |-> "req"]
  /\ resp = [s \in Sessions |-> NoOne]
  /\ clientAlive = [s \in Sessions |-> TRUE]
  /\ notif = [s \in Sessions |-> <<>>]
  /\ ver = [k \in Keys |-> 0]
  /\ snaps = {}
  /\ sigpipe = FALSE
  /\ jseen = [t \in Threads |-> <<>>]
  /\ jout = {}
  /\ curSubs = [s \in Sessions |-> 0]
  /\ nread = [s \in Sessions |-> 0]
  /\ regGen = 0
  /\ jreg = [t \in Threads |-> 0]
  /\ badSubsLock = FALSE

----------------------------------------------------------------------------
(* Job threads: thread_operation (main.c)                                  *)

\* readdir under dir_lock hands the next .job file to the thread.
TakeFile(t) ==
  /\ jpc[t] = "take"
  /\ dirPos <= Len(dir)
  /\ jfile' = [jfile EXCEPT ![t] = dirPos]
  /\ dirPos' = dirPos + 1
  /\ jcmd' = [jcmd EXCEPT ![t] = 1]
  /\ jpc' = [jpc EXCEPT ![t] = "cmd"]
  /\ UNCHANGED <<cliVars, regVars, table, subs, lockVars, dir, jbatch, ji, jheld, jnote,
                 bckVars, sessVars, notif, ver, snaps, jseen, jout, sigpipe>>

\* readdir returns NULL: the thread leaves its loop and ends.
NoMoreFiles(t) ==
  /\ jpc[t] = "take"
  /\ dirPos > Len(dir)
  /\ jpc' = [jpc EXCEPT ![t] = "done"]
  /\ UNCHANGED <<cliVars, regVars, table, subs, lockVars, dir, dirPos, jfile, jcmd, jbatch,
                 ji, jheld, jnote, bckVars, sessVars, notif, ver, snaps, jseen, jout, sigpipe>>

\* EOC: close the .job and .out files and take the next entry.
EndOfFile(t) ==
  /\ jpc[t] = "cmd"
  /\ jcmd[t] > Len(dir[jfile[t]])
  /\ jpc' = [jpc EXCEPT ![t] = "take"]
  /\ UNCHANGED <<cliVars, regVars, table, subs, lockVars, dir, dirPos, jfile, jcmd, jbatch,
                 ji, jheld, jnote, bckVars, sessVars, notif, ver, snaps, jseen, jout, sigpipe>>

\* The batch of the current command, in create_alphabetical_index order.
SortedBatch(t) ==
  LET b == CurCmd(t).batch
      order == CreateAlphabeticalIndex([i \in DOMAIN b |-> b[i][1]])
  IN  [i \in DOMAIN b |-> b[order[i]]]

\* Start of a batch: sort, then (WRITE, DELETE) rdlock global_lock. The
\* thread passes the subs_list pointer of the moment to kvs_write/kvs_delete.
StartBatch(t, op, pc, takeG) ==
  /\ jpc[t] = "cmd"
  /\ jcmd[t] <= Len(dir[jfile[t]])
  /\ CurCmd(t).op = op
  /\ takeG => gWriter = NoOne
  /\ gReaders' = IF takeG THEN [gReaders EXCEPT ![t] = @ + 1] ELSE gReaders
  /\ jbatch' = [jbatch EXCEPT ![t] = SortedBatch(t)]
  /\ ji' = [ji EXCEPT ![t] = 1]
  /\ jheld' = [jheld EXCEPT ![t] = {}]
  /\ jseen' = [jseen EXCEPT ![t] = <<>>]
  /\ jreg' = IF takeG THEN [jreg EXCEPT ![t] = regGen] ELSE jreg
  /\ jpc' = [jpc EXCEPT ![t] = pc]
  /\ UNCHANGED <<cliVars, regGen, badSubsLock, table, subs, gWriter, bucketWriter, bucketReaders, subsWriter, subsReaders,
                 dir, dirPos, jfile, jcmd, jnote, bckVars, sessVars, notif,
                 ver, snaps, jout, sigpipe>>

BeginWrite(t)  == StartBatch(t, "WRITE", "write", TRUE)
BeginRead(t)   == StartBatch(t, "READ", "read", FALSE)
BeginDelete(t) == StartBatch(t, "DELETE", "delete", TRUE)

\* One iteration of kvs_write: wrlock the key's bucket unless this batch
\* holds it, then write_pair. Replacing a value goes on to notify the key's
\* subscribers (holding the bucket); inserting a key notifies nobody.
WriteKey(t) ==
  LET k == jbatch[t][ji[t]][1]
      v == jbatch[t][ji[t]][2]
      b == Hash(k)
  IN  /\ jpc[t] = "write"
      /\ ji[t] <= Len(jbatch[t])
      /\ CanWriteBucket(t, b)
      /\ bucketWriter' = [bucketWriter EXCEPT ![b] = t]
      /\ jheld' = [jheld EXCEPT ![t] = @ \cup {b}]
      /\ jseen' = [jseen EXCEPT ![t] = Seen(t, k)]
      /\ table' = Put(table, k, v)
      /\ ver' = [ver EXCEPT ![k] = @ + 1]
      /\ jnote' = [jnote EXCEPT ![t] = [type |-> 1, key |-> k, value |-> v, ver |-> ver[k] + 1]]
      /\ jpc' = [jpc EXCEPT ![t] = IF k \in DOMAIN table THEN "w_notify" ELSE "write"]
      /\ ji' = [ji EXCEPT ![t] = @ + 1]
      /\ UNCHANGED <<cliVars, regVars, subs, gReaders, gWriter, bucketReaders, subsWriter, subsReaders, dir,
                     dirPos, jfile, jcmd, jbatch, bckVars, sessVars, notif,
                     snaps, jout, sigpipe>>

\* write_pair, replaced value: rdlock subs_lock. A lock already freed by a
\* reset is another object: locking it is a read of freed memory.
WriteNotify(t) ==
  /\ jpc[t] = "w_notify"
  /\ Stale(t) \/ subsWriter = NoOne
  /\ subsReaders' = IF Stale(t) THEN subsReaders ELSE subsReaders \cup {t}
  /\ badSubsLock' = (badSubsLock \/ BadLock(t))
  /\ jpc' = [jpc EXCEPT ![t] = "w_send"]
  /\ UNCHANGED <<cliVars, regGen, jreg, table, subs, gReaders, gWriter, bucketWriter,
                 bucketReaders, subsWriter, dir, dirPos, jfile, jcmd, jbatch, ji, jheld,
                 jnote, bckVars, sessVars, notif, ver, snaps, jseen, jout, sigpipe>>

\* Mutant: write_pair returns without unlocking subs_lock.
WriteSendKeepingLock(t) ==
  /\ jpc[t] = "w_send"
  /\ CanNotify(SubscribersIn(t, jnote[t].key))
  /\ Notify(SubscribersIn(t, jnote[t].key), jnote[t])
  /\ jpc' = [jpc EXCEPT ![t] = "write"]
  /\ UNCHANGED <<cliVars, regVars, table, subs, gReaders, gWriter, bucketWriter,
                 bucketReaders, subsWriter, subsReaders, dir, dirPos, jfile, jcmd, jbatch,
                 ji, jheld, jnote, bckVars, sessVars, ver, snaps, jseen, jout>>

\* The loop over the key's subscribers: a type-1 notification with the
\* written value to each (blocking while a live client's pipe is full, the
\* bucket lock and subs_lock still held); then unlock subs_lock.
WriteSend(t) ==
  /\ jpc[t] = "w_send"
  /\ CanNotify(SubscribersIn(t, jnote[t].key))
  /\ Notify(SubscribersIn(t, jnote[t].key), jnote[t])
  /\ subsReaders' = subsReaders \ {t}
  /\ jpc' = [jpc EXCEPT ![t] = "write"]
  /\ UNCHANGED <<cliVars, regVars, table, subs, gReaders, gWriter, bucketWriter,
                 bucketReaders, subsWriter, dir, dirPos, jfile, jcmd, jbatch, ji, jheld,
                 jnote, bckVars, sessVars, ver, snaps, jseen, jout>>

\* One iteration of kvs_read: rdlock the bucket unless held, read_pair.
\* The value found is kept in jseen; its (k,v) / (k,KVSERROR) text is not.
ReadKey(t) ==
  LET k == jbatch[t][ji[t]][1]
      b == Hash(k)
  IN  /\ jpc[t] = "read"
      /\ ji[t] <= Len(jbatch[t])
      /\ CanReadBucket(t, b)
      /\ bucketReaders' = [bucketReaders EXCEPT ![b] = @ \cup {t}]
      /\ jheld' = [jheld EXCEPT ![t] = @ \cup {b}]
      /\ jseen' = [jseen EXCEPT ![t] = Seen(t, k)]
      /\ ji' = [ji EXCEPT ![t] = @ + 1]
      /\ UNCHANGED <<cliVars, regVars, table, subs, gReaders, gWriter, bucketWriter, subsWriter, subsReaders,
                     dir, dirPos, jfile, jcmd, jbatch, jpc, jnote, bckVars,
                     sessVars, notif, ver, snaps, jout, sigpipe>>

\* Mutant: kvs_read's epilogue also unlocks global_lock, as kvs_write's does.
EndReadUnlockingGlobal(t) ==
  /\ jpc[t] = "read"
  /\ ji[t] > Len(jbatch[t])
  /\ bucketReaders' = [b \in Buckets |->
                         IF b \in jheld[t] THEN bucketReaders[b] \ {t} ELSE bucketReaders[b]]
  /\ gReaders' = [gReaders EXCEPT ![t] = @ - 1]
  /\ jout' = jout \cup {<<<<jfile[t], jcmd[t]>>, ReadAnswer(t)>>}
  /\ jheld' = [jheld EXCEPT ![t] = {}]
  /\ jcmd' = [jcmd EXCEPT ![t] = @ + 1]
  /\ jpc' = [jpc EXCEPT ![t] = "cmd"]
  /\ UNCHANGED <<cliVars, regVars, table, subs, gWriter, bucketWriter, subsWriter, subsReaders, dir, dirPos,
                 jfile, jbatch, ji, jnote, bckVars, sessVars, notif, ver, snaps, jseen,
                 sigpipe>>

\* End of kvs_read: unlock the held buckets (global_lock was never taken).
EndRead(t) ==
  /\ jpc[t] = "read"
  /\ ji[t] > Len(jbatch[t])
  /\ bucketReaders' = [b \in Buckets |->
                         IF b \in jheld[t] THEN bucketReaders[b] \ {t} ELSE bucketReaders[b]]
  /\ jout' = jout \cup {<<<<jfile[t], jcmd[t]>>, ReadAnswer(t)>>}
  /\ jheld' = [jheld EXCEPT ![t] = {}]
  /\ jcmd' = [jcmd EXCEPT ![t] = @ + 1]
  /\ jpc' = [jpc EXCEPT ![t] = "cmd"]
  /\ UNCHANGED <<cliVars, regVars, table, subs, gReaders, gWriter, bucketWriter, subsWriter, subsReaders,
                 dir, dirPos, jfile, jbatch, ji, jnote, bckVars, sessVars,
                 notif, ver, snaps, jseen, sigpipe>>

\* Mutant: delete_pair that never calls remove_all_subscriptions_from_key.
DeleteKeyKeepingSubscriptions(t) ==
  LET k == jbatch[t][ji[t]][1]
      b == Hash(k)
  IN  /\ jpc[t] = "delete"
      /\ ji[t] <= Len(jbatch[t])
      /\ CanWriteBucket(t, b)
      /\ bucketWriter' = [bucketWriter EXCEPT ![b] = t]
      /\ jheld' = [jheld EXCEPT ![t] = @ \cup {b}]
      /\ jseen' = [jseen EXCEPT ![t] = Seen(t, k)]
      /\ table' = Drop(table, k)
      /\ ver' = IF k \in DOMAIN table THEN [ver EXCEPT ![k] = @ + 1] ELSE ver
      /\ ji' = [ji EXCEPT ![t] = @ + 1]
      /\ UNCHANGED <<cliVars, regVars, subs, gReaders, gWriter, bucketReaders, subsWriter, subsReaders, dir,
                     dirPos, jfile, jcmd, jbatch, jpc, jnote, bckVars, sessVars,
                     notif, snaps, jout, sigpipe>>

\* One iteration of kvs_delete: wrlock the bucket unless held, delete_pair.
\* A present key is unlinked and freed, then remove_all_subscriptions_from_key
\* runs; a missing key only yields (k,KVSMISSING) in the .out file.
DeleteKey(t) ==
  LET k == jbatch[t][ji[t]][1]
      b == Hash(k)
  IN  /\ jpc[t] = "delete"
      /\ ji[t] <= Len(jbatch[t])
      /\ CanWriteBucket(t, b)
      /\ bucketWriter' = [bucketWriter EXCEPT ![b] = t]
      /\ jheld' = [jheld EXCEPT ![t] = @ \cup {b}]
      /\ jseen' = [jseen EXCEPT ![t] = Seen(t, k)]
      /\ table' = Drop(table, k)
      /\ ver' = IF k \in DOMAIN table THEN [ver EXCEPT ![k] = @ + 1] ELSE ver
      /\ jnote' = [jnote EXCEPT ![t] = [type |-> 2, key |-> k, value |-> "DELETED", ver |-> ver[k] + 1]]
      /\ jpc' = [jpc EXCEPT ![t] = IF k \in DOMAIN table THEN "d_notify" ELSE "delete"]
      /\ ji' = [ji EXCEPT ![t] = @ + 1]
      /\ UNCHANGED <<cliVars, regVars, subs, gReaders, gWriter, bucketReaders, subsWriter, subsReaders, dir,
                     dirPos, jfile, jcmd, jbatch, bckVars, sessVars, notif,
                     snaps, jout, sigpipe>>

\* remove_all_subscriptions_from_key: wrlock subs_lock (a freed one, if
\* a reset came since the batch started, is a read of freed memory).
DeleteNotify(t) ==
  /\ jpc[t] = "d_notify"
  /\ Stale(t) \/ SubsFree
  /\ subsWriter' = IF Stale(t) THEN subsWriter ELSE t
  /\ badSubsLock' = (badSubsLock \/ BadLock(t))
  /\ jpc' = [jpc EXCEPT ![t] = "d_send"]
  /\ UNCHANGED <<cliVars, regGen, jreg, table, subs, gReaders, gWriter, bucketWriter,
                 bucketReaders, subsReaders, dir, dirPos, jfile, jcmd, jbatch, ji, jheld,
                 jnote, bckVars, sessVars, notif, ver, snaps, jseen, jout, sigpipe>>

\* A DELETED notification to every subscriber of the key (blocking while a
\* live client's pipe is full, subs_lock held for writing), unlink the
\* key's node, unlock.
DeleteSend(t) ==
  LET k == jnote[t].key
  IN  /\ jpc[t] = "d_send"
      /\ CanNotify(SubscribersIn(t, k))
      /\ Notify(SubscribersIn(t, k), jnote[t])
      /\ subs' = IF Stale(t) THEN subs ELSE Drop(subs, k)
      /\ subsWriter' = IF Stale(t) THEN subsWriter ELSE NoOne
      /\ jpc' = [jpc EXCEPT ![t] = "delete"]
      /\ UNCHANGED <<cliVars, regVars, table, gReaders, gWriter, bucketWriter,
                     bucketReaders, subsReaders, dir, dirPos, jfile, jcmd, jbatch, ji,
                     jheld, jnote, bckVars, sessVars, ver, snaps, jseen, jout>>

\* Mutant: the epilogue unlocks global_lock but forgets the bucket locks.
EndBatchKeepingBuckets(t) ==
  /\ jpc[t] \in {"write", "delete"}
  /\ ji[t] > Len(jbatch[t])
  /\ gReaders' = [gReaders EXCEPT ![t] = @ - 1]
  /\ jheld' = [jheld EXCEPT ![t] = {}]
  /\ jcmd' = [jcmd EXCEPT ![t] = @ + 1]
  /\ jpc' = [jpc EXCEPT ![t] = "cmd"]
  /\ UNCHANGED <<cliVars, regVars, table, subs, gWriter, bucketWriter, bucketReaders, subsWriter, subsReaders,
                 dir, dirPos, jfile, jbatch, ji, jnote, bckVars, sessVars,
                 notif, ver, snaps, jseen, jout, sigpipe>>

\* End of kvs_write / kvs_delete: unlock the held buckets and global_lock.
EndBatch(t) ==
  /\ jpc[t] \in {"write", "delete"}
  /\ ji[t] > Len(jbatch[t])
  /\ bucketWriter' = [b \in Buckets |-> IF b \in jheld[t] THEN NoOne ELSE bucketWriter[b]]
  /\ gReaders' = [gReaders EXCEPT ![t] = @ - 1]
  /\ jheld' = [jheld EXCEPT ![t] = {}]
  /\ jcmd' = [jcmd EXCEPT ![t] = @ + 1]
  /\ jpc' = [jpc EXCEPT ![t] = "cmd"]
  /\ UNCHANGED <<cliVars, regVars, table, subs, gWriter, bucketReaders, subsWriter, subsReaders, dir,
                 dirPos, jfile, jbatch, ji, jnote, bckVars, sessVars, notif,
                 ver, snaps, jseen, jout, sigpipe>>

\* kvs_show: lock_table (wrlock global_lock), printTable, unlock_table.
Show(t) ==
  /\ jpc[t] = "cmd"
  /\ jcmd[t] <= Len(dir[jfile[t]])
  /\ CurCmd(t).op = "SHOW"
  /\ GFree
  /\ snaps' = snaps \cup {Snapshot}
  /\ jcmd' = [jcmd EXCEPT ![t] = @ + 1]
  /\ UNCHANGED <<cliVars, regVars, table, subs, lockVars, dir, dirPos, jpc, jfile, jbatch, ji,
                 jheld, jnote, bckVars, sessVars, notif, ver, sigpipe, jseen,
                 jout>>

\* CMD_BACKUP: lock_table (wrlock global_lock).
BackupLockTable(t) ==
  /\ jpc[t] = "cmd"
  /\ jcmd[t] <= Len(dir[jfile[t]])
  /\ CurCmd(t).op = "BACKUP"
  /\ GFree
  /\ gWriter' = t
  /\ jpc' = [jpc EXCEPT ![t] = "b_mutex"]
  /\ UNCHANGED <<cliVars, regVars, table, subs, gReaders, bucketWriter, bucketReaders,
                 subsWriter, subsReaders, dir, dirPos, jfile, jcmd, jbatch, ji, jheld,
                 jnote, bckVars, sessVars, notif, ver, snaps, jseen, jout, sigpipe>>

\* Lock active_child_mutex; wait for a child if active_child == MAX_PROC.
BackupLockMutex(t) ==
  /\ jpc[t] = "b_mutex"
  /\ childMutex = NoOne
  /\ childMutex' = t
  /\ jpc' = [jpc EXCEPT ![t] = IF activeChild = MAX_PROC THEN "b_wait" ELSE "b_fork"]
  /\ UNCHANGED <<cliVars, regVars, table, subs, lockVars, dir, dirPos, jfile, jcmd, jbatch, ji,
                 jheld, jnote, activeChild, children, sessVars, notif, ver,
                 snaps, jseen, jout, sigpipe>>

\* wait(NULL) blocks until some child of the process has exited and reaps
\* it; active_child is decremented. (wait fails only with no child left,
\* which active_child == MAX_PROC >= 1 rules out.)
BackupReap(t) ==
  /\ jpc[t] = "b_wait"
  /\ \E i \in DOMAIN children :
       /\ children[i] = "exited"
       /\ children' = [children EXCEPT ![i] = "reaped"]
  /\ activeChild' = activeChild - 1
  /\ jpc' = [jpc EXCEPT ![t] = "b_fork"]
  /\ UNCHANGED <<cliVars, regVars, table, subs, lockVars, dir, dirPos, jfile, jcmd, jbatch, ji,
                 jheld, jnote, childMutex, sessVars, notif, ver, snaps, jseen, jout, sigpipe>>

\* fork(): the child starts with the table as it is now; then unlock_table.
BackupFork(t) ==
  /\ jpc[t] = "b_fork"
  /\ children' = Append(children, "running")
  /\ snaps' = snaps \cup {Snapshot}
  /\ gWriter' = NoOne
  /\ jpc' = [jpc EXCEPT ![t] = "b_unlock"]
  /\ UNCHANGED <<cliVars, regVars, table, subs, gReaders, bucketWriter, bucketReaders,
                 subsWriter, subsReaders, dir, dirPos, jfile, jcmd, jbatch, ji, jheld,
                 jnote, childMutex, activeChild, sessVars, notif, ver, sigpipe,
                 jseen, jout>>

\* Parent: safe_mutex_unlock(&active_child_mutex) ...
BackupUnlock(t) ==
  /\ jpc[t] = "b_unlock"
  /\ childMutex' = NoOne
  /\ jpc' = [jpc EXCEPT ![t] = "b_inc"]
  /\ UNCHANGED <<cliVars, regVars, table, subs, lockVars, dir, dirPos, jfile, jcmd, jbatch, ji,
                 jheld, jnote, activeChild, children, sessVars, notif, ver,
                 snaps, jseen, jout, sigpipe>>

\* ... then active_child++ (and backups++), outside the mutex.
BackupCount(t) ==
  /\ jpc[t] = "b_inc"
  /\ activeChild' = activeChild + 1
  /\ jcmd' = [jcmd EXCEPT ![t] = @ + 1]
  /\ jpc' = [jpc EXCEPT ![t] = "cmd"]
  /\ UNCHANGED <<cliVars, regVars, table, subs, lockVars, dir, dirPos, jfile, jbatch, ji, jheld,
                 jnote, childMutex, children, sessVars, notif, ver, snaps, jseen, jout, sigpipe>>

\* A backup child writes its .bck file from its copy of the table and exits.
ChildExit(i) ==
  /\ children[i] = "running"
  /\ children' = [children EXCEPT ![i] = "exited"]
  /\ UNCHANGED <<cliVars, regVars, table, subs, lockVars, dir, dirPos, jobVars, childMutex,
                 activeChild, sessVars, notif, ver, snaps, jseen, jout, sigpipe>>

----------------------------------------------------------------------------
(* Session workers: the request loop of ClientHandlerFunction (main.c)     *)

CurReq(s) == script[s][spos[s]]

\* kvs_subscribe, after reading the answer: a nonzero answer is counted as
\* a subscription (current_subs++ under subs_rwlock).
SubscribeCount(r) == IF r # 0 THEN 1 ELSE 0

\* Mutant: kvs_unsubscribe uncounting a subscription whatever the answer.
UnsubscribeCountAlways(r) == -1

\* kvs_unsubscribe, after reading the answer: only a 0 answer uncounts one.
UnsubscribeCount(r) == IF r = 0 THEN -1 ELSE 0

\* Response r written for the current request; the client, blocked on its
\* response pipe, reads it and updates current_subs; the worker reads the
\* next request.
Answer(s, r) ==
  LET op == CurReq(s).op
  IN  /\ resp' = [resp EXCEPT ![s] = r]
      /\ spos' = [spos EXCEPT ![s] = @ + 1]
      /\ curSubs' = [curSubs EXCEPT ![s] =
                       @ + CASE op = "SUB"   -> SubscribeCount(r)
                             [] op = "UNSUB" -> UnsubscribeCount(r)
                             [] OTHER        -> 0]

\* kvs_subscribe: at MAX_NUMBER_SUB counted subscriptions the client sends
\* nothing and fails the command; it goes on with its next command.
SubscribeRefused(s) ==
  /\ spc[s] = "req"
  /\ CurReq(s).op = "SUB"
  /\ curSubs[s] >= MAX_NUMBER_SUB
  /\ spos' = [spos EXCEPT ![s] = @ + 1]
  /\ UNCHANGED <<cliVars, regVars, table, subs, lockVars, dir, dirPos, jobVars,
                 bckVars, script, spc, resp, clientAlive, notif, ver, snaps,
                 jseen, jout, sigpipe>>

\* SUBSCRIBE, add_subscription: wrlock subs_lock; the key has a node, so
\* the client is added unless already there (1), or it is a duplicate (2).
SubscribeNode(s) ==
  LET k == CurReq(s).key
  IN  /\ spc[s] = "req"
      /\ CurReq(s).op = "SUB"
      /\ curSubs[s] < MAX_NUMBER_SUB
      /\ SubsFree
      /\ k \in DOMAIN subs
      /\ subs' = [subs EXCEPT ![k] = @ \cup {s}]
      /\ Answer(s, IF s \in subs[k] THEN 2 ELSE 1)
      /\ UNCHANGED <<nread, regVars, table, lockVars, dir, dirPos, jobVars, bckVars, spc,
                     script, clientAlive, notif, ver, snaps, jseen, jout, sigpipe>>

\* add_subscription, no node for the key: keep subs_lock and call key_exists.
SubscribeLookup(s) ==
  /\ spc[s] = "req"
  /\ CurReq(s).op = "SUB"
  /\ curSubs[s] < MAX_NUMBER_SUB
  /\ SubsFree
  /\ CurReq(s).key \notin DOMAIN subs
  /\ subsWriter' = s
  /\ spc' = [spc EXCEPT ![s] = "exists"]
  /\ UNCHANGED <<cliVars, regVars, table, subs, gReaders, gWriter, bucketWriter, bucketReaders, subsReaders,
                 dir, dirPos, jobVars, bckVars, script, spos, resp,
                 clientAlive, notif, ver, snaps, jseen, jout, sigpipe>>

\* key_exists: rdlock global_lock and scan the bucket without its lock;
\* both returns come before the unlock, so the read hold is never released.
\* A present key gets a new node holding the client (1), else 0; unlock
\* subs_lock.
SubscribeKeyExists(s) ==
  LET k == CurReq(s).key
  IN  /\ spc[s] = "exists"
      /\ gWriter = NoOne
      /\ gReaders' = [gReaders EXCEPT ![s] = @ + 1]
      /\ subs' = IF k \in DOMAIN table THEN NewSubscription(subs, k, s) ELSE subs
      /\ Answer(s, IF k \in DOMAIN table THEN 1 ELSE 0)
      /\ subsWriter' = NoOne
      /\ spc' = [spc EXCEPT ![s] = "req"]
      /\ UNCHANGED <<nread, regVars, table, gWriter, bucketWriter, bucketReaders, subsReaders, dir, dirPos,
                     jobVars, bckVars, script, clientAlive, notif, ver, snaps, jseen, jout,
                     sigpipe>>

\* Mutant: the -1 of unsubscribe_from_key is sent as the response as is.
UnsubscribeRawResult(s) ==
  LET k == CurReq(s).key
  IN  /\ spc[s] = "req"
      /\ CurReq(s).op = "UNSUB"
      /\ SubsFree
      /\ subs' = IF k \in DOMAIN subs THEN RemoveSubscriber(subs, k, s) ELSE subs
      /\ Answer(s, IF k \notin DOMAIN subs THEN -1
                   ELSE IF s \in subs[k] THEN 0 ELSE 1)
      /\ UNCHANGED <<nread, regVars, table, lockVars, dir, dirPos, jobVars, bckVars, spc,
                     script, clientAlive, notif, ver, snaps, jseen, jout, sigpipe>>

\* UNSUBSCRIBE, unsubscribe_from_key: 0 removed, 1 not subscribed, -1 (sent
\* as 2) no node for the key.
Unsubscribe(s) ==
  LET k == CurReq(s).key
  IN  /\ spc[s] = "req"
      /\ CurReq(s).op = "UNSUB"
      /\ SubsFree
      /\ subs' = IF k \in DOMAIN subs THEN RemoveSubscriber(subs, k, s) ELSE subs
      /\ Answer(s, IF k \notin DOMAIN subs THEN 2
                   ELSE IF s \in subs[k] THEN 0 ELSE 1)
      /\ UNCHANGED <<nread, regVars, table, lockVars, dir, dirPos, jobVars, bckVars, spc,
                     script, clientAlive, notif, ver, snaps, jseen, jout, sigpipe>>

\* DISCONNECT: remove_all_subscriptions_from_client, close the pipes,
\* answer 0, leave the request loop; the client then exits.
Disconnect(s) ==
  /\ spc[s] = "req"
  /\ CurReq(s).op = "DISC"
  /\ SubsFree
  /\ subs' = RemoveClient(subs, s)
  /\ Answer(s, 0)
  /\ spc' = [spc EXCEPT ![s] = "done"]
  /\ clientAlive' = [clientAlive EXCEPT ![s] = FALSE]
  /\ UNCHANGED <<nread, regVars, table, lockVars, dir, dirPos, jobVars, bckVars, script,
                 notif, ver, snaps, jseen, jout, sigpipe>>

\* The client exits without DISCONNECT: read_all of the op code returns 0
\* and the worker leaves the loop with no clean-up at all: its
\* subscriptions stay and its notification pipe stays open for writing.
ClientEOF(s) ==
  /\ spc[s] = "req"
  /\ CurReq(s).op = "EOF"
  /\ clientAlive' = [clientAlive EXCEPT ![s] = FALSE]
  /\ spc' = [spc EXCEPT ![s] = "done"]
  /\ UNCHANGED <<cliVars, regVars, table, subs, lockVars, dir, dirPos, jobVars, bckVars,
                 script, spos, resp, notif, ver, snaps, jseen, jout, sigpipe>>

\* The client's notifications thread reads the next notification from its
\* pipe; a DELETED one (code 2) uncounts a subscription under subs_rwlock.
ClientNotification(s) ==
  /\ clientAlive[s]
  /\ nread[s] < Len(notif[s])
  /\ nread' = [nread EXCEPT ![s] = @ + 1]
  /\ curSubs' = [curSubs EXCEPT ![s] = @ - (IF notif[s][nread[s] + 1].type = 2 THEN 1 ELSE 0)]
  /\ UNCHANGED <<regVars, table, subs, lockVars, dir, dirPos, jobVars, bckVars,
                 sessVars, notif, ver, snaps, jseen, jout, sigpipe>>

----------------------------------------------------------------------------
(* Host thread: the SIGUSR1 reset (HostThreadFunction, main.c)            *)

\* With sigusr1_mutex and active_clients_lock held: free_subs_list wrlocks
\* subs_lock, frees every node, destroys the lock and frees the list;
\* disconnect_all_clients closes every listed client's descriptors, so each
\* client's notifications thread reads EOF and exits the process, and each
\* worker's next read_all fails and it leaves its loop; a new, empty
\* subs_list replaces the freed one. Job threads keep the pointer they were
\* given. SIGUSR1 comes from outside: at most MaxResets of them.
\* Mutant: a reset that never calls free_subs_list, keeping the old registry.
HostResetKeepingSubscriptions ==
  /\ regGen < MaxResets
  /\ SubsFree
  /\ clientAlive' = [s \in Sessions |-> FALSE]
  /\ spc' = [s \in Sessions |-> "done"]
  /\ UNCHANGED <<cliVars, regVars, subs, table, lockVars, dir, dirPos, jobVars,
                 bckVars, script, spos, resp, notif, ver, snaps, jseen, jout,
                 sigpipe>>

\* free_subs_list: wrlock subs_lock (after a first reset, a lock nobody
\* initialised), free every node, destroy the lock, free the list; then
\* create_subscription_list gives an empty list, counted in regGen.
FreeAndRecreateSubsList ==
  /\ subs' = <<>>
  /\ regGen' = regGen + 1
  /\ badSubsLock' = (badSubsLock \/ regGen > 0)

HostReset ==
  /\ regGen < MaxResets
  /\ SubsFree
  /\ FreeAndRecreateSubsList
  /\ clientAlive' = [s \in Sessions |-> FALSE]
  /\ spc' = [s \in Sessions |-> "done"]
  /\ UNCHANGED <<cliVars, jreg, table, lockVars, dir, dirPos, jobVars,
                 bckVars, script, spos, resp, notif, ver, snaps, jseen, jout,
                 sigpipe>>

----------------------------------------------------------------------------
JobStep(t) ==
  \/ TakeFile(t) \/ NoMoreFiles(t) \/ EndOfFile(t)
  \/ BeginWrite(t) \/ WriteKey(t) \/ WriteNotify(t) \/ WriteSend(t)
  \/ BeginRead(t) \/ ReadKey(t) \/ EndRead(t)
  \/ BeginDelete(t) \/ DeleteKey(t) \/ DeleteNotify(t) \/ DeleteSend(t)
  \/ EndBatch(t)
  \/ Show(t)
  \/ BackupLockTable(t) \/ BackupLockMutex(t) \/ BackupReap(t)
  \/ BackupFork(t) \/ BackupUnlock(t) \/ BackupCount(t)

SessionStep(s) ==
  \/ SubscribeRefused(s)
  \/ SubscribeNode(s) \/ SubscribeLookup(s) \/ SubscribeKeyExists(s)
  \/ Unsubscribe(s) \/ Disconnect(s) \/ ClientEOF(s)

\* Every thread and client has finished and no backup child is running.
Terminated ==
  /\ \A t \in Threads : jpc[t] = "done"
  /\ \A s \in Sessions : spc[s] = "done"
  /\ \A i \in DOMAIN children : children[i] # "running"
  /\ UNCHANGED vars

Next ==
  \/ \E t \in Threads : JobStep(t)
  \/ \E s \in Sessions : SessionStep(s) \/ ClientNotification(s)
  \/ \E i \in DOMAIN children : ChildExit(i)
  \/ HostReset
  \/ Terminated

\* Threads and child processes are scheduled by the OS: each one that can
\* keep running eventually runs.
Fairness ==
  /\ \A t \in Threads : WF_vars(JobStep(t))
  /\ \A s \in Sessions : WF_vars(SessionStep(s)) /\ WF_vars(ClientNotification(s))
  /\ WF_vars(\E i \in DOMAIN children : ChildExit(i))

Spec == Init /\ [][Next]_vars /\ Fairness

----------------------------------------------------------------------------
(* Properties                                                              *)

Notification == [type : {1, 2}, key : Keys, value : Values \cup {"DELETED"}, ver : Nat]

TypeOK ==
  /\ DOMAIN table \subseteq Keys /\ \A k \in DOMAIN table : table[k] \in Values
  /\ DOMAIN subs \subseteq Keys /\ \A k \in DOMAIN subs : subs[k] \subseteq Sessions
  /\ gReaders \in [Actors -> Nat]
  /\ gWriter \in Threads \cup {NoOne}
  /\ bucketWriter \in [Buckets -> Threads \cup {NoOne}]
  /\ bucketReaders \in [Buckets -> SUBSET Threads]
  /\ subsWriter \in Actors \cup {NoOne} /\ subsReaders \subseteq Threads
  /\ dirPos \in 1..Len(dir) + 1
  /\ jpc \in [Threads -> {"take", "cmd", "write", "w_notify", "w_send", "read",
                          "delete", "d_notify", "d_send", "b_mutex", "b_wait", "b_fork", "b_unlock",
                          "b_inc", "done"}]
  /\ \A t \in Threads : jheld[t] \subseteq Buckets
  /\ childMutex \in Threads \cup {NoOne}
  /\ activeChild \in 0..MAX_PROC + Cardinality(Threads)
  /\ \A i \in DOMAIN children : children[i] \in {"running", "exited", "reaped"}
  /\ spc \in [Sessions -> {"req", "exists", "done"}]
  /\ resp \in [Sessions -> {NoOne, 0, 1, 2}]
  /\ curSubs \in [Sessions -> Int]
  /\ \A s \in Sessions : nread[s] \in 0..Len(notif[s])
  /\ regGen \in 0..MaxResets /\ jreg \in [Threads -> 0..regGen]
  /\ \A s \in Sessions : \A i \in DOMAIN notif[s] : notif[s][i] \in Notification

\* Spec 3 inv. 3, 4: a key has a Subscription node only while its entry is in
\* the table, or while the delete that removed the entry has yet to run
\* remove_all_subscriptions_from_key. Subscribe (session worker, under
\* subs_lock, reading the table in key_exists) races with delete_pair (job
\* thread, bucket lock, then subs_lock).
SubscriptionImpliesEntry ==
  \A k \in DOMAIN subs :
    \/ k \in DOMAIN table
    \/ \E t \in Threads : jpc[t] \in {"d_notify", "d_send"} /\ jnote[t].key = k

\* Spec 3 inv. 5 and 8.2: every client receives the notifications of one key
\* in commit order, each at most once (write_pair / delete_pair notify while
\* the batch still holds the key's bucket).
NotificationsInCommitOrder ==
  \A s \in Sessions : \A i, j \in DOMAIN notif[s] :
    (i < j /\ notif[s][i].key = notif[s][j].key) => notif[s][i].ver < notif[s][j].ver

\* Spec 8.3 and scenario 5: SHOW and a backup child see no WRITE or DELETE
\* batch half applied (lock_table excludes the batches' read holds).
SnapshotsAreBatchAtomic == \A x \in snaps : x.partial = {}

\* Spec 3 (SubscriberHandle) and 7: a notification is never written to the
\* pipe of a client that has gone; such a write raises SIGPIPE, which the
\* server does not ignore, and kills the server.
NoNotificationToClosedPipe == ~sigpipe

\* Spec 3 and scenario 6: the SIGUSR1 reset replaces the registry while job
\* threads run. Every lock of subs_lock, in write_pair,
\* remove_all_subscriptions_from_key or the next reset's free_subs_list,
\* must be on a live, initialised rwlock: neither the destroyed lock of the
\* list a batch was handed before the reset (main.c 139, 165, 456), nor the
\* uninitialised lock of the list the reset creates (main.c 458).
SubsLockValid == ~badSubsLock

\* Subscriptions the registry holds for client s.
ServerSubs(s) == Cardinality({k \in DOMAIN subs : s \in subs[k]})

\* DELETED notifications in s's pipe that its notifications thread has not
\* read yet: subscriptions the server dropped and the client still counts.
UnreadDeletes(s) == Cardinality({i \in nread[s] + 1..Len(notif[s]) : notif[s][i].type = 2})

\* The client's current_subs, which kvs_subscribe checks against
\* MAX_NUMBER_SUB, counts exactly the subscriptions the server holds for it,
\* once the DELETED notifications in flight are read: answers to SUBSCRIBE
\* and UNSUBSCRIBE and the notifications thread must all agree with the
\* registry.
SubsCountTracksServer ==
  \A s \in Sessions : clientAlive[s] => curSubs[s] = ServerSubs(s) + UnreadDeletes(s)

\* Spec 11 (MAX_NUMBER_SUB, the client-side subscription cap): kvs_subscribe
\* refuses to send a SUBSCRIBE at MAX_NUMBER_SUB counted subscriptions, so
\* the registry never holds more than that many subscriptions of one client,
\* however its UNSUBSCRIBE answers and DELETED notifications interleave.
ClientCapRespected == \A s \in Sessions : ServerSubs(s) <= MAX_NUMBER_SUB

\* Every job thread eventually runs out of .job files and ends (main joins
\* them): no batch, SHOW or BACKUP blocks forever.
JobsComplete == <>(\A t \in Threads : jpc[t] = "done")

\* Every client gets an answer to each request and ends its script, though
\* write_pair and remove_all_subscriptions_from_key hold subs_lock while
\* write_notification blocks on a full notification pipe (operations.c
\* 178): the worker's SUBSCRIBE, UNSUBSCRIBE or DISCONNECT waits on that
\* lock only until the client's own notifications thread drains its pipe.
ClientsFinish == <>(\A s \in Sessions : spc[s] = "done")

----------------------------------------------------------------------------
(* Refinement of AtomicStore                                               *)

\* A WRITE or DELETE batch of t holds its locks: kvs_write/kvs_delete has
\* taken global_lock and not yet run its unlock epilogue.
InFlight(t) == jpc[t] \in {"write", "w_notify", "w_send", "delete", "d_notify", "d_send"}

\* The store as the abstract specification sees it: the table with every
\* key an in-flight batch has touched rolled back to the value it found.
\* Batches are linearized at EndBatch, READs at EndRead.
AbsStore ==
  [k \in Keys |->
     LET ws == {t \in Threads : InFlight(t) /\ k \in DOMAIN jseen[t]}
     IN  IF ws # {} THEN jseen[CHOOSE t \in ws : TRUE][k]
         ELSE IF k \in DOMAIN table THEN table[k] ELSE NoOne]

\* <<file, command>> pairs that have taken effect: the file was handed out by
\* readdir, and the thread running it (if any) has moved past the command.
Finished ==
  {fi \in UNION {{f} \X DOMAIN dir[f] : f \in 1..dirPos - 1} :
     ~\E t \in Threads : /\ jfile[t] = fi[1] /\ jpc[t] \notin {"take", "done"}
                            /\ jcmd[t] <= fi[2]}

AS == INSTANCE AtomicStore WITH store <- AbsStore, jobs <- dir, done <- Finished,
                                out <- jout, Missing <- NoOne

\* Spec 4.1-4.3 and 8.3: every WRITE, DELETE and READ command takes effect
\* atomically, in file order. kvs_write/kvs_delete lock buckets one key at a
\* time and release them at the end (strict two-phase locking); kvs_read
\* takes no global_lock and relies on the bucket locks alone.
AtomicBatches == AS!Spec
=============================================================================
