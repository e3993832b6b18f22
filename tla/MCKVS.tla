------------------------------- MODULE MCKVS --------------------------------
(***************************************************************************)
(* Instances of KVS for TLC: keys, values, .job files and client scripts.  *)
(***************************************************************************)
EXTENDS KVS

\* Keys as byte strings: "a" and "b" hash to buckets 0 and 1; "1" is a
\* digit key and folds onto bucket 1 as well.
KA == <<97>>
KB == <<98>>
K1 == <<49>>

CONSTANTS v1, v2

TwoKeys   == {KA, KB}
DigitKeys == {KA, KB, K1}
TwoValues == {v1, v2}

(***************************************************************************)
(* create_alphabetical_index over every batch of one to three keys drawn   *)
(* from "a", "A", "b", "B", "ab", "1", "2" (the case-folding cases of     *)
(* strcasecmp and hash, and digit keys, which hash folds onto buckets 0-9  *)
(* but strcasecmp sorts before every letter), and over the key list of every command of the job directory the  *)
(* behaviour runs. Checked in run kvs.                                     *)
(***************************************************************************)
SortKeys    == {<<97>>, <<65>>, <<98>>, <<66>>, <<97, 98>>, <<49>>, <<50>>}
SortBatches == UNION {[1..n -> SortKeys] : n \in 1..3}

\* The key lists of the commands of the job files in dir.
KeyList(c) == [i \in DOMAIN c.batch |-> c.batch[i][1]]
DirBatches == UNION {{KeyList(dir[f][j]) : j \in 1..Len(dir[f])} : f \in DOMAIN dir}

\* A key whose first byte is a digit.
DigitKey(k) == k[1] \in 48..57

\* create_alphabetical_index visits every key of batch b once, in
\* strcasecmp order.
OrderedPermutation(b) ==
  LET o == CreateAlphabeticalIndex(b) IN IsPermutationOf(o, b) /\ IsCaseOrdered(o, b)

\* In that order the buckets of b never descend, except at the one step
\* from the last digit key to the first letter key.
AscendingBuckets(b) ==
  LET o == CreateAlphabeticalIndex(b)
  IN  \A i \in 1..Len(o) - 1 :
        \/ Hash(b[o[i]]) <= Hash(b[o[i + 1]])
        \/ DigitKey(b[o[i]]) /\ ~DigitKey(b[o[i + 1]])

\* Constant parts: TLC evaluates them once, not in every state.
SmallBatchesOrdered    == \A b \in SortBatches : OrderedPermutation(b)
SmallBatchesAscending  == \A b \in SortBatches : AscendingBuckets(b)

\* The executor visits every key of a batch exactly once, in strcasecmp
\* order (create_alphabetical_index, spec 4.2 step 1).
SortIsOrderedPermutation ==
  SmallBatchesOrdered /\ \A b \in DirBatches : OrderedPermutation(b)

\* kvs_write, kvs_read and kvs_delete lock buckets in sorted key order, and
\* spec 4.1 needs that order to be ascending bucket order for concurrent
\* batches to be deadlock free. The case folding of strcasecmp and hash
\* agree, so the order ascends among the letter keys and among the digit
\* keys. The one place it descends is from the digit keys, which sort
\* first, to the letter keys, whose buckets 0-9 they share: the deadlock of
\* run kvs_digit_deadlock. Batches of letter keys alone are safe.
SortedBucketsAscend ==
  SmallBatchesAscending /\ \A b \in DirBatches : AscendingBuckets(b)

----------------------------------------------------------------------------
\* Run kvs, first scenario: two job files writing and deleting "a" and "b".
\* Run kvs_client_count: the same files and a client that subscribes (to
\* "b" twice), unsubscribes and disconnects.
NotifyDirs ==
  { << << WriteCmd(<< <<KA, v1>>, <<KB, v1>> >>), DeleteCmd(<<KA>>) >>,
       << WriteCmd(<< <<KA, v2>>, <<KB, v2>> >>), WriteCmd(<< <<KB, v1>> >>) >> >> }
NotifyClients == { << SubReq(KA), SubReq(KB), SubReq(KB), UnsubReq(KB), DiscReq >> }

\* Run kvs, first scenario's client (MAX_NUMBER_SUB = 1): it subscribes to
\* "b", unsubscribes from "a" it never subscribed to, tries "a" (refused
\* at the cap), unsubscribes from "b" and subscribes to it again (the node
\* is still there), and disconnects.
CappedClient == { << SubReq(KB), UnsubReq(KA), SubReq(KA), UnsubReq(KB), SubReq(KB), DiscReq >> }

\* Run kvs, second scenario: batches racing SHOW and BACKUP, and a client that
\* unsubscribes from a key it never subscribed to and exits without
\* DISCONNECT. (A SUBSCRIBE would leave a read hold on global_lock and
\* block SHOW and BACKUP: run kvs_show_after_subscribe.)
SnapshotDirs ==
  { << << WriteCmd(<< <<KA, v1>>, <<KB, v1>> >>), BackupCmd, BackupCmd >>,
       << DeleteCmd(<<KB, KA>>), ShowCmd, ReadCmd(<<KB, KA>>) >> >> }
NoClients == { <<>> }
LeavingClient == { << UnsubReq(KA), EofReq >> }

\* Run kvs_digit_deadlock: a batch with a digit key and one with letters.
DigitDirs ==
  { << << WriteCmd(<< <<K1, v1>>, <<KA, v1>> >>) >>,
       << WriteCmd(<< <<KA, v2>>, <<KB, v2>> >>), WriteCmd(<< <<KB, v1>> >>) >> >> }

\* Run kvs_show_after_subscribe: a client subscribes, a job shows the table.
ShowDirs == { << << WriteCmd(<< <<KA, v1>> >>), ShowCmd >> >> }
OneSubscriber == { << SubReq(KA), DiscReq >> }

\* Run kvs_client_gone: a subscriber exits without DISCONNECT.
GoneDirs == { << << WriteCmd(<< <<KA, v1>> >>), WriteCmd(<< <<KA, v2>> >>) >> >> }
GoneClient == { << SubReq(KA), EofReq >> }

\* Run kvs: both scenarios, each job directory with its own client script.
Scenarios == ({<<d, c>> : d \in NotifyDirs, c \in CappedClient}
              \cup {<<d, c>> : d \in SnapshotDirs, c \in LeavingClient})
ScenarioDirs    == {x[1] : x \in Scenarios}
ScenarioClients == {x[2] : x \in Scenarios}

\* Spec restricted to the initial states of the scenarios.
MCInit == Init /\ \A s \in Sessions : <<dir, script[s]>> \in Scenarios
MCSpec == MCInit /\ [][Next]_vars /\ Fairness
=============================================================================
