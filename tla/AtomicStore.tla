---------------------------- MODULE AtomicStore ----------------------------
(***************************************************************************)
(* What the job side of the store promises (spec.md 4.1-4.3, 8.3): every  *)
(* command of a .job file takes effect in one indivisible step, the        *)
(* commands of one file in file order, the files in any interleaving.      *)
(*  - WRITE sets each named key to the last value the batch gives it;      *)
(*  - DELETE removes each named key;                                       *)
(*  - READ answers, for each named key, its value or Missing;              *)
(*  - any other command leaves the store alone.                            *)
(* jobs is the jobs directory, fixed for a behaviour; done holds the       *)
(* <<file, command>> pairs that have taken effect; out the READ answers.   *)
(***************************************************************************)
EXTENDS Naturals, Sequences

CONSTANTS Keys,     \* keys
          Values,   \* values
          Missing,  \* the answer for an absent key
          JobDirs   \* possible jobs directories: sequences of command lists

VARIABLES store, jobs, done, out

vars == <<store, jobs, done, out>>

\* The keys a command names.
KeysOf(c) == {c.batch[j][1] : j \in DOMAIN c.batch}

\* The value of the last pair of batch c that names key k.
LastValue(c, k) ==
  LET js == {j \in DOMAIN c.batch : c.batch[j][1] = k}
  IN  c.batch[CHOOSE j \in js : \A i \in js : i <= j][2]

Init ==
  /\ store = [k \in Keys |-> Missing]
  /\ jobs \in JobDirs
  /\ done = {}
  /\ out = {}

\* Command i of file f is next in its file.
Ready(f, i) ==
  /\ <<f, i>> \notin done
  /\ i = 1 \/ <<f, i - 1>> \in done

Write(f, i) ==
  LET c == jobs[f][i]
  IN  /\ Ready(f, i) /\ c.op = "WRITE"
      /\ store' = [k \in Keys |-> IF k \in KeysOf(c) THEN LastValue(c, k) ELSE store[k]]
      /\ done' = done \cup {<<f, i>>}
      /\ UNCHANGED <<jobs, out>>

Delete(f, i) ==
  LET c == jobs[f][i]
  IN  /\ Ready(f, i) /\ c.op = "DELETE"
      /\ store' = [k \in Keys |-> IF k \in KeysOf(c) THEN Missing ELSE store[k]]
      /\ done' = done \cup {<<f, i>>}
      /\ UNCHANGED <<jobs, out>>

Read(f, i) ==
  LET c == jobs[f][i]
  IN  /\ Ready(f, i) /\ c.op = "READ"
      /\ out' = out \cup {<<<<f, i>>, {<<k, store[k]>> : k \in KeysOf(c)}>>}
      /\ done' = done \cup {<<f, i>>}
      /\ UNCHANGED <<jobs, store>>

Other(f, i) ==
  /\ Ready(f, i) /\ jobs[f][i].op \notin {"WRITE", "DELETE", "READ"}
  /\ done' = done \cup {<<f, i>>}
  /\ UNCHANGED <<jobs, store, out>>

Next ==
  \E f \in DOMAIN jobs : \E i \in DOMAIN jobs[f] :
    Write(f, i) \/ Delete(f, i) \/ Read(f, i) \/ Other(f, i)

Spec == Init /\ [][Next]_vars
=============================================================================
