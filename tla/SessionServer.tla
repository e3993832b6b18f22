--------------------------- MODULE SessionServer ---------------------------
(***************************************************************************)
(* Connection intake and the SIGUSR1 reset of the server (src/server/      *)
(* main.c, kvs.c): the host thread (HostThreadFunction) reads CONNECT      *)
(* frames from the registration FIFO and produces them into the ring       *)
(* clients[] guarded by the semaphores empty/full; S session workers       *)
(* (ClientHandlerFunction) consume them, open the client's three pipes,    *)
(* link an entry into active_clients_list and serve requests. SIGUSR1 sets *)
(* received_sigusr1; the host thread then frees the registry and closes    *)
(* every listed client's descriptors (disconnect_all_clients).             *)
(* Server descriptors are numbers: open() returns the lowest free one, so  *)
(* a closed number is reused by the next open. fdFile maps each number to  *)
(* the pipe it refers to. Registry contents (keys) are abstracted to the   *)
(* set of notification descriptors subscribed.                             *)
(***************************************************************************)
EXTENDS Integers, Sequences, FiniteSets

CONSTANTS Clients,       \* client processes (model values)
          Workers,       \* session worker threads
          S,             \* MAX_SESSION_COUNT: ring size
          FdNums,        \* descriptor numbers available to the server
          ClientScripts, \* possible request sequences: "SUB" | "DISC" | "EOF"
          MaxSignals,    \* SIGUSR1 deliveries in a behaviour
          NoOne          \* model value: no client / closed descriptor

ASSUME /\ FdNums \subseteq Nat /\ S \in Nat \ {0}
       \* every client opens its pipes at most once: open() never fails
       /\ Cardinality(FdNums) >= 3 * Cardinality(Clients)

Slots  == 0..S-1
Pipes  == Clients \X {"req", "resp", "notif"}
Closed == <<NoOne, "none">>

VARIABLES
  fifo,           \* CONNECT frames in the registration FIFO
  hpc, hintr, hbytes, hmsg,  \* host thread: pc, intr, bytes_read, client
  flag,           \* received_sigusr1
  sigsLeft,       \* SIGUSR1 deliveries still possible
  ring, in, out,  \* clients[], in, out
  empty, full,    \* semaphore values
  live,           \* ghost: ring slots holding a record not yet consumed
  fdFile,         \* descriptor number -> pipe it refers to, or Closed
  active,         \* active_clients_list from head: nodes [cl, req, resp, notif, freed]
  subs,           \* notification descriptors in the registry
  wpc, wclient, wfd, wcap, wop,  \* worker locals; wcap: pipe a blocked read holds
  script, cpc, creq,             \* client processes; creq: requests in its req pipe
  sigPending,     \* ghost: a SIGUSR1 arrived that no reset has handled
  uaf,            \* ghost: a freed active_clients_list node was accessed
  crosstalk,      \* ghost: a thread used a descriptor of another client
  sigpipe         \* ghost: a response was written to a pipe with no reader

hostVars   == <<hpc, hintr, hbytes, hmsg>>
ringVars   == <<ring, in, out, empty, full, live>>
workerVars == <<wpc, wclient, wfd, wcap, wop>>
clientVars == <<script, cpc, creq>>
ghostVars  == <<sigPending, uaf, crosstalk, sigpipe>>
vars == <<fifo, hostVars, flag, sigsLeft, ringVars, fdFile, active, subs,
          workerVars, clientVars, ghostVars>>

----------------------------------------------------------------------------
(* Descriptors                                                             *)

FreeFds == {f \in FdNums : fdFile[f] = Closed}

\* open(): the lowest free descriptor number.
LowestFree(used) == CHOOSE f \in FreeFds \ used : \A g \in FreeFds \ used : f <= g

\* close() of each number in fs.
CloseFds(fs) == [f \in FdNums |-> IF f \in fs THEN Closed ELSE fdFile[f]]

\* Descriptor f no longer refers to a pipe of client c.
Foreign(f, c) == fdFile[f] # Closed /\ fdFile[f][1] # c

\* The server still holds a descriptor on pipe p.
ServerHolds(p) == \E f \in FdNums : fdFile[f] = p

----------------------------------------------------------------------------
Init ==
  /\ fifo = <<>>
  /\ hpc = "check" /\ hintr = 0 /\ hbytes = 0 /\ hmsg = NoOne
  /\ flag = 0
  /\ sigsLeft = MaxSignals
  /\ ring = [i \in Slots |-> NoOne] /\ in = 0 /\ out = 0
  /\ empty = S /\ full = 0
  /\ live = [i \in Slots |-> FALSE]
  /\ fdFile = [f \in FdNums |-> Closed]
  /\ active = <<>>
  /\ subs = {}
  /\ wpc = [w \in Workers |-> "consume"]
  /\ wclient = [w \in Workers |-> NoOne]
  /\ wfd = [w \in Workers |-> [req |-> 0, resp |-> 0, notif |-> 0]]
  /\ wcap = [w \in Workers |-> NoOne]
  /\ wop = [w \in Workers |-> "none"]
  /\ script \in [Clients -> ClientScripts]
  /\ cpc = [c \in Clients |-> "start"]
  /\ creq = [c \in Clients |-> <<>>]
  /\ sigPending = FALSE /\ uaf = FALSE /\ crosstalk = FALSE
  /\ sigpipe = FALSE

----------------------------------------------------------------------------
(* Client processes (src/client/api.c)                                     *)

\* kvs_connect: write the CONNECT frame to the server FIFO, then block in
\* open() of the three pipes until a worker opens the other ends.
Connect(c) ==
  /\ cpc[c] = "start"
  /\ fifo' = Append(fifo, c)
  /\ cpc' = [cpc EXCEPT ![c] = "queued"]
  /\ UNCHANGED <<hostVars, flag, sigsLeft, ringVars, fdFile, active, subs,
                 workerVars, script, creq, ghostVars>>

\* The server still reads the request pipe of c: a descriptor on it, or a
\* read already blocked on it.
ReqReader(c) ==
  ServerHolds(<<c, "req">>) \/ \E w \in Workers : wpc[w] = "blocked" /\ wcap[w] = c

\* The client's next command: kvs_subscribe/kvs_unsubscribe/kvs_disconnect
\* write one request and block reading the answer; "EOF" is the process
\* ending without DISCONNECT. A write with no reader raises SIGPIPE, which
\* the client does not ignore.
SendRequest(c) ==
  /\ cpc[c] = "session"
  /\ script[c] # <<>>
  /\ IF Head(script[c]) = "EOF" \/ ~ReqReader(c)
       THEN /\ cpc' = [cpc EXCEPT ![c] = "gone"]
            /\ UNCHANGED creq
       ELSE /\ creq' = [creq EXCEPT ![c] = Append(@, Head(script[c]))]
            /\ cpc' = [cpc EXCEPT ![c] = "await"]
  /\ UNCHANGED <<fifo, hostVars, flag, sigsLeft, ringVars, fdFile, active,
                 subs, workerVars, script, ghostVars>>

\* notifications_thread: read_all on the notification pipe fails once no
\* server descriptor refers to it, and the thread calls exit(1). A reply
\* read that hits EOF (the server closed the response pipe) returns 3, the
\* client closes its pipes and the notification thread then exits the same way.
ClientEOF(c) ==
  /\ \/ cpc[c] \in {"session", "await"} /\ ~ServerHolds(<<c, "notif">>)
     \/ cpc[c] = "await" /\ ~ServerHolds(<<c, "resp">>)
  /\ cpc' = [cpc EXCEPT ![c] = "gone"]
  /\ UNCHANGED <<fifo, hostVars, flag, sigsLeft, ringVars, fdFile, active,
                 subs, workerVars, script, creq, ghostVars>>

Client(c) == Connect(c) \/ SendRequest(c) \/ ClientEOF(c)

----------------------------------------------------------------------------
(* Session workers (ClientHandlerFunction, main.c)                         *)

\* A reply r reaches client d that is blocked on it: kvs_disconnect returns
\* 0 on r = 0 and 1 otherwise, and main returns either way; subscribe and
\* unsubscribe go back to the command loop.
Deliver(d, r) ==
  /\ cpc' = [cpc EXCEPT ![d] = IF Head(script[d]) = "DISC"
                                 THEN IF r = 0 THEN "done" ELSE "gone"
                                 ELSE "session"]
  /\ script' = [script EXCEPT ![d] = Tail(@)]

\* write_response(resp_fd, op, r) by worker w: write() on descriptor number
\* resp_fd, whatever pipe that number now refers to. A closed number or a
\* read end fails with EBADF; a pipe with no reader raises SIGPIPE. x: the
\* rest of the step already used another client's descriptor.
WriteResp(w, r, x) ==
  LET p == fdFile[wfd[w].resp]
  IN  IF p = Closed \/ p[2] = "req"
        THEN /\ crosstalk' = (crosstalk \/ x)
             /\ UNCHANGED <<script, cpc, sigpipe>>
        ELSE /\ crosstalk' = (crosstalk \/ x \/ p[1] # wclient[w])
             /\ sigpipe' = (sigpipe \/ cpc[p[1]] \in {"done", "gone"})
             /\ IF p[2] = "resp" /\ cpc[p[1]] = "await"
                  THEN Deliver(p[1], r)
                  ELSE UNCHANGED <<script, cpc>>

\* (variant of Consume whose out index is not taken modulo the ring size)
ConsumeNoWrap(w) ==
  /\ wpc[w] = "consume"
  /\ full > 0
  /\ wclient' = [wclient EXCEPT ![w] = ring[out]]
  /\ live' = [live EXCEPT ![out] = FALSE]
  /\ out' = out + 1
  /\ full' = full - 1
  /\ empty' = empty + 1
  /\ wpc' = [wpc EXCEPT ![w] = "open"]
  /\ UNCHANGED <<fifo, hostVars, flag, sigsLeft, ring, in, fdFile, active,
                 subs, wfd, wcap, wop, clientVars, ghostVars>>

\* (variant of Consume that leaves out unchanged)
ConsumeKeepOut(w) ==
  /\ wpc[w] = "consume"
  /\ full > 0
  /\ wclient' = [wclient EXCEPT ![w] = ring[out]]
  /\ live' = [live EXCEPT ![out] = FALSE]
  /\ full' = full - 1
  /\ empty' = empty + 1
  /\ wpc' = [wpc EXCEPT ![w] = "open"]
  /\ UNCHANGED <<fifo, hostVars, flag, sigsLeft, ring, in, out, fdFile, active,
                 subs, wfd, wcap, wop, clientVars, ghostVars>>

\* sem_wait(&full), take clients[out] under buffer_lock, advance out,
\* sem_post(&empty).
Consume(w) ==
  /\ wpc[w] = "consume"
  /\ full > 0
  /\ wclient' = [wclient EXCEPT ![w] = ring[out]]
  /\ live' = [live EXCEPT ![out] = FALSE]
  /\ out' = (out + 1) % S
  /\ full' = full - 1
  /\ empty' = empty + 1
  /\ wpc' = [wpc EXCEPT ![w] = "open"]
  /\ UNCHANGED <<fifo, hostVars, flag, sigsLeft, ring, in, fdFile, active,
                 subs, wfd, wcap, wop, clientVars, ghostVars>>

\* safe_open of the request, response and notification pipes (each the
\* lowest free number, rendezvous with the client's opens) and
\* write_response(resp_fd, OP_CODE_CONNECT, 0).
OpenPipes(w) ==
  LET c   == wclient[w]
      req == LowestFree({})
      rsp == LowestFree({req})
      ntf == LowestFree({req, rsp})
  IN  /\ wpc[w] = "open"
      /\ cpc[c] = "queued"
      /\ fdFile' = [fdFile EXCEPT ![req] = <<c, "req">>, ![rsp] = <<c, "resp">>,
                                  ![ntf] = <<c, "notif">>]
      /\ wfd' = [wfd EXCEPT ![w] = [req |-> req, resp |-> rsp, notif |-> ntf]]
      /\ cpc' = [cpc EXCEPT ![c] = "session"]
      /\ wpc' = [wpc EXCEPT ![w] = "add"]
      /\ UNCHANGED <<fifo, hostVars, flag, sigsLeft, ringVars, active, subs,
                     wclient, wcap, wop, script, creq, ghostVars>>

\* Link a new node at the head of active_clients_list under its mutex.
AddActiveClient(w) ==
  /\ wpc[w] = "add"
  /\ active' = <<[cl |-> wclient[w], req |-> wfd[w].req, resp |-> wfd[w].resp,
                  notif |-> wfd[w].notif, freed |-> FALSE]>> \o active
  /\ wpc' = [wpc EXCEPT ![w] = "read"]
  /\ UNCHANGED <<fifo, hostVars, flag, sigsLeft, ringVars, fdFile, subs,
                 wclient, wfd, wcap, wop, clientVars, ghostVars>>

\* read_all(req_fd, &OP_CODE, 1, 0) starts: read() on a closed number or on
\* a write end fails with EBADF and the loop breaks (back to sem_wait, the
\* descriptors and the node left as they are); otherwise the read blocks on
\* the pipe the number refers to, and keeps that pipe even if the number is
\* closed later.
ReadOpBegin(w) ==
  LET p == fdFile[wfd[w].req]
  IN  /\ wpc[w] = "read"
      /\ IF p = Closed \/ p[2] # "req"
           THEN /\ wpc' = [wpc EXCEPT ![w] = "consume"]
                /\ UNCHANGED <<wcap, crosstalk>>
           ELSE /\ wcap' = [wcap EXCEPT ![w] = p[1]]
                /\ crosstalk' = (crosstalk \/ p[1] # wclient[w])
                /\ wpc' = [wpc EXCEPT ![w] = "blocked"]
      /\ UNCHANGED <<fifo, hostVars, flag, sigsLeft, ringVars, fdFile, active,
                     subs, wclient, wfd, wop, clientVars, sigPending, uaf,
                     sigpipe>>

\* The blocked read returns the next request in the pipe (with the key of
\* SUBSCRIBE/UNSUBSCRIBE, read the same way) and the switch dispatches it.
ReadOp(w) ==
  LET c == wcap[w]
  IN  /\ wpc[w] = "blocked"
      /\ creq[c] # <<>>
      /\ wop' = [wop EXCEPT ![w] = Head(creq[c])]
      /\ creq' = [creq EXCEPT ![c] = Tail(@)]
      /\ wpc' = [wpc EXCEPT ![w] = IF Head(creq[c]) = "DISC" THEN "disc_close"
                                                            ELSE "request"]
      /\ UNCHANGED <<fifo, hostVars, flag, sigsLeft, ringVars, fdFile, active,
                     subs, wclient, wfd, wcap, script, cpc, ghostVars>>

\* Every write end of the pipe is closed (the client ended): read_all
\* returns 0 and the loop breaks without closing anything.
ReadEOF(w) ==
  /\ wpc[w] = "blocked"
  /\ creq[wcap[w]] = <<>>
  /\ cpc[wcap[w]] \in {"done", "gone"}
  /\ wpc' = [wpc EXCEPT ![w] = "consume"]
  /\ UNCHANGED <<fifo, hostVars, flag, sigsLeft, ringVars, fdFile, active,
                 subs, wclient, wfd, wcap, wop, clientVars, ghostVars>>

\* SUBSCRIBE: add_subscription(subs_list, key, notif_fd); UNSUBSCRIBE:
\* unsubscribe_from_key. The registry records the descriptor number. Then
\* write_response with the result (whether the key exists is abstracted).
Request(w) ==
  LET f == wfd[w].notif
  IN  /\ wpc[w] = "request"
      /\ subs' = IF wop[w] = "SUB" THEN subs \cup {f} ELSE subs \ {f}
      /\ \E r \in {0, 1} : WriteResp(w, r, Foreign(f, wclient[w]))
      /\ wpc' = [wpc EXCEPT ![w] = "read"]
      /\ UNCHANGED <<fifo, hostVars, flag, sigsLeft, ringVars, fdFile, active,
                     wclient, wfd, wcap, wop, creq, sigPending, uaf>>

\* DISCONNECT, lines 357-363: remove_all_subscriptions_from_client, then
\* close req_fd and notif_fd. safe_close returns 1 on failure, never -1, so
\* the error branch of line 363 is dead and the handler always goes on.
DisconnectClose(w) ==
  LET fs == {wfd[w].req, wfd[w].notif}
  IN  /\ wpc[w] = "disc_close"
      /\ subs' = subs \ {wfd[w].notif}
      /\ fdFile' = CloseFds(fs)
      /\ crosstalk' = (crosstalk \/ \E f \in fs : Foreign(f, wclient[w]))
      /\ wpc' = [wpc EXCEPT ![w] = "disc_resp"]
      /\ UNCHANGED <<fifo, hostVars, flag, sigsLeft, ringVars, active,
                     wclient, wfd, wcap, wop, clientVars, sigPending, uaf,
                     sigpipe>>

\* Lines 367-368: write_response(resp_fd, OP_CODE_DISCONNECT, 0), close
\* resp_fd.
DisconnectRespond(w) ==
  /\ wpc[w] = "disc_resp"
  /\ WriteResp(w, 0, FALSE)
  /\ fdFile' = CloseFds({wfd[w].resp})
  /\ wpc' = [wpc EXCEPT ![w] = "disc_remove"]
  /\ UNCHANGED <<fifo, hostVars, flag, sigsLeft, ringVars, active, subs,
                 wclient, wfd, wcap, wop, creq, sigPending, uaf>>

\* Index of the first node remove_active_client stops at: the one whose
\* client_resp_fd is rfd, or a freed node it would dereference; 0 if none.
StopAt(rfd) ==
  LET hits == {i \in 1..Len(active) : active[i].freed \/ active[i].resp = rfd}
  IN  IF hits = {} THEN 0 ELSE CHOOSE i \in hits : \A j \in hits : i <= j

\* Drop the i-th element of a sequence.
DropAt(sq, i) == SubSeq(sq, 1, i - 1) \o SubSeq(sq, i + 1, Len(sq))

\* remove_active_client(active_clients_list, resp_fd) (kvs.c): walk from
\* head and unlink the first node whose response descriptor number matches,
\* then back to sem_wait. The number was closed at line 368.
RemoveActiveClient(w) ==
  LET i == StopAt(wfd[w].resp)
  IN  /\ wpc[w] = "disc_remove"
      /\ IF i = 0 \/ active[i].freed
           THEN /\ uaf' = (uaf \/ i # 0)
                /\ UNCHANGED <<active, crosstalk>>
           ELSE /\ active' = DropAt(active, i)
                /\ crosstalk' = (crosstalk \/ active[i].cl # wclient[w])
                /\ UNCHANGED uaf
      /\ wpc' = [wpc EXCEPT ![w] = "consume"]
      /\ UNCHANGED <<fifo, hostVars, flag, sigsLeft, ringVars, fdFile, subs,
                     wclient, wfd, wcap, wop, clientVars, sigPending, sigpipe>>

Worker(w) ==
  \/ Consume(w) \/ OpenPipes(w) \/ AddActiveClient(w) \/ ReadOpBegin(w)
  \/ ReadOp(w) \/ ReadEOF(w) \/ Request(w) \/ DisconnectClose(w)
  \/ DisconnectRespond(w) \/ RemoveActiveClient(w)

----------------------------------------------------------------------------
(* Host thread (HostThreadFunction, main.c) and SIGUSR1                    *)

\* Lines 452-468 under sigusr1_mutex: a set received_sigusr1 starts the
\* reset; otherwise intr = received_sigusr1 (still 0) and read_all of the
\* server FIFO starts. read_all returns -1 at once when intr is set, which
\* is the same as the signal arriving after this step.
HostCheckSignal ==
  /\ hpc = "check"
  /\ hpc' = IF flag = 1 THEN "reset" ELSE "reading"
  /\ hintr' = 0
  /\ UNCHANGED <<fifo, hbytes, hmsg, flag, sigsLeft, ringVars, fdFile, active,
                 subs, workerVars, clientVars, ghostVars>>

\* read() returns a CONNECT frame (one write of at most PIPE_BUF bytes).
HostReadFrame ==
  /\ hpc = "reading"
  /\ fifo # <<>>
  /\ hmsg' = Head(fifo)
  /\ fifo' = Tail(fifo)
  /\ hbytes' = 1
  /\ hpc' = "wb"
  /\ UNCHANGED <<hintr, flag, sigsLeft, ringVars, fdFile, active, subs,
                 workerVars, clientVars, ghostVars>>

\* Line 471: received_sigusr1 = intr; then a frame goes to sem_wait(&empty),
\* anything else back to the top of the loop.
HostWriteBack ==
  /\ hpc = "wb"
  /\ flag' = hintr
  /\ hpc' = IF hbytes = 1 THEN "sem" ELSE "check"
  /\ UNCHANGED <<fifo, hintr, hbytes, hmsg, sigsLeft, ringVars, fdFile,
                 active, subs, workerVars, clientVars, ghostVars>>

\* sem_wait(&empty) returns after taking a slot.
HostSemWait ==
  /\ hpc = "sem"
  /\ empty > 0
  /\ empty' = empty - 1
  /\ hpc' = "produce"
  /\ UNCHANGED <<fifo, hintr, hbytes, hmsg, flag, sigsLeft, ring, in, out,
                 full, live, fdFile, active, subs, workerVars, clientVars,
                 ghostVars>>

\* (variant of HostProduce without sem_post(&full))
HostProduceNoPost ==
  /\ hpc = "produce"
  /\ ring' = [ring EXCEPT ![in] = hmsg]
  /\ live' = [live EXCEPT ![in] = TRUE]
  /\ in' = (in + 1) % S
  /\ hpc' = "check"
  /\ UNCHANGED <<fifo, hintr, hbytes, hmsg, flag, sigsLeft, out, empty, full,
                 fdFile, active, subs, workerVars, clientVars, ghostVars>>

\* Lines 484-488: clients[in] = client under buffer_lock, advance in,
\* sem_post(&full).
HostProduce ==
  /\ hpc = "produce"
  /\ ring' = [ring EXCEPT ![in] = hmsg]
  /\ live' = [live EXCEPT ![in] = TRUE]
  /\ in' = (in + 1) % S
  /\ full' = full + 1
  /\ hpc' = "check"
  /\ UNCHANGED <<fifo, hintr, hbytes, hmsg, flag, sigsLeft, out, empty,
                 fdFile, active, subs, workerVars, clientVars, ghostVars>>

\* Index of the first freed node reached from head, or Len(active) + 1.
FirstFreed ==
  LET fr == {i \in 1..Len(active) : active[i].freed}
  IN  IF fr = {} THEN Len(active) + 1 ELSE CHOOSE i \in fr : \A j \in fr : i <= j

\* Lines 454-459: free_subs_list and a new empty registry;
\* disconnect_all_clients closes the three descriptor numbers of every node
\* reached from head and frees it, but leaves head pointing at the first
\* freed node (kvs.c 331-343); sigusr1_mutex is released.
HostReset ==
  LET k     == FirstFreed
      nodes == {active[i] : i \in 1..k-1}
      fds   == UNION {{n.req, n.resp, n.notif} : n \in nodes}
  IN  /\ hpc = "reset"
      /\ subs' = {}
      /\ fdFile' = CloseFds(fds)
      /\ active' = [i \in 1..Len(active) |->
                      IF i < k THEN [active[i] EXCEPT !.freed = TRUE] ELSE active[i]]
      /\ uaf' = (uaf \/ k <= Len(active))
      /\ crosstalk' = (crosstalk \/ \E n \in nodes :
                         \E f \in {n.req, n.resp, n.notif} : Foreign(f, n.cl))
      /\ sigPending' = FALSE
      /\ hpc' = "clear"
      /\ UNCHANGED <<fifo, hintr, hbytes, hmsg, flag, sigsLeft, ringVars,
                     workerVars, clientVars, sigpipe>>

\* Line 460: received_sigusr1 = 0, then continue.
HostClearFlag ==
  /\ hpc = "clear"
  /\ flag' = 0
  /\ hpc' = "check"
  /\ UNCHANGED <<fifo, hintr, hbytes, hmsg, sigsLeft, ringVars, fdFile,
                 active, subs, workerVars, clientVars, ghostVars>>

Host ==
  \/ HostCheckSignal \/ HostReadFrame \/ HostWriteBack \/ HostSemWait
  \/ HostProduce \/ HostReset \/ HostClearFlag

\* main blocks SIGUSR1 before it creates any thread (line 509) and the
\* threads inherit that mask; only the host thread unblocks it (line 430).
\* sig_handler sets received_sigusr1. Taken while the host thread is not
\* blocked in a call (a read() that finds a frame returns it), it only sets
\* the flag.
HostBlocked == \/ hpc = "reading" /\ fifo = <<>>
               \/ hpc = "sem" /\ empty = 0

SigHandled ==
  /\ sigsLeft > 0
  /\ ~HostBlocked
  /\ sigsLeft' = sigsLeft - 1
  /\ flag' = 1
  /\ sigPending' = TRUE
  /\ UNCHANGED <<fifo, hostVars, ringVars, fdFile, active, subs, workerVars,
                 clientVars, uaf, crosstalk, sigpipe>>

\* Taken while the host thread is blocked (sa_flags = 0: no restart):
\* read() fails with EINTR and read_all sets intr and returns -1; sem_wait
\* fails with EINTR, its result is not checked (line 483) and the thread
\* goes on to fill clients[in] without a free slot.
SigInterrupt ==
  /\ sigsLeft > 0
  /\ sigsLeft' = sigsLeft - 1
  /\ flag' = 1
  /\ sigPending' = TRUE
  /\ \/ /\ hpc = "reading" /\ fifo = <<>>
        /\ hintr' = 1 /\ hbytes' = -1 /\ hpc' = "wb"
        /\ UNCHANGED hmsg
     \/ /\ hpc = "sem" /\ empty = 0
        /\ hpc' = "produce"
        /\ UNCHANGED <<hintr, hbytes, hmsg>>
  /\ UNCHANGED <<fifo, ringVars, fdFile, active, subs, workerVars, clientVars,
                 uaf, crosstalk, sigpipe>>

Next ==
  \/ Host
  \/ \E w \in Workers : Worker(w)
  \/ \E c \in Clients : Client(c)
  \/ SigHandled \/ SigInterrupt

\* Threads and client processes are scheduled by the OS: each that stays
\* able to run eventually runs. Signals are sent from outside: no fairness.
Fairness ==
  /\ WF_vars(Host)
  /\ \A w \in Workers : WF_vars(Worker(w))
  /\ \A c \in Clients : WF_vars(Client(c))

Spec == Init /\ [][Next]_vars /\ Fairness

----------------------------------------------------------------------------
(* Properties                                                              *)

TypeOK ==
  /\ fifo \in Seq(Clients)
  /\ hpc \in {"check", "reading", "wb", "sem", "produce", "reset", "clear"}
  /\ hintr \in {0, 1} /\ flag \in {0, 1} /\ hbytes \in {-1, 0, 1}
  /\ hmsg \in Clients \cup {NoOne}
  /\ ring \in [Slots -> Clients \cup {NoOne}] /\ live \in [Slots -> BOOLEAN]
  /\ in \in Slots /\ out \in Slots /\ empty \in Nat /\ full \in Nat
  /\ fdFile \in [FdNums -> Pipes \cup {Closed}]
  /\ subs \subseteq FdNums
  /\ wpc \in [Workers -> {"consume", "open", "add", "read", "blocked", "request",
                          "disc_close", "disc_resp", "disc_remove"}]
  /\ wclient \in [Workers -> Clients \cup {NoOne}]
  /\ cpc \in [Clients -> {"start", "queued", "session", "await", "done", "gone"}]
  /\ creq \in [Clients -> Seq({"SUB", "UNSUB", "DISC"})]

\* Copies of client c's CONNECT record held by the server: in the FIFO, in
\* the host thread's local after the read, in an unconsumed ring slot, or
\* taken by a worker that has not opened the pipes yet.
Copies(c) ==
  Cardinality({i \in 1..Len(fifo) : fifo[i] = c})
  + (IF hmsg = c /\ (hpc \in {"sem", "produce"} \/ (hpc = "wb" /\ hbytes = 1))
       THEN 1 ELSE 0)
  + Cardinality({i \in Slots : live[i] /\ ring[i] = c})
  + Cardinality({w \in Workers : wpc[w] = "open" /\ wclient[w] = c})

\* Every connecting client is admitted exactly once: while kvs_connect waits
\* for its pipes to be opened, exactly one copy of its record is on its way
\* through the host thread, the ring (clients[], in/out, empty/full) and a
\* worker, and none once it is served. An overwritten ring slot loses a
\* client; a slot consumed twice serves one twice.
AdmissionExact ==
  \A c \in Clients : Copies(c) = IF cpc[c] = "queued" THEN 1 ELSE 0

\* Every client eventually ends: it is served, and a DISCONNECT, the end of
\* its commands, or the server closing its pipes (SIGUSR1) ends it.
AllClientsFinish == <>(\A c \in Clients : cpc[c] \in {"done", "gone"})

\* A SIGUSR1 is never forgotten: until the host thread has run the reset,
\* received_sigusr1 stays set (write-back at line 471, clear at line 460).
SignalNotLost == sigPending => flag = 1

\* No thread reads or frees an active_clients_list node that
\* disconnect_all_clients has freed.
NoFreedNodeAccess == ~uaf

\* A descriptor number is only used (read, written, subscribed, closed, or
\* matched in remove_active_client) while it refers to its own client's pipe.
NoCrossTalk == ~crosstalk

\* The server never writes a response to a client that has exited (SIGPIPE
\* is not ignored, so such a write kills the server).
NoResponseToClosedPipe == ~sigpipe

====
