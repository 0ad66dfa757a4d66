------------------------------- MODULE Workers -------------------------------
(***************************************************************************)
(* os.Worker (quickjs-libc.c): threads with a runtime each, joined by two  *)
(* message pipes per worker.  A pipe is a queue under a mutex and a POSIX  *)
(* pipe that holds a byte while the queue is not empty, so that select()   *)
(* in js_os_poll wakes the receiver.  Pipes and the memory of shared array *)
(* buffers are counted with atomic additions, by objects of both runtimes, *)
(* by messages under way and by the thread itself.                         *)
(*                                                                         *)
(* One step is what a thread does between two points where another thread  *)
(* can tell the difference: one atomic addition, one critical section or   *)
(* half of one where select() can look in between.  The script a thread    *)
(* runs (module body or message handler) may do any of the operations, in  *)
(* any order, MaxOps of them in all.                                       *)
(*                                                                         *)
(* The last part of the module is how threads wait for each other on       *)
(* shared memory.                                                          *)
(***************************************************************************)
EXTENDS Integers, Sequences, FiniteSets

CONSTANTS Main, WorkerIds, Sabs, None,
          MaxOps       \* bound on the operations the scripts perform

ASSUME MainIsNoWorker == Main \notin WorkerIds

Threads == {Main} \cup WorkerIds
Pipes == WorkerIds \X {"down", "up"}
(* JSWorkerData objects: the Worker in the main thread, Worker.parent in   *)
(* the worker.                                                             *)
Ends == {e \in Threads \X WorkerIds : e[1] \in {Main, e[2]}}

RecvPipe(t, w) == IF t = Main THEN <<w, "up">> ELSE <<w, "down">>
SendPipe(t, w) == IF t = Main THEN <<w, "down">> ELSE <<w, "up">>

VARIABLES
    queue,      \* msg_queue of a pipe
    bytes,      \* bytes in its POSIX pipe
    owner,      \* holder of its mutex
    refs,       \* its ref_count; 0: not created or freed
    live,       \* the Worker objects alive
    ports,      \* port_list of each thread, as the workers the ports belong to
    sabRef,     \* ref_count of a shared memory block; 0: not allocated or freed
    bufs,       \* SharedArrayBuffer objects of each thread on each block
    pc,         \* what each thread is doing
    todo,       \* references it still has to release, in order
    msg,        \* the message it is sending or has received
    peer,       \* the worker whose pipe it is using
    rfds,       \* the ports select() found readable
    sent, got,  \* history: messages queued, identities of those taken out
    ops         \* operations performed by the scripts

pipeVars == <<queue, bytes, owner, sent, got>>
threadVars == <<pc, todo, msg, peer, rfds>>
workerVars == <<pipeVars, refs, live, ports, sabRef, bufs, threadVars, ops>>

NoMessage == [id |-> 0, sabs |-> {}]
(* Work left to js_free_message_pipe and js_sab_free.                      *)
FreePipe(p) == <<"pipe", p>>
FreeSab(s) == <<"sab", s>>
Each(S) == CHOOSE q \in [1..Cardinality(S) -> S] : \A x \in S : \E i \in DOMAIN q : q[i] = x

Freed(S) == [i \in 1..Cardinality(S) |-> FreeSab(Each(S)[i][2])]
(* The blocks counted by the messages of q, one for each mention.          *)
Mentions(q) == {m \in (DOMAIN q) \X Sabs : m[2] \in q[m[1]].sabs}

WorkersInit ==
    /\ queue = [p \in Pipes |-> <<>>]
    /\ bytes = [p \in Pipes |-> 0]
    /\ owner = [p \in Pipes |-> None]
    /\ refs = [p \in Pipes |-> 0]
    /\ live = {}
    /\ ports = [t \in Threads |-> <<>>]
    /\ sabRef = [s \in Sabs |-> 0]
    /\ bufs = [t \in Threads |-> [s \in Sabs |-> 0]]
    /\ pc = [t \in Threads |-> IF t = Main THEN "js" ELSE "none"]
    /\ todo = [t \in Threads |-> <<>>]
    /\ msg = [t \in Threads |-> NoMessage]
    /\ peer = [t \in Threads |-> None]
    /\ rfds = [t \in Threads |-> {}]
    /\ sent = [p \in Pipes |-> 0]
    /\ got = [p \in Pipes |-> 0]
    /\ ops = 0

(***************************************************************************)
(* The operations of a script.                                             *)
(***************************************************************************)
Script(t) ==
    /\ pc[t] = "js" /\ todo[t] = <<>>
    /\ ops < MaxOps /\ ops' = ops + 1

HasPort(t, w) == \E i \in DOMAIN ports[t] : ports[t][i] = w
WithoutPort(t, w) == SelectSeq(ports[t], LAMBDA v : v # w)

(* js_worker_ctor in the main thread.  The two pipes are counted by args,  *)
(* then by the new thread, and by the object.                              *)
NewWorker(t, w) ==
    /\ Script(t) /\ t = Main
    /\ pc[w] = "none" /\ <<t, w>> \notin live
    /\ refs[<<w, "down">>] = 0 /\ refs[<<w, "up">>] = 0
    /\ refs' = [refs EXCEPT ![<<w, "down">>] = 2, ![<<w, "up">>] = 2]
    /\ live' = live \cup {<<t, w>>}
    /\ pc' = [pc EXCEPT ![w] = "start"]
    /\ UNCHANGED <<pipeVars, ports, sabRef, bufs, todo, msg, peer, rfds>>

(* js_worker_ctor when it fails: the label fail: releases the pipes args   *)
(* already holds and, when it was pthread_create that failed, the object's *)
(* finalizer what the object holds.  held: the pipes args holds; made: the *)
(* object exists.                                                          *)
NewWorkerFails(t, w, held, made) ==
    /\ Script(t) /\ t = Main
    /\ pc[w] = "none" /\ <<t, w>> \notin live
    /\ refs[<<w, "down">>] = 0 /\ refs[<<w, "up">>] = 0
    /\ made => Len(held) = 2
    /\ refs' = [p \in DOMAIN refs |->
                  IF \E i \in DOMAIN held : p = <<w, held[i]>> THEN IF made THEN 2 ELSE 1 ELSE refs[p]]
    /\ todo' = [todo EXCEPT ![t] =
                  [i \in DOMAIN held |-> FreePipe(<<w, held[i]>>)]
                  \o (IF made THEN <<FreePipe(<<w, "up">>), FreePipe(<<w, "down">>)>> ELSE <<>>)]
    /\ UNCHANGED <<pipeVars, live, ports, sabRef, bufs, pc, msg, peer, rfds>>

(* js_worker_set_onmessage with a function, for a worker without a port.   *)
SetOnMessage(t, w) ==
    /\ Script(t) /\ <<t, w>> \in live /\ ~HasPort(t, w)
    /\ ports' = [ports EXCEPT ![t] = Append(@, w)]
    /\ refs' = [refs EXCEPT ![RecvPipe(t, w)] = @ + 1]
    /\ UNCHANGED <<pipeVars, live, sabRef, bufs, threadVars>>

(* js_worker_set_onmessage(null): js_free_port.                            *)
ClearOnMessage(t, w) ==
    /\ Script(t) /\ <<t, w>> \in live /\ HasPort(t, w)
    /\ ports' = [ports EXCEPT ![t] = WithoutPort(t, w)]
    /\ todo' = [todo EXCEPT ![t] = <<FreePipe(RecvPipe(t, w))>>]
    /\ UNCHANGED <<pipeVars, refs, live, sabRef, bufs, pc, msg, peer, rfds>>

(* js_worker_finalizer, when the last reference to the object goes.        *)
Finalizer(t, w) == <<FreePipe(RecvPipe(t, w)), FreePipe(SendPipe(t, w))>>
                   \o (IF HasPort(t, w) THEN <<FreePipe(RecvPipe(t, w))>> ELSE <<>>)

DropWorker(t, w) ==
    /\ Script(t) /\ <<t, w>> \in live
    /\ live' = live \ {<<t, w>>}
    /\ ports' = [ports EXCEPT ![t] = WithoutPort(t, w)]
    /\ todo' = [todo EXCEPT ![t] = Finalizer(t, w)]
    /\ UNCHANGED <<pipeVars, refs, sabRef, bufs, pc, msg, peer, rfds>>

(* new SharedArrayBuffer: js_sab_alloc.                                    *)
NewSab(t, s) ==
    /\ Script(t)
    /\ sabRef[s] = 0
    /\ sabRef' = [sabRef EXCEPT ![s] = 1]
    /\ bufs' = [bufs EXCEPT ![t][s] = @ + 1]
    /\ UNCHANGED <<pipeVars, refs, live, ports, threadVars>>

(* js_array_buffer_finalizer of a SharedArrayBuffer.                       *)
DropSab(t, s) ==
    /\ Script(t) /\ bufs[t][s] > 0
    /\ bufs' = [bufs EXCEPT ![t][s] = @ - 1]
    /\ todo' = [todo EXCEPT ![t] = <<FreeSab(s)>>]
    /\ UNCHANGED <<pipeVars, refs, live, ports, sabRef, pc, msg, peer, rfds>>

(* js_worker_postMessage up to the mutex: the message counts the shared    *)
(* blocks it mentions (S).                                                 *)
PostMessage(t, w, S) ==
    /\ Script(t) /\ <<t, w>> \in live
    /\ \A s \in S : bufs[t][s] > 0
    /\ sabRef' = [s \in Sabs |-> IF s \in S THEN sabRef[s] + 1 ELSE sabRef[s]]
    /\ msg' = [msg EXCEPT ![t] = [id |-> 0, sabs |-> S]]
    /\ peer' = [peer EXCEPT ![t] = w]
    /\ pc' = [pc EXCEPT ![t] = "lock"]
    /\ UNCHANGED <<pipeVars, refs, live, ports, bufs, todo, rfds>>

(* The script returns to js_std_loop, which runs the pending jobs and      *)
(* polls.                                                                  *)
EndScript(t) ==
    /\ pc[t] = "js" /\ todo[t] = <<>>
    /\ pc' = [pc EXCEPT ![t] = "poll"]
    /\ UNCHANGED <<pipeVars, refs, live, ports, sabRef, bufs, todo, msg, peer, rfds, ops>>

(***************************************************************************)
(* Sending.  The byte is written before the message is queued; select() in *)
(* the receiver may see it at once, the queue only after the unlock.       *)
(***************************************************************************)

LockAndSignal(t) ==
    LET p == SendPipe(t, peer[t])
    IN  /\ pc[t] = "lock" /\ owner[p] = None
        /\ owner' = [owner EXCEPT ![p] = t]
        /\ bytes' = [bytes EXCEPT ![p] = IF queue[p] = <<>> THEN @ + 1 ELSE @]
        /\ pc' = [pc EXCEPT ![t] = "add"]
        /\ UNCHANGED <<queue, sent, got, refs, live, ports, sabRef, bufs,
                       todo, msg, peer, rfds, ops>>

(* Mutant: list_add for list_add_tail.                                     *)
MutAddAndUnlock(t) ==
    LET p == SendPipe(t, peer[t])
    IN  /\ pc[t] = "add"
        /\ sent' = [sent EXCEPT ![p] = @ + 1]
        /\ queue' = [queue EXCEPT ![p] = <<[msg[t] EXCEPT !.id = sent[p] + 1]>> \o @]
        /\ owner' = [owner EXCEPT ![p] = None]
        /\ pc' = [pc EXCEPT ![t] = "js"]
        /\ msg' = [msg EXCEPT ![t] = NoMessage]
        /\ peer' = [peer EXCEPT ![t] = None]
        /\ UNCHANGED <<bytes, got, refs, live, ports, sabRef, bufs, todo, rfds, ops>>

AddAndUnlock(t) ==
    LET p == SendPipe(t, peer[t])
    IN  /\ pc[t] = "add"
        /\ sent' = [sent EXCEPT ![p] = @ + 1]
        /\ queue' = [queue EXCEPT ![p] = Append(@, [msg[t] EXCEPT !.id = sent[p] + 1])]
        /\ owner' = [owner EXCEPT ![p] = None]
        /\ pc' = [pc EXCEPT ![t] = "js"]
        /\ msg' = [msg EXCEPT ![t] = NoMessage]
        /\ peer' = [peer EXCEPT ![t] = None]
        /\ UNCHANGED <<bytes, got, refs, live, ports, sabRef, bufs, todo, rfds, ops>>

(***************************************************************************)
(* js_os_poll.                                                             *)
(***************************************************************************)
(* No handler left: js_std_loop ends, the runtime is taken down.           *)
LeaveLoop(t) ==
    /\ pc[t] = "poll" /\ todo[t] = <<>> /\ ports[t] = <<>>
    /\ pc' = [pc EXCEPT ![t] = "freecontext"]
    /\ UNCHANGED <<pipeVars, refs, live, ports, sabRef, bufs, todo, msg, peer, rfds, ops>>

Readable(t) == {w \in WorkerIds : HasPort(t, w) /\ bytes[RecvPipe(t, w)] > 0}

(* select() returns when a port's descriptor is readable.                  *)
Select(t) ==
    /\ pc[t] = "poll" /\ todo[t] = <<>> /\ ports[t] # <<>>
    /\ Readable(t) # {}
    /\ rfds' = [rfds EXCEPT ![t] = Readable(t)]
    /\ pc' = [pc EXCEPT ![t] = "scan"]
    /\ UNCHANGED <<pipeVars, refs, live, ports, sabRef, bufs, todo, msg, peer, ops>>

(* The first port of the list that select() reported.                      *)
FirstReady(t) == ports[t][CHOOSE i \in DOMAIN ports[t] :
                            /\ ports[t][i] \in rfds[t]
                            /\ \A j \in 1..(i - 1) : ports[t][j] \notin rfds[t]]

(* read() takes up to 16 bytes; it blocks, mutex held, when there is none. *)
Drained(n) == IF n > 16 THEN n - 16 ELSE 0

(* handle_posted_message, the critical section: take the first message     *)
(* and, if it was the last, the bytes.  Without a message the scan of the  *)
(* list goes on.                                                           *)
TakeMessage(t) ==
    LET w == FirstReady(t)
        p == RecvPipe(t, w)
    IN  /\ pc[t] = "scan" /\ rfds[t] # {} /\ owner[p] = None
        /\ IF queue[p] # <<>>
           THEN /\ Tail(queue[p]) = <<>> => bytes[p] > 0
                /\ queue' = [queue EXCEPT ![p] = Tail(@)]
                /\ bytes' = [bytes EXCEPT ![p] = IF Tail(queue[p]) = <<>> THEN Drained(@) ELSE @]
                /\ got' = [got EXCEPT ![p] = Head(queue[p]).id]
                /\ msg' = [msg EXCEPT ![t] = Head(queue[p])]
                /\ peer' = [peer EXCEPT ![t] = w]
                /\ rfds' = [rfds EXCEPT ![t] = {}]
                /\ pc' = [pc EXCEPT ![t] = "read"]
           ELSE /\ rfds' = [rfds EXCEPT ![t] = @ \ {w}]
                /\ pc' = [pc EXCEPT ![t] = IF rfds[t] = {w} THEN "poll" ELSE @]
                /\ UNCHANGED <<queue, bytes, got, msg, peer>>
        /\ UNCHANGED <<owner, sent, refs, live, ports, sabRef, bufs, todo, ops>>

(* JS_ReadObject makes a SharedArrayBuffer of each block the message       *)
(* mentions (js_sab_dup); when it throws, the handler is not called.       *)
ReadMessage(t) ==
    /\ pc[t] = "read"
    /\ \/ /\ sabRef' = [s \in Sabs |-> IF s \in msg[t].sabs THEN sabRef[s] + 1 ELSE sabRef[s]]
          /\ bufs' = [bufs EXCEPT ![t] = [s \in Sabs |-> IF s \in msg[t].sabs THEN @[s] + 1 ELSE @[s]]]
          /\ pc' = [pc EXCEPT ![t] = "deliver"]
       \/ /\ pc' = [pc EXCEPT ![t] = "failed"]
          /\ UNCHANGED <<sabRef, bufs>>
    /\ UNCHANGED <<pipeVars, refs, live, ports, todo, msg, peer, rfds, ops>>

(* js_free_message, then the handler runs or the error is reported.        *)
FreeMessage(t) ==
    /\ pc[t] \in {"deliver", "failed"}
    /\ todo' = [todo EXCEPT ![t] = Freed(Mentions(<<msg[t]>>))]
    /\ pc' = [pc EXCEPT ![t] = IF pc[t] = "deliver" THEN "js" ELSE "poll"]
    /\ msg' = [msg EXCEPT ![t] = NoMessage]
    /\ peer' = [peer EXCEPT ![t] = None]
    /\ UNCHANGED <<pipeVars, refs, live, ports, sabRef, bufs, rfds, ops>>

(***************************************************************************)
(* One atomic decrement: js_free_message_pipe or js_sab_free.  The last    *)
(* reference to a pipe frees the messages left in it.                      *)
(***************************************************************************)
Release(t) ==
    /\ todo[t] # <<>>
    /\ LET r == Head(todo[t])
       IN  IF r[1] = "sab"
           THEN /\ sabRef' = [sabRef EXCEPT ![r[2]] = @ - 1]
                /\ todo' = [todo EXCEPT ![t] = Tail(@)]
                /\ UNCHANGED <<refs, queue>>
           ELSE /\ refs' = [refs EXCEPT ![r[2]] = @ - 1]
                /\ queue' = [queue EXCEPT ![r[2]] = IF refs[r[2]] = 1 THEN <<>> ELSE @]
                /\ todo' = [todo EXCEPT ![t] =
                              Tail(@) \o (IF refs[r[2]] = 1 THEN Freed(Mentions(queue[r[2]])) ELSE <<>>)]
                /\ UNCHANGED sabRef
    /\ UNCHANGED <<bytes, owner, sent, got, live, ports, bufs, pc, msg, peer, rfds, ops>>
(***************************************************************************)
(* The end of a thread: JS_FreeContext frees its objects; a worker's       *)
(* js_std_free_handlers then lets go of the thread's own pipes.            *)
(***************************************************************************)
FreeContext(t) ==
    /\ pc[t] = "freecontext" /\ todo[t] = <<>>
    /\ \E w \in WorkerIds \cup {None} :
          /\ IF \E v \in WorkerIds : <<t, v>> \in live THEN <<t, w>> \in live ELSE w = None
          /\ live' = live \ {<<t, w>>}
          /\ bufs' = [bufs EXCEPT ![t] = [s \in Sabs |-> 0]]
          /\ todo' = [todo EXCEPT ![t] = Freed(UNION {(1..bufs[t][s]) \X {s} : s \in Sabs})
                                         \o (IF w = None THEN <<>> ELSE Finalizer(t, w))]
          /\ pc' = [pc EXCEPT ![t] = IF w = None THEN "freehandlers" ELSE @]
    /\ UNCHANGED <<pipeVars, refs, ports, sabRef, msg, peer, rfds, ops>>

FreeHandlers(t) ==
    /\ pc[t] = "freehandlers" /\ todo[t] = <<>>
    /\ pc' = [pc EXCEPT ![t] = "done"]
    /\ todo' = [todo EXCEPT ![t] = IF t = Main THEN <<>>
                                   ELSE <<FreePipe(<<t, "down">>), FreePipe(<<t, "up">>)>>]
    /\ UNCHANGED <<pipeVars, refs, live, ports, sabRef, bufs, msg, peer, rfds, ops>>

(* worker_func up to the module body; js_os_init makes Worker.parent.      *)
StartWorker(w) ==
    /\ pc[w] = "start"
    /\ pc' = [pc EXCEPT ![w] = "js"]
    /\ live' = live \cup {<<w, w>>}
    /\ refs' = [refs EXCEPT ![<<w, "down">>] = @ + 1, ![<<w, "up">>] = @ + 1]
    /\ UNCHANGED <<pipeVars, ports, sabRef, bufs, todo, msg, peer, rfds, ops>>

(* What a thread does once its script has returned or called the engine.   *)
Engine(t) ==
    \/ Release(t) \/ LockAndSignal(t) \/ AddAndUnlock(t)
    \/ EndScript(t) \/ LeaveLoop(t) \/ Select(t) \/ TakeMessage(t)
    \/ ReadMessage(t) \/ FreeMessage(t)
    \/ FreeContext(t) \/ FreeHandlers(t)
    \/ t \in WorkerIds /\ StartWorker(t)

Operation(t) ==
    \/ \E w \in WorkerIds : \/ NewWorker(t, w)
                            \/ \E held \in {<<"down">>, <<"down", "up">>}, made \in BOOLEAN :
                                 NewWorkerFails(t, w, held, made)
                            \/ SetOnMessage(t, w) \/ ClearOnMessage(t, w) \/ DropWorker(t, w)
                            \/ \E S \in SUBSET Sabs : PostMessage(t, w, S)
    \/ \E s \in Sabs : NewSab(t, s) \/ DropSab(t, s)

WorkersNext == \E t \in Threads : Engine(t) \/ Operation(t)

(* Every thread is scheduled, and a script returns.                        *)
WorkersSpec == WorkersInit /\ [][WorkersNext]_workerVars
               /\ \A t \in Threads : WF_workerVars(Engine(t))

(***************************************************************************)
(* Properties.                                                             *)
(***************************************************************************)
WorkersTypeOK ==
    /\ bytes \in [Pipes -> Nat] /\ refs \in [Pipes -> Nat] /\ sabRef \in [Sabs -> Nat]
    /\ owner \in [Pipes -> Threads \cup {None}]
    /\ live \subseteq Ends
    /\ sent \in [Pipes -> Nat] /\ got \in [Pipes -> Nat]
    /\ pc \in [Threads -> {"none", "start", "js", "lock", "add", "poll", "scan", "read",
                           "deliver", "failed", "freecontext", "freehandlers", "done"}]

(* The byte that wakes the receiver is there exactly when a message is:    *)
(* whenever the mutex is free, the POSIX pipe holds one byte if the queue  *)
(* is not empty and none if it is.  (A missing byte is a message nobody    *)
(* is woken for; read() without one blocks with the mutex held; a spare    *)
(* one makes the receiver spin.)                                           *)
WakeByteExact ==
    \A p \in Pipes : owner[p] = None /\ refs[p] > 0 =>
        bytes[p] = IF queue[p] = <<>> THEN 0 ELSE 1

(* Messages of a pipe are taken out in the order they were posted, none    *)
(* twice and none skipped.                                                 *)
DeliveredInOrder ==
    \A p \in Pipes : refs[p] > 0 =>
        /\ Len(queue[p]) = sent[p] - got[p]
        /\ \A i \in DOMAIN queue[p] : queue[p][i].id = got[p] + i

(* The releases of r under way.                                            *)
Owed(r) == Cardinality(UNION {{t} \X {i \in DOMAIN todo[t] : todo[t][i] = r} : t \in Threads})

(* A pipe is counted once by the worker thread that runs on it, by each    *)
(* Worker object and by each port, plus the releases under way; so it is   *)
(* freed when the last of them is gone and not before.                     *)
PipeCountsExact ==
    \A p \in Pipes :
        refs[p] = (IF pc[p[1]] \in {"none", "done"} THEN 0 ELSE 1)
                  + Cardinality({e \in live : p \in {RecvPipe(e[1], e[2]), SendPipe(e[1], e[2])}})
                  + Cardinality({t \in Threads : HasPort(t, p[1]) /\ RecvPipe(t, p[1]) = p})
                  + Owed(FreePipe(p))

(* A shared block is counted once by each SharedArrayBuffer on it, in any  *)
(* thread, and by each message that mentions it, queued or in hand.        *)
InHand(s) == {t \in Threads : s \in msg[t].sabs}
SabCountsExact ==
    \A s \in Sabs :
        sabRef[s] = Cardinality(UNION {{t} \X (1..bufs[t][s]) : t \in Threads})
                    + Cardinality(InHand(s)) + Owed(FreeSab(s))
                    + Cardinality(UNION {{p} \X {i \in DOMAIN queue[p] : s \in queue[p][i].sabs} :
                                         p \in Pipes})

(* A posted message is handled, as long as the receiver keeps a handler:   *)
(* no wakeup is lost and no thread waits for another's mutex forever.      *)
MessagesHandled ==
    \A t \in Threads, w \in WorkerIds :
        (HasPort(t, w) /\ queue[RecvPipe(t, w)] # <<>>)
            ~> (~HasPort(t, w) \/ queue[RecvPipe(t, w)] = <<>>)

-----------------------------------------------------------------------------
(***************************************************************************)
(* Atomics.wait and Atomics.notify (quickjs.c): one process-wide mutex and *)
(* list of waiters.  A waiter compares the cell and links itself in the    *)
(* same critical section, then sleeps on its own condition variable, which *)
(* lets the mutex go; it is linked until a notify takes it out or it takes *)
(* itself out after waking by itself (timeout, or the spurious wakeup      *)
(* POSIX allows).  Stores to the cells do not take the mutex.              *)
(***************************************************************************)
CONSTANTS Agents,      \* threads
          Cells,       \* addresses in shared memory
          MaxStores    \* bound on the stores

VARIABLES
    cell,       \* the value at each address
    waiters,    \* js_atomics_waiter_list, as agents
    where,      \* waiter->ptr of each agent
    expect,     \* the value it found there
    agent,      \* "run", "sleep", "signalled", "expired", "spurious"
    timed,      \* the agent's wait has a finite timeout
    counted,    \* history: its wait was counted by a notify
    stores,
    noted       \* history: all were notified since the last store to the cell

waitVars == <<cell, waiters, where, expect, agent, timed, counted, stores, noted>>

AnyCell == CHOOSE a \in Cells : TRUE

WaitInit ==
    /\ cell = [a \in Cells |-> 0]
    /\ waiters = <<>>
    /\ where = [t \in Agents |-> AnyCell]
    /\ expect = [t \in Agents |-> 0]
    /\ agent = [t \in Agents |-> "run"]
    /\ timed = [t \in Agents |-> FALSE]
    /\ counted = [t \in Agents |-> FALSE]
    /\ stores = 0
    /\ noted = [a \in Cells |-> TRUE]

Linked(t) == \E i \in DOMAIN waiters : waiters[i] = t

(* js_atomics_wait up to pthread_cond_wait.  A timeout of 0 still links    *)
(* and waits.                                                              *)
js_atomics_wait(t, a, v, finite) ==
    /\ agent[t] = "run"
    /\ IF cell[a] # v
       THEN UNCHANGED <<waiters, where, expect, agent, timed>>
       ELSE /\ waiters' = Append(waiters, t)
            /\ where' = [where EXCEPT ![t] = a]
            /\ expect' = [expect EXCEPT ![t] = v]
            /\ agent' = [agent EXCEPT ![t] = "sleep"]
            /\ timed' = [timed EXCEPT ![t] = finite]
    /\ UNCHANGED <<cell, counted, stores, noted>>

(* The sleep ends without a signal; the mutex is yet to be taken again.    *)
Expire(t) ==
    /\ agent[t] = "sleep" /\ timed[t]
    /\ agent' = [agent EXCEPT ![t] = "expired"]
    /\ UNCHANGED <<cell, waiters, where, expect, timed, counted, stores, noted>>

WakeSpuriously(t) ==
    /\ agent[t] = "sleep"
    /\ agent' = [agent EXCEPT ![t] = "spurious"]
    /\ UNCHANGED <<cell, waiters, where, expect, timed, counted, stores, noted>>

(* Mutant: a waiter that woke by itself stays in the list.                 *)
MutResume(t) ==
    /\ agent[t] \in {"signalled", "expired", "spurious"}
    /\ agent' = [agent EXCEPT ![t] = "run"]
    /\ where' = [where EXCEPT ![t] = AnyCell]
    /\ expect' = [expect EXCEPT ![t] = 0]
    /\ timed' = [timed EXCEPT ![t] = FALSE]
    /\ counted' = [counted EXCEPT ![t] = FALSE]
    /\ UNCHANGED <<cell, waiters, stores, noted>>

(* js_atomics_wait after the wait, mutex held again: it answers            *)
(* "timed-out" if the time was up and "ok" otherwise, counted or not.      *)
Resume(t) ==
    /\ agent[t] \in {"signalled", "expired", "spurious"}
    /\ waiters' = SelectSeq(waiters, LAMBDA u : u # t)
    /\ agent' = [agent EXCEPT ![t] = "run"]
    /\ where' = [where EXCEPT ![t] = AnyCell]
    /\ expect' = [expect EXCEPT ![t] = 0]
    /\ timed' = [timed EXCEPT ![t] = FALSE]
    /\ counted' = [counted EXCEPT ![t] = FALSE]
    /\ UNCHANGED <<cell, stores, noted>>

(* js_atomics_store; bounded.                                              *)
js_atomics_store(t, a) ==
    /\ agent[t] = "run" /\ stores < MaxStores
    /\ cell' = [cell EXCEPT ![a] = 1 - @]
    /\ stores' = stores + 1
    /\ noted' = [noted EXCEPT ![a] = FALSE]
    /\ UNCHANGED <<waiters, where, expect, agent, timed, counted>>

(* The positions of the first count waiters at address a.                  *)
Chosen(a, count) ==
    {i \in DOMAIN waiters :
        /\ where[waiters[i]] = a
        /\ Cardinality({j \in 1..(i - 1) : where[waiters[j]] = a}) < count}

(* js_atomics_notify of at most count waiters, one critical section.  A    *)
(* waiter that woke by itself but has not got the mutex is still linked:   *)
(* it is counted, and its signal goes nowhere.                             *)
js_atomics_notify(t, a, count) ==
    LET woken == {waiters[i] : i \in Chosen(a, count)}
    IN  /\ agent[t] = "run"
        /\ waiters' = SelectSeq(waiters, LAMBDA u : u \notin woken)
        /\ agent' = [u \in Agents |-> IF u \in woken /\ agent[u] = "sleep" THEN "signalled"
                                      ELSE agent[u]]
        /\ counted' = [u \in Agents |-> counted[u] \/ u \in woken]
        /\ noted' = [noted EXCEPT ![a] = @ \/ count >= Cardinality(Agents)]
        /\ UNCHANGED <<cell, where, expect, timed, stores>>

WaitNext == \E t \in Agents :
    \/ Expire(t) \/ WakeSpuriously(t) \/ Resume(t)
    \/ \E a \in Cells :
          \/ \E v \in {0, 1}, finite \in BOOLEAN : js_atomics_wait(t, a, v, finite)
          \/ js_atomics_store(t, a)
          \/ \E count \in {1, Cardinality(Agents)} : js_atomics_notify(t, a, count)

WaitSpec == WaitInit /\ [][WaitNext]_waitVars

(***************************************************************************)
(* Properties.                                                             *)
(***************************************************************************)
(* The list holds the waiters that are asleep, or awake again without      *)
(* having been counted, each once; and no waiter that has returned, whose  *)
(* record was on its stack.                                                *)
WaitersExact ==
    /\ \A i, j \in DOMAIN waiters : waiters[i] = waiters[j] => i = j
    /\ \A t \in Agents : Linked(t) <=> agent[t] # "run" /\ ~counted[t]
    /\ \A t \in Agents : agent[t] = "sleep" => ~counted[t]

(* No wakeup is lost between the comparison and the sleep: once all        *)
(* waiters at an address have been notified after the last store there,    *)
(* nobody sleeps on the old value.                                         *)
NobodySleepsOnOldValue ==
    \A a \in Cells, t \in Agents :
        noted[a] /\ agent[t] = "sleep" /\ where[t] = a => expect[t] = cell[a]
====
