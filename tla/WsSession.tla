------------------------------- MODULE WsSession -------------------------------
(***************************************************************************)
(* One websocket session between the host and its Ethereum node            *)
(* (libweb3client, session.cpp).                                           *)
(*                                                                         *)
(* Three threads meet here.  The host's thread sends requests: it tests    *)
(* the connection, enters the callback in m_callBacks and posts the buffer *)
(* to the io thread.  The io thread writes the queue, reads the answers,   *)
(* serves the timers and drops the session on an error.  The pool thread   *)
(* runs the callbacks.  Request 0 is the handshake, which the io thread    *)
(* sends from the connect handler.                                         *)
(***************************************************************************)
EXTENDS WsRequests, Sequences, FiniteSets

VARIABLES
  started,     \* WsSession.start has run
  open,        \* the stream is open; once it is not, reads fail
  m_isDrop,
  dropping,    \* the io thread is between the two halves of drop
  removed,     \* the disconnect handler has run: the service forgets the session
  m_callBacks, \* request whose callback waits under an id, NoRequest for none
  timer,       \* "none", "armed", or "due": expired, its handler is queued
  posted,      \* on_write handlers on the stream's strand
  m_queue,
  writing,     \* an async_write is outstanding
  reading,     \* an async_read is outstanding
  wire,        \* requests the node has and has not answered
  tasks,        \* tasks of the thread pool, in order
  sending,     \* where the host's thread is in async_send_message
  next,        \* the request it sends, or sends next
  calls,       \* how often each callback has been called
  got,         \* the request whose answer a callback was called with
  ended,     \* "no", or why the process has ended
  order,       \* history: requests in the order they were posted
  written,     \* history: requests in the order they were written
  registered,  \* history: requests whose callback was entered
  reused,      \* history: an id was given out while it was still in use
  expired      \* history: requests whose timer has run out

session == <<started, open, m_isDrop, dropping, removed>>
queues == <<posted, m_queue, writing, wire, order, written>>
callbacks == <<m_callBacks, timer, registered, reused, expired>>
results == <<calls, got, ended>>
sessionVars == <<session, queues, callbacks, results, reading, tasks, sending, next>>

SessionInit ==
  /\ started = FALSE /\ open = TRUE /\ m_isDrop = FALSE
  /\ dropping = FALSE /\ removed = FALSE
  /\ m_callBacks = [i \in Ids |-> NoRequest]
  /\ timer = [r \in Requests |-> "none"]
  /\ posted = <<>> /\ m_queue = <<>> /\ writing = FALSE /\ reading = FALSE
  /\ wire = {} /\ tasks = <<>>
  /\ sending = "idle" /\ next = 1
  /\ calls = [r \in Requests |-> 0] /\ got = [r \in Requests |-> NoRequest]
  /\ ended = "no"
  /\ order = <<>> /\ written = <<>> /\ registered = {}
  /\ reused = FALSE /\ expired = {}

is_connected == ~m_isDrop /\ open

-------------------------------------------------------------------------------
(***************************************************************************)
(* The callbacks.  The handshake's callback drops the session on an error, *)
(* which happens only when it is dropped already.  The callback that       *)
(* init_jsonrpc wraps around every other request asks the message for its  *)
(* error first; with an error code there is no message, and the process    *)
(* dies of the null pointer.                                               *)
(***************************************************************************)
respCallback(r, answer) ==
  /\ calls' = [calls EXCEPT ![r] = @ + 1]
  /\ got' = [got EXCEPT ![r] = answer]
  /\ ended' = IF answer = NoRequest /\ r # 0 THEN "null_message" ELSE ended

Task(kind, r, answer) == [kind |-> kind, request |-> r, answer |-> answer]

(***************************************************************************)
(* async_send_message on the host's thread, in three steps between which   *)
(* the other threads run: the tests, add_resp_callback with its timer, the *)
(* post.  The timers (10 s and more) outlast the steps.                    *)
(***************************************************************************)
send_check ==
  /\ sending = "idle" /\ next \in 1..MaxRequest /\ ~removed
  /\ IF is_connected /\ next \notin Large
     THEN sending' = "checked" /\ UNCHANGED <<results, next>>
     ELSE respCallback(next, NoRequest) /\ next' = next + 1 /\ UNCHANGED sending
  /\ UNCHANGED <<session, queues, callbacks, reading, tasks>>

\* an earlier request has r's id, and its answer or its timer is still to come
InUse(r) ==
  \E q \in registered :
     /\ Id(q) = Id(r) /\ q # r
     /\ \/ q \in wire \/ timer[q] # "none"
        \/ \E i \in 1..Len(m_queue \o posted) : (m_queue \o posted)[i] = q

add_resp_callback(r) ==
  /\ m_callBacks' = [m_callBacks EXCEPT ![Id(r)] = r]
  /\ timer' = [timer EXCEPT ![r] = "armed"]
  /\ registered' = registered \cup {r} /\ reused' = (reused \/ InUse(r))
  /\ UNCHANGED expired

send_register ==
  /\ sending = "checked"
  /\ add_resp_callback(next)
  /\ sending' = "added"
  /\ UNCHANGED <<session, queues, results, reading, tasks, next>>

post(r) == posted' = Append(posted, r) /\ order' = Append(order, r)

send_post ==
  /\ sending = "added"
  /\ post(next)
  /\ sending' = "idle" /\ next' = next + 1
  /\ UNCHANGED <<session, m_queue, writing, wire, written, callbacks, results,
                 reading, tasks>>

-------------------------------------------------------------------------------
(***************************************************************************)
(* drop, on the io thread.  The callbacks are called and then cleared      *)
(* under two locks.  A timer that has expired cannot be cancelled.         *)
(***************************************************************************)
Waiting == {r \in Requests : m_callBacks[Id(r)] = r}

Cancelled(S) == [r \in Requests |-> IF r \in S /\ timer[r] = "armed" THEN "none"
                                                                     ELSE timer[r]]

\* the tasks for the waiting callbacks, in the order the unordered_map has
Orders(S) == {f \in UNION {[1..n -> S] : n \in 0..NoRequest} :
                /\ \A i, j \in DOMAIN f : f[i] = f[j] => i = j
                /\ \A r \in S : \E i \in DOMAIN f : f[i] = r}

drop_call ==
  /\ m_isDrop' = TRUE /\ dropping' = TRUE
  /\ timer' = Cancelled(Waiting)
  /\ \E f \in Orders(Waiting) :
        tasks' = tasks \o [i \in DOMAIN f |-> Task("error", f[i], NoRequest)]
  /\ UNCHANGED <<m_callBacks, registered, reused, expired>>

drop_clear ==
  /\ dropping
  /\ dropping' = FALSE /\ open' = FALSE
  /\ m_callBacks' = [i \in Ids |-> NoRequest]
  /\ tasks' = Append(tasks, Task("disconnect", 0, NoRequest))
  /\ UNCHANGED <<started, m_isDrop, removed, queues, timer, registered, reused,
                 expired, results, reading, sending, next>>

(***************************************************************************)
(* start, on a stream that has just been opened: on_connect makes the      *)
(* session the service's, so that the host may send at once, and sends the *)
(* handshake.  No other handler of the io thread runs before it.           *)
(***************************************************************************)
start_session ==
  /\ ~started
  /\ started' = TRUE
  /\ add_resp_callback(0) /\ post(0) /\ reading' = TRUE
  /\ UNCHANGED <<open, m_isDrop, dropping, removed, results, tasks, m_queue, writing,
                 wire, written, sending, next>>

IoFree == started /\ ~dropping

(***************************************************************************)
(* Writing: on_write starts a write if the queue was empty, on_write_packet *)
(* the next one.  Both call async_write, which does nothing once the       *)
(* connection is gone.                                                     *)
(***************************************************************************)
on_write ==
  /\ posted # <<>> /\ IoFree
  /\ posted' = Tail(posted)
  /\ m_queue' = Append(m_queue, Head(posted))
  /\ writing' = IF m_queue = <<>> THEN is_connected ELSE writing
  /\ UNCHANGED <<session, wire, order, written, callbacks, results, reading, tasks,
                 sending, next>>

\* [mutant of on_write_packet] the next message is not written
OnWritePacketStops ==
  /\ writing /\ IoFree
  /\ m_queue' = Tail(m_queue) /\ writing' = FALSE
  /\ wire' = wire \cup {Head(m_queue)} /\ written' = Append(written, Head(m_queue))
  /\ UNCHANGED <<session, posted, order, callbacks, results, reading, tasks, sending,
                 next>>

on_write_packet ==
  /\ writing /\ IoFree
  /\ m_queue' = Tail(m_queue)
  /\ writing' = (Tail(m_queue) # <<>> /\ is_connected)
  /\ wire' = wire \cup {Head(m_queue)} /\ written' = Append(written, Head(m_queue))
  /\ UNCHANGED <<session, posted, order, callbacks, results, reading, tasks, sending,
                 next>>

write_error ==
  /\ writing /\ ~open /\ IoFree
  /\ writing' = FALSE
  /\ IF m_isDrop THEN UNCHANGED <<session, callbacks, tasks>>
                 ELSE drop_call /\ UNCHANGED <<started, open, removed>>
  /\ UNCHANGED <<posted, m_queue, wire, order, written, results, reading, sending, next>>

(***************************************************************************)
(* Reading: the answer's id finds a callback, which goes to the pool with  *)
(* the answer.                                                             *)
(***************************************************************************)
\* [mutant of response_callback] the entry is found and not erased
CallbackKept(id) == UNCHANGED m_callBacks

response_callback(id) == m_callBacks' = [m_callBacks EXCEPT ![id] = NoRequest]

\* [mutant of on_read] answers are taken to come in the order of the map
OnReadAny(r) ==
  /\ reading /\ open /\ IoFree
  /\ r \in wire /\ wire' = wire \ {r}
  /\ \E i \in Ids :
        /\ m_callBacks[i] # NoRequest
        /\ response_callback(i)
        /\ tasks' = Append(tasks, Task("answer", m_callBacks[i], r))
  /\ reading' = is_connected
  /\ UNCHANGED <<session, posted, m_queue, writing, order, written, timer, registered,
                 reused, expired, results, sending, next>>

on_read(r) ==
  /\ reading /\ open /\ IoFree
  /\ r \in wire /\ wire' = wire \ {r}
  /\ response_callback(Id(r))
  /\ tasks' = Append(tasks, Task(IF m_callBacks[Id(r)] = NoRequest THEN "unknown"
                                ELSE "answer", m_callBacks[Id(r)], r))
  /\ reading' = is_connected
  /\ UNCHANGED <<session, posted, m_queue, writing, order, written, timer, registered,
                 reused, expired, results, sending, next>>

read_error ==
  /\ reading /\ ~open /\ IoFree
  /\ reading' = FALSE
  /\ IF m_isDrop THEN UNCHANGED <<session, callbacks, tasks>>
                 ELSE drop_call /\ UNCHANGED <<started, open, removed>>
  /\ UNCHANGED <<queues, results, sending, next>>

(***************************************************************************)
(* Timers.  on_response_timeout returns when it finds the callback, and    *)
(* enqueues the null pointer when it does not.                             *)
(***************************************************************************)
expire(r) ==
  /\ timer[r] = "armed" /\ Cardinality(expired) < MaxTimeouts
  /\ timer' = [timer EXCEPT ![r] = "due"]
  /\ expired' = expired \cup {r}
  /\ UNCHANGED <<session, queues, m_callBacks, registered, reused, results, reading,
                 tasks, sending, next>>

on_response_timeout(r) ==
  /\ timer[r] = "due" /\ IoFree
  /\ timer' = [timer EXCEPT ![r] = "none"]
  /\ response_callback(Id(r))
  /\ IF m_callBacks[Id(r)] # NoRequest
     THEN UNCHANGED tasks
     ELSE tasks' = Append(tasks, Task("null", r, NoRequest))
  /\ UNCHANGED <<session, queues, registered, reused, expired, results, reading,
                 sending, next>>

-------------------------------------------------------------------------------
(***************************************************************************)
(* The pool thread.  The session has no handler for messages nobody waits  *)
(* for: calling the empty function ends the process, as does calling a     *)
(* null callback.                                                          *)
(***************************************************************************)
run_task ==
  /\ tasks # <<>>
  /\ tasks' = Tail(tasks)
  /\ LET task == Head(tasks)
     IN  \/ /\ task.kind = "answer"
            /\ timer' = Cancelled({task.request})
            /\ respCallback(task.request, task.answer)
            /\ UNCHANGED removed
         \/ /\ task.kind = "error"
            /\ respCallback(task.request, NoRequest)
            /\ UNCHANGED <<timer, removed>>
         \/ /\ task.kind \in {"unknown", "null"}
            /\ ended' = task.kind
            /\ UNCHANGED <<calls, got, timer, removed>>
         \/ /\ task.kind = "disconnect"
            /\ removed' = TRUE
            /\ UNCHANGED <<results, timer>>
  /\ UNCHANGED <<started, open, m_isDrop, dropping, queues, m_callBacks, registered,
                 reused, expired, reading, sending, next>>

\* The host's thread holds no reference: the session it sends on may be gone.
send_dangling ==
  /\ sending # "idle" /\ removed
  /\ ended' = "dangling"
  /\ UNCHANGED <<session, queues, callbacks, calls, got, reading, tasks, sending, next>>

\* the connection is lost, and the stream has noticed
lose ==
  /\ Closes /\ open /\ started
  /\ open' = FALSE
  /\ UNCHANGED <<started, m_isDrop, dropping, removed, queues, callbacks, results,
                 reading, tasks, sending, next>>

SendStep == send_check \/ send_register \/ send_post \/ send_dangling

IoStep ==
  \/ start_session \/ drop_clear \/ on_write \/ on_write_packet \/ write_error \/ read_error
  \/ \E r \in Requests : on_response_timeout(r)

NodeStep == \E r \in Requests : on_read(r)

SessionNext ==
  /\ ended = "no"
  /\ \/ SendStep \/ IoStep \/ NodeStep \/ run_task \/ lose
     \/ \E r \in Requests : expire(r)

SessionSpec == SessionInit /\ [][SessionNext]_sessionVars

(***************************************************************************)
(* The threads go on running and the node answers what it received.  The   *)
(* host finishes a request it has begun and need not begin another.        *)
(***************************************************************************)
FairSession ==
  /\ SessionSpec
  /\ WF_sessionVars(ended = "no" /\ (send_register \/ send_post)) /\ WF_sessionVars(ended = "no" /\ IoStep)
  /\ WF_sessionVars(ended = "no" /\ NodeStep) /\ WF_sessionVars(ended = "no" /\ run_task)

-------------------------------------------------------------------------------
Tasks == [kind : {"answer", "error", "unknown", "null", "disconnect"},
          request : 0..NoRequest, answer : 0..NoRequest]

SessionTypeOK ==
  /\ started \in BOOLEAN /\ open \in BOOLEAN /\ m_isDrop \in BOOLEAN
  /\ dropping \in BOOLEAN /\ removed \in BOOLEAN /\ writing \in BOOLEAN
  /\ reading \in BOOLEAN /\ reused \in BOOLEAN
  /\ m_callBacks \in [Ids -> 0..NoRequest]
  /\ timer \in [Requests -> {"none", "armed", "due"}]
  /\ posted \in Seq(Requests) /\ m_queue \in Seq(Requests)
  /\ order \in Seq(Requests) /\ written \in Seq(Requests)
  /\ tasks \in Seq(Tasks)
  /\ wire \subseteq Requests /\ registered \subseteq Requests
  /\ expired \subseteq Requests
  /\ sending \in {"idle", "checked", "added"} /\ next \in 1..NoRequest
  /\ calls \in [Requests -> Nat] /\ got \in [Requests -> 0..NoRequest]
  /\ ended \in {"no", "null_message", "unknown", "null", "dangling"}

(***************************************************************************)
(* A callback is called at most once, although answers, timers, the drop   *)
(* of the session and the next request with the same id all take callbacks *)
(* from one map (response_callback, drop).                                 *)
(***************************************************************************)
CalledOnce == \A r \in Requests : calls[r] <= 1

(***************************************************************************)
(* A callback that is called with an answer is called with its own, as     *)
(* long as the 16 bit ids do not come round while they are in use          *)
(* (on_read_packet, next_id): a late answer, a cleared map or a timer never *)
(* hands it to the next request that has the id.                           *)
(***************************************************************************)
AnswerIsOwn == ~reused => \A r \in Requests : got[r] \in {r, NoRequest}

(***************************************************************************)
(* Messages are written one at a time, each once, in the order they were   *)
(* posted: the stream has a write outstanding exactly when something is    *)
(* queued, until the connection is lost (on_write, on_write_packet).       *)
(***************************************************************************)
WritesInOrder ==
  /\ written \o m_queue \o posted = order
  /\ writing => m_queue # <<>>
  /\ is_connected /\ m_queue # <<>> => writing

(***************************************************************************)
(* While the session is up, the ids are not used up and its timer has not  *)
(* run out, no request is forgotten: its callback waits in the map, is on  *)
(* its way to the pool thread, or was called.                              *)
(***************************************************************************)
NoneForgotten ==
  ~m_isDrop /\ ~reused => \A r \in registered \ expired :
     \/ m_callBacks[Id(r)] = r
     \/ calls[r] = 1
     \/ \E i \in 1..Len(tasks) : tasks[i].request = r

(***************************************************************************)
(* The service is told of a lost session once, by a task that drop leaves  *)
(* in the pool.                                                            *)
(***************************************************************************)
Disconnects == {i \in 1..Len(tasks) : tasks[i].kind = "disconnect"}

DisconnectOnce ==
  /\ \A i, j \in Disconnects : i = j
  /\ removed => Disconnects = {}
  /\ m_isDrop /\ ~dropping <=> removed \/ Disconnects # {}

(***************************************************************************)
(* Every request whose callback is entered is answered with its own answer, *)
(* unless the connection is lost, a timer runs out, an id comes round in   *)
(* use, or a request that is too large ends the process.                   *)
(***************************************************************************)
Excused == ~open \/ expired # {} \/ reused \/ (next - 1 \in Large /\ ended # "no")

Answered ==
  \A r \in Requests : r \in registered ~> got[r] = r \/ Excused

-------------------------------------------------------------------------------
(* What the code says of itself and does not do.                           *)

(***************************************************************************)
(* client.cpp:122 hands on the error "_msg ? _msg->result() : nullptr": a  *)
(* callback called without a message reports the error.                    *)
(***************************************************************************)
ErrorsAreReported == ended # "null_message"

(***************************************************************************)
(* session.cpp:293: a request whose time has run out gets the error        *)
(* "waiting for message response timed out".                               *)
(***************************************************************************)
TimeoutIsReported ==
  \A r \in expired : timer[r] = "none" =>
     calls[r] = 1 \/ \E i \in 1..Len(tasks) : tasks[i].request = r

(***************************************************************************)
(* session.cpp:38: every request of a session that is dropped gets the     *)
(* error "the session has been disconnected".                              *)
(***************************************************************************)
DropReportsAll ==
  m_isDrop /\ ~dropping => \A r \in registered :
     calls[r] = 1 \/ \E i \in 1..Len(tasks) : tasks[i].request = r
===============================================================================
