---------------------------- MODULE WsSessionProofs ----------------------------
(***************************************************************************)
(* Proofs about WsSession, for any number of requests, ids and timers, any *)
(* set of requests that are too large, and every interleaving of the three *)
(* threads.                                                                *)
(***************************************************************************)
EXTENDS WsSession, TLAPS

(***************************************************************************)
(* The inductive invariant.  What is to be shown is about callbacks that   *)
(* were called; it follows from where the callbacks still to be called     *)
(* are: in the map, or with a task of the pool, and never in two places    *)
(* once drop has cleared the map.                                          *)
(***************************************************************************)
Calling(t) == t.kind \in {"answer", "error"}
HasTask(r) == \E i \in 1..Len(tasks) : Calling(tasks[i]) /\ tasks[i].request = r

\* Requests that have not been entered in m_callBacks.
Unsent(r) == IF r = 0 THEN ~started ELSE r > next \/ (r = next /\ sending # "added")

\* Before start only the host's thread has anything to do.
NotStarted ==
  ~started =>
     /\ tasks = <<>> /\ m_queue = <<>> /\ wire = {}
     /\ ~m_isDrop /\ ~dropping /\ ~removed /\ ~writing /\ ~reading
     /\ \A r \in registered : timer[r] # "none"

\* A task to call a callback is the only one, and takes it out of the map.
Owed ==
  /\ \A r \in Requests : HasTask(r) => calls[r] = 0
  /\ \A i, j \in 1..Len(tasks) :
        Calling(tasks[i]) /\ Calling(tasks[j]) /\ tasks[i].request = tasks[j].request => i = j
  /\ ~dropping => \A r \in Requests :
        m_callBacks[Id(r)] = r => calls[r] = 0 /\ ~HasTask(r)
  /\ \A i \in Ids : m_callBacks[i] \in Requests => Id(m_callBacks[i]) = i
  /\ \A r \in Requests : Unsent(r) =>
        calls[r] = 0 /\ ~HasTask(r) /\ r \notin registered /\ m_callBacks[Id(r)] # r

\* What each kind of task says of its request and of the session.
Tasked ==
  \A i \in 1..Len(tasks) :
     /\ Calling(tasks[i]) => tasks[i].request \in Requests
     /\ tasks[i].kind \in {"error", "disconnect"} => m_isDrop
     /\ tasks[i].kind = "unknown" => tasks[i].request = NoRequest
     /\ tasks[i].kind = "null" => tasks[i].request \in expired

\* Requests whose answer or whose timer is still to come.
InFlight(q) ==
  \/ q \in wire \/ timer[q] # "none"
  \/ \E i \in 1..Len(m_queue) : m_queue[i] = q
  \/ \E i \in 1..Len(posted) : posted[i] = q
  \/ sending = "added" /\ q = next

Known ==
  /\ \A q \in Requests : InFlight(q) => q \in registered
  /\ \A q \in Requests : timer[q] = "due" => q \in expired

\* As long as no id was given out in use, an answer or a timer finds the callback
\* of its own request under its id, or none.
Own ==
  ~reused =>
     /\ \A r \in Requests : got[r] \in {r, NoRequest}
     /\ \A i \in 1..Len(tasks) : tasks[i].kind = "answer" => tasks[i].answer = tasks[i].request
     /\ \A q \in Requests : InFlight(q) => m_callBacks[Id(q)] \in {q, NoRequest}

\* A timer is cancelled only by the answer.
Kept ==
  ~m_isDrop => \A r \in registered \ expired : timer[r] = "none" => calls[r] = 1

\* The host's thread is in async_send_message with one of the requests.
Sends == sending # "idle" => next \in Requests

Dropped == DisconnectOnce /\ (dropping => m_isDrop)

IInv ==
  /\ SessionTypeOK /\ Sends /\ NotStarted /\ Owed /\ Tasked /\ Known /\ Own /\ Kept /\ Dropped
  /\ CalledOnce /\ WritesInOrder /\ NoneForgotten

-------------------------------------------------------------------------------
(* Sequences. *)

\* The length and the positions of a sequence.
LEMMA SeqLength ==
  ASSUME NEW S, NEW q \in Seq(S)
  PROVE  Len(q) \in Nat /\ q \in [1..Len(q) -> S] /\ DOMAIN q = 1..Len(q)
OBVIOUS

\* The empty sequence is the one without positions.
LEMMA EmptySequence ==
  ASSUME NEW S
  PROVE  <<>> \in Seq(S) /\ Len(<<>>) = 0 /\ \A q \in Seq(S) : q # <<>> => Len(q) \in Nat \ {0}
OBVIOUS

\* What push_back does.
LEMMA Appended ==
  ASSUME NEW S, NEW q \in Seq(S), NEW e \in S
  PROVE  /\ Append(q, e) \in Seq(S) /\ Append(q, e) # <<>> /\ Len(Append(q, e)) = Len(q) + 1
         /\ Append(q, e)[Len(q) + 1] = e /\ \A i \in 1..Len(q) : Append(q, e)[i] = q[i]
OBVIOUS

\* Concatenation, by position.
LEMMA Concatenated ==
  ASSUME NEW S, NEW p \in Seq(S), NEW q \in Seq(S)
  PROVE  /\ p \o q \in Seq(S) /\ Len(p \o q) = Len(p) + Len(q)
         /\ \A i \in 1..(Len(p) + Len(q)) : (p \o q)[i] = IF i <= Len(p) THEN p[i] ELSE q[i - Len(p)]
OBVIOUS

\* What front and pop_front do.
LEMMA HeadAndTail ==
  ASSUME NEW S, NEW q \in Seq(S), q # <<>>
  PROVE  /\ Head(q) = q[1] /\ Head(q) \in S /\ Tail(q) \in Seq(S) /\ Len(Tail(q)) = Len(q) - 1
         /\ \A i \in 1..Len(Tail(q)) : Tail(q)[i] = q[i + 1]
OBVIOUS

\* Sequences that agree at every position are equal.
LEMMA SameSequence ==
  ASSUME NEW S, NEW p \in Seq(S), NEW q \in Seq(S), Len(p) = Len(q),
         \A i \in 1..Len(p) : p[i] = q[i]
  PROVE  p = q
OBVIOUS

-------------------------------------------------------------------------------
(* Requests, ids and tasks. *)

\* Requests are numbered, and each has an id.
LEMMA Numbers ==
  /\ MaxRequest \in Nat /\ NoRequest \in Nat /\ NoRequest \notin Requests
  /\ Requests \subseteq 0..NoRequest /\ 0 \in Requests
  /\ \A r \in Requests : Id(r) \in Ids
<1>1. \A n, d \in Nat : d # 0 => n % d \in 0..(d - 1)  OBVIOUS
<1> QED  BY <1>1, RequestsAssumption DEF Requests, NoRequest, Id, Ids

\* What the session posts to the pool is a task.
LEMMA TaskType ==
  ASSUME NEW kind \in {"answer", "error", "unknown", "null", "disconnect"},
         NEW r \in 0..NoRequest, NEW a \in 0..NoRequest
  PROVE  Task(kind, r, a) \in Tasks
BY DEF Task, Tasks

(* drop puts one task for each waiting callback behind what the pool holds. *)
LEMMA DropPool ==
  ASSUME SessionTypeOK, drop_call
  PROVE  \E n \in Nat : \E f \in [1..n -> Waiting] :
           /\ \A i, j \in 1..n : f[i] = f[j] => i = j
           /\ tasks' \in Seq(Tasks) /\ Len(tasks') = Len(tasks) + n
           /\ \A i \in 1..Len(tasks) : tasks'[i] = tasks[i]
           /\ \A i \in 1..n : tasks'[Len(tasks) + i] = Task("error", f[i], NoRequest)
<1>1. PICK f \in Orders(Waiting) :
        tasks' = tasks \o [i \in DOMAIN f |-> Task("error", f[i], NoRequest)]
  BY Zenon DEF drop_call
<1>2. PICK n \in Nat : f \in [1..n -> Waiting]
  BY Numbers DEF Orders
<1>3. \A i, j \in 1..n : f[i] = f[j] => i = j
  BY <1>2, Zenon DEF Orders
<1> DEFINE e == [i \in 1..n |-> Task("error", f[i], NoRequest)]
<1>4. tasks \in Seq(Tasks) /\ tasks' = tasks \o e  BY <1>1, <1>2, Zenon DEF SessionTypeOK
<1>5. \A i \in 1..n : Task("error", f[i], NoRequest) \in Tasks
  <2>1. \A i \in 1..n : f[i] \in 0..NoRequest  BY <1>2, Numbers, Zenon DEF Waiting
  <2>2. NoRequest \in 0..NoRequest  BY Numbers
  <2> QED  BY <2>1, <2>2, TaskType, Zenon
<1>6. e \in Seq(Tasks) /\ Len(e) = n  BY <1>5
<1>7. \A i \in 1..n : e[i] = Task("error", f[i], NoRequest)  OBVIOUS
<1> HIDE DEF e
<1>8. tasks' \in Seq(Tasks) /\ Len(tasks') = Len(tasks) + n  BY <1>4, <1>6, Concatenated, Zenon
<1>9. \A i \in 1..Len(tasks') :
        tasks'[i] = IF i <= Len(tasks) THEN tasks[i] ELSE e[i - Len(tasks)]
  BY <1>4, <1>6, Concatenated
<1>10. Len(tasks) \in Nat  BY <1>4, SeqLength, Zenon
<1>11. \A i \in 1..Len(tasks) : tasks'[i] = tasks[i]  BY <1>8, <1>9, <1>10
<1>12. \A i \in 1..n : tasks'[Len(tasks) + i] = Task("error", f[i], NoRequest)
  BY <1>7, <1>8, <1>9, <1>10, SMTT(40)
<1> QED  BY <1>2, <1>3, <1>8, <1>11, <1>12, Zenon

-------------------------------------------------------------------------------
(* Types. *)

\* A new session has its types.
LEMMA InitType == SessionInit => SessionTypeOK
<1> SUFFICES ASSUME SessionInit PROVE SessionTypeOK  OBVIOUS
<1>1. \A S : <<>> \in Seq(S)  OBVIOUS
<1> QED  BY <1>1, Numbers DEF SessionInit, SessionTypeOK

(* Calling a callback counts the call and keeps its answer. *)
LEMMA RespType ==
  ASSUME SessionTypeOK, NEW r \in Requests, NEW a \in 0..NoRequest, respCallback(r, a)
  PROVE  /\ calls' \in [Requests -> Nat] /\ got' \in [Requests -> 0..NoRequest]
         /\ ended' \in {"no", "null_message", "unknown", "null", "dangling"}
<1>1. calls \in [Requests -> Nat] /\ calls[r] + 1 \in Nat  BY DEF SessionTypeOK
<1>2. calls' \in [Requests -> Nat]  BY <1>1 DEF respCallback
<1>3. got' \in [Requests -> 0..NoRequest]  BY Zenon DEF SessionTypeOK, respCallback
<1> QED  BY <1>2, <1>3, Zenon DEF SessionTypeOK, respCallback

(* The pool thread runs the first task: by its kind, what the step does. *)
LEMMA TaskStep ==
  ASSUME SessionTypeOK, Tasked, run_task
  PROVE  /\ tasks # <<>> /\ tasks[1] \in Tasks /\ 1 \in 1..Len(tasks)
         /\ tasks' \in Seq(Tasks) /\ Len(tasks') = Len(tasks) - 1
         /\ \A i \in 1..Len(tasks') : tasks'[i] = tasks[i + 1]
         /\ \/ /\ tasks[1].kind = "answer" /\ tasks[1].request \in Requests
               /\ timer' = Cancelled({tasks[1].request})
               /\ respCallback(tasks[1].request, tasks[1].answer)
               /\ UNCHANGED removed
            \/ /\ tasks[1].kind = "error" /\ tasks[1].request \in Requests
               /\ respCallback(tasks[1].request, NoRequest)
               /\ UNCHANGED <<timer, removed>>
            \/ /\ tasks[1].kind \in {"unknown", "null"}
               /\ ended' = tasks[1].kind
               /\ UNCHANGED <<calls, got, timer, removed>>
            \/ /\ tasks[1].kind = "disconnect"
               /\ removed' = TRUE
               /\ UNCHANGED <<calls, got, ended, timer>>
<1>1. tasks \in Seq(Tasks) /\ tasks # <<>> /\ tasks' = Tail(tasks)  BY Zenon
                                                                       DEF SessionTypeOK, run_task
<1>2. Len(tasks) \in Nat /\ Len(tasks) # 0  BY <1>1, SeqLength, EmptySequence, Zenon
<1>3. Head(tasks) = tasks[1] /\ tasks[1] \in Tasks  BY <1>1, HeadAndTail, Zenon
<1>4. /\ tasks' \in Seq(Tasks) /\ Len(tasks') = Len(tasks) - 1
      /\ \A i \in 1..Len(tasks') : tasks'[i] = tasks[i + 1]
  BY <1>1, HeadAndTail, Zenon
<1>5. Calling(tasks[1]) => tasks[1].request \in Requests  BY <1>2 DEF Tasked
<1>6. 1 \in 1..Len(tasks)  BY <1>2
<1> DEFINE t == Head(tasks)
<1>7. \/ /\ t.kind = "answer" /\ timer' = Cancelled({t.request})
         /\ respCallback(t.request, t.answer) /\ removed' = removed
      \/ t.kind = "error" /\ respCallback(t.request, NoRequest) /\ timer' = timer /\ removed' = removed
      \/ /\ t.kind \in {"unknown", "null"} /\ ended' = t.kind
         /\ calls' = calls /\ got' = got /\ timer' = timer /\ removed' = removed
      \/ /\ t.kind = "disconnect" /\ removed' = TRUE
         /\ calls' = calls /\ got' = got /\ ended' = ended /\ timer' = timer
  BY Zenon DEF run_task, results
<1>8. t = tasks[1]  BY <1>3
<1> HIDE DEF t
<1> QED  BY <1>1, <1>3, <1>4, <1>5, <1>6, <1>7, <1>8, Zenon DEF Calling

\* Every handler of the session keeps the types.
LEMMA TypeStep == SessionTypeOK /\ Sends /\ Tasked /\ WritesInOrder /\ [SessionNext]_sessionVars => SessionTypeOK'
<1> SUFFICES ASSUME SessionTypeOK, Sends, Tasked, WritesInOrder, [SessionNext]_sessionVars PROVE SessionTypeOK'  OBVIOUS
<1> USE DEF SessionTypeOK, session, queues, callbacks, results
<1>1. CASE send_check
  <2>1. next' \in 1..NoRequest  BY <1>1, Numbers, SMTT(40) DEF send_check, NoRequest
  <2>2. CASE is_connected /\ next \notin Large  BY <1>1, <2>1, <2>2 DEF send_check
  <2>3. CASE ~(is_connected /\ next \notin Large)
    <3>1. next \in Requests /\ NoRequest \in 0..NoRequest  BY <1>1, Numbers DEF send_check, Requests
    <3>2. respCallback(next, NoRequest)  BY <1>1, <2>3, Zenon DEF send_check
    <3> QED  BY <1>1, <2>1, <2>3, <3>1, <3>2, RespType, ZenonT(40) DEF send_check
  <2> QED  BY <2>2, <2>3, Zenon
<1>2. CASE send_register
  <2>1. next \in Requests /\ next \in 0..NoRequest /\ Id(next) \in Ids
    BY <1>2, Numbers, Zenon DEF send_register, Sends
  <2>2. reused' \in BOOLEAN  BY <1>2, Zenon DEF send_register, add_resp_callback
  <2> QED  BY <1>2, <2>1, <2>2, ZenonT(40) DEF send_register, add_resp_callback
<1>3. CASE send_post
  <2>1. next \in Requests /\ next' \in 1..NoRequest
    BY <1>3, Numbers DEF send_post, Sends, Requests, NoRequest
  <2>2. posted' \in Seq(Requests) /\ order' \in Seq(Requests)
    BY <1>3, <2>1, Appended, Zenon DEF send_post, post
  <2> QED  BY <1>3, <2>1, <2>2, ZenonT(40) DEF send_post
<1>4. CASE send_dangling  BY <1>4, ZenonT(40) DEF send_dangling
<1>5. CASE start_session
  <2>1. 0 \in Requests /\ 0 \in 0..NoRequest /\ Id(0) \in Ids  BY Numbers, Zenon
  <2>2. reused' \in BOOLEAN  BY <1>5, Zenon DEF start_session, add_resp_callback
  <2>3. posted' \in Seq(Requests) /\ order' \in Seq(Requests)
    BY <1>5, <2>1, Appended, Zenon DEF start_session, post
  <2> QED  BY <1>5, <2>1, <2>2, <2>3, SMTT(40) DEF start_session, add_resp_callback
<1>6. CASE drop_clear
  <2>1. 0 \in 0..NoRequest /\ NoRequest \in 0..NoRequest  BY Numbers
  <2>2. Task("disconnect", 0, NoRequest) \in Tasks  BY <2>1, TaskType, Zenon
  <2>3. tasks' \in Seq(Tasks)  BY <1>6, <2>2, Appended, Zenon DEF drop_clear
  <2> QED  BY <1>6, <2>1, <2>3, ZenonT(40) DEF drop_clear
<1>7. CASE on_write
  <2>1. posted' \in Seq(Requests) /\ m_queue' \in Seq(Requests)
    BY <1>7, HeadAndTail, Appended, Zenon DEF on_write
  <2>2. writing' \in BOOLEAN  BY <1>7, Zenon DEF on_write, is_connected
  <2>3. UNCHANGED <<session, wire, order, written, callbacks, results, reading, tasks, sending, next>>
    BY <1>7, Zenon DEF on_write
  <2> QED  BY <2>1, <2>2, <2>3, SMTT(40)
<1>8. CASE on_write_packet
  <2>1. m_queue # <<>>  BY <1>8, Zenon DEF on_write_packet, WritesInOrder
  <2>2. Head(m_queue) \in Requests /\ m_queue' \in Seq(Requests)
    BY <1>8, <2>1, HeadAndTail, Zenon DEF on_write_packet
  <2>3. written' \in Seq(Requests) /\ wire' \subseteq Requests
    BY <1>8, <2>2, Appended, Zenon DEF on_write_packet
  <2>4. writing' \in BOOLEAN  BY <1>8, Zenon DEF on_write_packet
  <2> QED  BY <1>8, <2>2, <2>3, <2>4, SMTT(40) DEF on_write_packet
<1>9. ASSUME drop_call PROVE timer' \in [Requests -> {"none", "armed", "due"}] /\ tasks' \in Seq(Tasks)
  BY <1>9, DropPool, Zenon DEF drop_call, Cancelled
<1>10. CASE write_error
  <2>1. CASE m_isDrop  BY <1>10, <2>1, ZenonT(40) DEF write_error
  <2>2. CASE ~m_isDrop  BY <1>9, <1>10, <2>2, ZenonT(40) DEF write_error, drop_call
  <2> QED  BY <2>1, <2>2, Zenon
<1>11. CASE read_error
  <2>1. CASE m_isDrop  BY <1>11, <2>1, ZenonT(40) DEF read_error
  <2>2. CASE ~m_isDrop  BY <1>9, <1>11, <2>2, ZenonT(40) DEF read_error, drop_call
  <2> QED  BY <2>1, <2>2, Zenon
<1>12. ASSUME NEW r \in Requests, on_response_timeout(r) PROVE SessionTypeOK'
  <2>1. r \in 0..NoRequest /\ NoRequest \in 0..NoRequest  BY Numbers
  <2>2. tasks' \in Seq(Tasks)
    <3>1. Task("null", r, NoRequest) \in Tasks  BY <2>1, TaskType, Zenon
    <3>2. Append(tasks, Task("null", r, NoRequest)) \in Seq(Tasks)  BY <3>1, Appended, Zenon
    <3> QED  BY <1>12, <3>2, Zenon DEF on_response_timeout
  <2>3. m_callBacks' \in [Ids -> 0..NoRequest]
    BY <1>12, <2>1, Zenon DEF on_response_timeout, response_callback
  <2> QED  BY <1>12, <2>2, <2>3 DEF on_response_timeout
<1>13. ASSUME NEW r \in Requests, on_read(r) PROVE SessionTypeOK'
  <2>1. r \in 0..NoRequest /\ NoRequest \in 0..NoRequest /\ Id(r) \in Ids  BY Numbers
  <2>2. m_callBacks[Id(r)] \in 0..NoRequest  BY <2>1, Zenon
  <2>3. tasks' \in Seq(Tasks)  BY <1>13, <2>1, <2>2, TaskType, Appended, Zenon DEF on_read
  <2>4. m_callBacks' \in [Ids -> 0..NoRequest]  BY <1>13, <2>1, Zenon DEF on_read, response_callback
  <2>5. reading' \in BOOLEAN  BY <1>13, Zenon DEF on_read, is_connected
  <2> QED  BY <1>13, <2>3, <2>4, <2>5, ZenonT(40) DEF on_read
<1>14. CASE run_task
  <2>1. tasks' \in Seq(Tasks) /\ tasks[1] \in Tasks  BY <1>14, TaskStep, Zenon
  <2>6. NoRequest \in 0..NoRequest  BY Numbers
  <2>2. tasks[1].answer \in 0..NoRequest /\ NoRequest \in 0..NoRequest  BY <2>1, <2>6 DEF Tasks
  <2>3. timer' \in [Requests -> {"none", "armed", "due"}]
    BY <1>14, TaskStep, Zenon DEF Cancelled
  <2>4. removed' \in BOOLEAN  BY <1>14, TaskStep, Zenon
  <2>5. /\ calls' \in [Requests -> Nat] /\ got' \in [Requests -> 0..NoRequest]
        /\ ended' \in {"no", "null_message", "unknown", "null", "dangling"}
    BY <1>14, <2>2, TaskStep, RespType, Zenon
  <2> QED  BY <1>14, <2>1, <2>3, <2>4, <2>5, SMTT(40) DEF run_task
<1>15. CASE lose  BY <1>15, ZenonT(40) DEF lose
<1>16. ASSUME NEW r \in Requests, expire(r) PROVE SessionTypeOK'  BY <1>16, SMTT(40) DEF expire
<1>17. CASE UNCHANGED sessionVars  BY <1>17 DEF sessionVars
<1> QED
  BY <1>1, <1>2, <1>3, <1>4, <1>5, <1>6, <1>7, <1>8, <1>9, <1>10, <1>11, <1>12, <1>13,
     <1>14, <1>15, <1>16, <1>17 DEF SessionNext, SendStep, IoStep, NodeStep

-------------------------------------------------------------------------------
(* The write queue. *)

\* Posting a message puts it behind those written and those queued.
LEMMA AppendConcat ==
  ASSUME NEW S, NEW s \in Seq(S), NEW t \in Seq(S), NEW x \in S
  PROVE  s \o Append(t, x) = Append(s \o t, x)
<1>1. Append(t, x) \in Seq(S) /\ s \o t \in Seq(S)  BY Appended, Concatenated, Zenon
<1>2. s \o Append(t, x) \in Seq(S) /\ Append(s \o t, x) \in Seq(S)
  BY <1>1, Appended, Concatenated, Zenon
<1>3. Len(s) \in Nat /\ Len(t) \in Nat  BY SeqLength
<1>4. Len(s \o Append(t, x)) = Len(s) + Len(t) + 1 /\ Len(Append(s \o t, x)) = Len(s) + Len(t) + 1
  BY <1>1, <1>3, Appended, Concatenated
<1>5. \A i \in 1..(Len(s) + Len(t) + 1) : (s \o Append(t, x))[i] = Append(s \o t, x)[i]
  BY <1>1, <1>3, Appended, Concatenated
<1> QED  BY <1>2, <1>4, <1>5, SameSequence, Zenon

\* A message that is written passes from the queue to what was written.
LEMMA MoveHead ==
  ASSUME NEW S, NEW s \in Seq(S), NEW t \in Seq(S), t # <<>>
  PROVE  Append(s, Head(t)) \o Tail(t) = s \o t
<1>1. Head(t) \in S /\ Tail(t) \in Seq(S) /\ Len(Tail(t)) = Len(t) - 1
      /\ \A i \in 1..Len(Tail(t)) : Tail(t)[i] = t[i + 1]
  BY HeadAndTail
<1>2. Append(s, Head(t)) \in Seq(S) /\ Len(Append(s, Head(t))) = Len(s) + 1
  BY <1>1, Appended
<1>3. Len(s) \in Nat /\ Len(t) \in Nat \ {0} /\ Head(t) = t[1]  BY SeqLength, EmptySequence
<1>4. Append(s, Head(t)) \o Tail(t) \in Seq(S) /\ s \o t \in Seq(S)
  BY <1>1, <1>2, Concatenated, Zenon
<1>5. Len(Append(s, Head(t)) \o Tail(t)) = Len(s) + Len(t) /\ Len(s \o t) = Len(s) + Len(t)
  BY <1>1, <1>2, <1>3, Concatenated
<1>6. \A i \in 1..(Len(s) + Len(t)) : (Append(s, Head(t)) \o Tail(t))[i] = (s \o t)[i]
  BY <1>1, <1>2, <1>3, Appended, Concatenated
<1> QED  BY <1>4, <1>5, <1>6, SameSequence, Zenon

\* send, on_write and drop keep the order of the messages.
LEMMA WritesStep == SessionTypeOK /\ Sends /\ NotStarted /\ WritesInOrder /\ [SessionNext]_sessionVars => WritesInOrder'
<1> SUFFICES ASSUME SessionTypeOK, Sends, NotStarted, WritesInOrder, [SessionNext]_sessionVars PROVE WritesInOrder'  OBVIOUS
<1> DEFINE R == Requests
<1>0. /\ written \in Seq(R) /\ m_queue \in Seq(R) /\ posted \in Seq(R) /\ order \in Seq(R)
      /\ written \o m_queue \in Seq(R)
  BY Concatenated, Zenon DEF SessionTypeOK
<1>1. ASSUME NEW r \in R, post(r), UNCHANGED <<written, m_queue, writing, open, m_isDrop>>
      PROVE WritesInOrder'
  <2>1. (written \o m_queue) \o posted' = order'
    <3>1. (written \o m_queue) \o Append(posted, r) = Append((written \o m_queue) \o posted, r)
      BY <1>0, <1>1, AppendConcat, SMTT(40)
    <3> QED  BY <1>1, <3>1, Zenon DEF WritesInOrder, post
  <2> QED  BY <1>1, <2>1, Zenon DEF WritesInOrder, is_connected
<1>2. CASE send_post  BY <1>1, <1>2, Zenon DEF send_post, Sends, session
<1>3. CASE start_session  BY <1>1, <1>3, Numbers, Zenon DEF start_session
<1>4. CASE on_write
  <2>1. /\ posted # <<>> /\ posted' = Tail(posted) /\ m_queue' = Append(m_queue, Head(posted))
        /\ written' = written /\ order' = order /\ open' = open /\ m_isDrop' = m_isDrop
        /\ writing' = IF m_queue = <<>> THEN is_connected ELSE writing
    BY <1>4, Zenon DEF on_write, session
  <2>2. Head(posted) \in R /\ Tail(posted) \in Seq(R)  BY <1>0, <2>1, HeadAndTail, Zenon
  <2>3. written \o Append(m_queue, Head(posted)) = Append(written \o m_queue, Head(posted))
    BY <1>0, <2>2, AppendConcat, SMTT(40)
  <2>4. (written' \o m_queue') \o posted' = order'
    BY <1>0, <2>1, <2>3, MoveHead, ZenonT(40) DEF WritesInOrder
  <2>5. m_queue' # <<>>  BY <1>0, <2>1, <2>2
  <2>6. is_connected' => writing'  BY <2>1, Zenon DEF WritesInOrder, is_connected
  <2> QED  BY <2>4, <2>5, <2>6, Zenon DEF WritesInOrder
<1>5. CASE on_write_packet
  <2>1. /\ writing /\ m_queue' = Tail(m_queue) /\ written' = Append(written, Head(m_queue))
        /\ posted' = posted /\ order' = order /\ open' = open /\ m_isDrop' = m_isDrop
        /\ writing' = (Tail(m_queue) # <<>> /\ is_connected)
    BY <1>5, Zenon DEF on_write_packet, session
  <2>2. m_queue # <<>>  BY <2>1, Zenon DEF WritesInOrder
  <2>3. (written' \o m_queue') \o posted' = order'
    BY <1>0, <2>1, <2>2, MoveHead, Zenon DEF WritesInOrder
  <2> QED  BY <2>1, <2>3, Zenon DEF WritesInOrder, is_connected
<1>6. ASSUME UNCHANGED <<written, m_queue, posted, order>>, writing' => writing, is_connected' => is_connected,
             is_connected' => writing' = writing
      PROVE WritesInOrder'
  BY <1>6, Zenon DEF WritesInOrder
<1> USE DEF session, queues, is_connected
<1>7. CASE write_error  BY <1>6, <1>7, Zenon DEF write_error
<1>8. CASE drop_clear  BY <1>6, <1>8, Zenon DEF drop_clear
<1>9. CASE read_error  BY <1>6, <1>9, Zenon DEF read_error, drop_call
<1>10. CASE lose  BY <1>6, <1>10, Zenon DEF lose
<1>11. CASE SendStep /\ ~send_post
  BY <1>6, <1>11 DEF SendStep, send_check, send_register, send_dangling
<1>12. ASSUME NEW r \in R, on_response_timeout(r) \/ on_read(r) \/ expire(r) PROVE WritesInOrder'
  BY <1>6, <1>12, Zenon DEF on_response_timeout, on_read, expire
<1>13. CASE run_task  BY <1>6, <1>13, Zenon DEF run_task
<1>14. CASE UNCHANGED sessionVars  BY <1>6, <1>14, Zenon DEF sessionVars
<1> QED
  BY <1>2, <1>3, <1>4, <1>5, <1>7, <1>8, <1>9, <1>10, <1>11, <1>12, <1>13, <1>14, Zenon
  DEF SessionNext, SendStep, IoStep, NodeStep

-------------------------------------------------------------------------------
(* The host's thread, the time before start, and the tasks in the pool. *)

\* async_send_message is always busy with one of the requests.
LEMMA SendsStep == SessionTypeOK /\ Sends /\ [SessionNext]_sessionVars => Sends'
<1> SUFFICES ASSUME SessionTypeOK, Sends, [SessionNext]_sessionVars PROVE Sends'  OBVIOUS
<1>1. CASE send_check  BY <1>1, Numbers DEF send_check, Sends, Requests
<1>2. CASE send_register  BY <1>2 DEF send_register, Sends
<1>3. CASE send_post  BY <1>3 DEF send_post, Sends
<1>4. CASE UNCHANGED <<sending, next>>  BY <1>4 DEF Sends
<1>5. ASSUME NEW r \in Requests, on_response_timeout(r) \/ on_read(r) \/ expire(r)
      PROVE UNCHANGED <<sending, next>>
  BY <1>5, Zenon DEF on_response_timeout, on_read, expire
<1> QED
  BY <1>1, <1>2, <1>3, <1>4, <1>5, Zenon
  DEF SessionNext, SendStep, IoStep, NodeStep, sessionVars, send_dangling, start_session, drop_clear, on_write,
      on_write_packet, write_error, read_error, run_task, lose

\* Until start the session has no tasks, no messages and no drop.
LEMMA NotStartedStep == SessionTypeOK /\ Sends /\ NotStarted /\ [SessionNext]_sessionVars => NotStarted'
<1> SUFFICES ASSUME SessionTypeOK, Sends, NotStarted, [SessionNext]_sessionVars, ~started' PROVE NotStarted'
  BY Zenon DEF NotStarted
<1> USE DEF NotStarted, session, queues, callbacks
<1>1. CASE UNCHANGED sessionVars  BY <1>1, Zenon DEF sessionVars
<1>2. CASE start_session  BY <1>2, Zenon DEF start_session
<1>3. started' = started => ~started  OBVIOUS
<1>4. CASE send_check  BY <1>4, Zenon DEF send_check
<1>5. CASE send_register
  <2>1. /\ timer' = [timer EXCEPT ![next] = "armed"] /\ registered' = registered \cup {next}
        /\ UNCHANGED <<session, queues, tasks, reading>>
    BY <1>5, Zenon DEF send_register, add_resp_callback
  <2>2. \A r \in registered' : timer'[r] # "none"
    BY <1>5, <2>1 DEF SessionTypeOK, Sends, send_register
  <2> QED  BY <2>1, <2>2, Zenon
<1>6. CASE send_post  BY <1>6, Zenon DEF send_post
<1>7. CASE send_dangling  BY <1>7, Zenon DEF send_dangling
<1>8. ASSUME NEW r \in Requests, expire(r) PROVE NotStarted'  BY <1>8, Zenon
                                                                 DEF expire, SessionTypeOK
<1>9. CASE drop_clear  BY <1>9, Zenon DEF drop_clear
<1>10. CASE on_write \/ on_write_packet \/ write_error \/ read_error
  BY <1>10, Zenon DEF on_write, on_write_packet, write_error, read_error, IoFree, drop_call
<1>11. ASSUME NEW r \in Requests, on_response_timeout(r) \/ on_read(r) PROVE NotStarted'
  BY <1>11 DEF on_response_timeout, on_read, IoFree
<1>12. CASE run_task  BY <1>12, Zenon DEF run_task
<1>13. CASE lose  BY <1>13, Zenon DEF lose
<1> QED
  BY <1>1, <1>2, <1>4, <1>5, <1>6, <1>7, <1>8, <1>9, <1>10, <1>11, <1>12, <1>13, Zenon
  DEF SessionNext, SendStep, IoStep, NodeStep

(* One more task. *)
LEMMA OneTask ==
  ASSUME SessionTypeOK, NEW t \in Tasks, tasks' = Append(tasks, t)
  PROVE  /\ Len(tasks) \in Nat /\ Len(tasks') = Len(tasks) + 1
         /\ \A i \in 1..Len(tasks) : tasks'[i] = tasks[i]
         /\ tasks'[Len(tasks) + 1] = t
BY Appended, SeqLength DEF SessionTypeOK

\* Each task of the pool stands for a callback that was taken from the map, for a
\* message nobody waits for, or for the drop of the session.
LEMMA TaskedStep == SessionTypeOK /\ Dropped /\ Known /\ Owed /\ Tasked /\ [SessionNext]_sessionVars => Tasked'
<1> SUFFICES ASSUME SessionTypeOK, Dropped, Known, Owed, Tasked, [SessionNext]_sessionVars PROVE Tasked'  OBVIOUS
<1> DEFINE Fits(t) == /\ Calling(t) => t.request \in Requests
                      /\ t.kind \in {"error", "disconnect"} => m_isDrop'
                      /\ t.kind = "unknown" => t.request = NoRequest
                      /\ t.kind = "null" => t.request \in expired'
<1>0. SUFFICES ASSUME NEW i \in 1..Len(tasks') PROVE Fits(tasks'[i])  BY Zenon DEF Tasked, Calling
<1>1. ASSUME m_isDrop => m_isDrop', expired \subseteq expired' 
      PROVE \A j \in 1..Len(tasks) : Fits(tasks[j])
  BY <1>1, Zenon DEF Tasked
<1>2. ASSUME NEW t \in Tasks, tasks' = Append(tasks, t), Fits(t), m_isDrop => m_isDrop',
             expired \subseteq expired'
      PROVE Fits(tasks'[i])
  <2>1. CASE i \in 1..Len(tasks)  BY <1>1, <1>2, <2>1, OneTask, Zenon
  <2>2. CASE i = Len(tasks) + 1  BY <1>2, <2>2, OneTask, Zenon
  <2> QED  BY <1>2, <2>1, <2>2, OneTask
<1>3. ASSUME drop_call PROVE Fits(tasks'[i])
  <2>1. PICK n \in Nat : \E f \in [1..n -> Waiting] :
           /\ Len(tasks') = Len(tasks) + n
           /\ \A j \in 1..Len(tasks) : tasks'[j] = tasks[j]
           /\ \A j \in 1..n : tasks'[Len(tasks) + j] = Task("error", f[j], NoRequest)
    BY <1>3, DropPool, Zenon
  <2>2. PICK f \in [1..n -> Waiting] :
           /\ Len(tasks') = Len(tasks) + n
           /\ \A j \in 1..Len(tasks) : tasks'[j] = tasks[j]
           /\ \A j \in 1..n : tasks'[Len(tasks) + j] = Task("error", f[j], NoRequest)
    BY <2>1, Zenon
  <2>3. Len(tasks) \in Nat  BY SeqLength, Zenon DEF SessionTypeOK
  <2>4. m_isDrop' /\ expired' = expired  BY <1>3, Zenon DEF drop_call
  <2>5. CASE i \in 1..Len(tasks)  BY <1>1, <2>2, <2>4, <2>5, Zenon
  <2>6. CASE i \notin 1..Len(tasks)
    <3>1. i - Len(tasks) \in 1..n /\ i = Len(tasks) + (i - Len(tasks))  BY <2>2, <2>3, <2>6
    <3>2. tasks'[i] = Task("error", f[i - Len(tasks)], NoRequest) /\ f[i - Len(tasks)] \in Requests
      BY <2>2, <3>1, Zenon DEF Waiting
    <3> QED  BY <2>4, <3>2 DEF Task, Calling
  <2> QED  BY <2>5, <2>6, Zenon
<1>4. ASSUME tasks' = tasks, m_isDrop => m_isDrop', expired \subseteq expired' PROVE Fits(tasks'[i])
  BY <1>1, <1>4, Zenon
<1> HIDE DEF Fits
<1> USE DEF session, callbacks
<1>5. CASE drop_clear
  <2>1. m_isDrop /\ m_isDrop' = m_isDrop /\ expired' = expired  BY <1>5, Zenon
                                                                   DEF drop_clear, Dropped
  <2>2. Task("disconnect", 0, NoRequest) \in Tasks  BY Numbers, TaskType
  <2>3. Fits(Task("disconnect", 0, NoRequest))  BY <2>1, Zenon DEF Fits, Task, Calling
  <2> QED  BY <1>2, <1>5, <2>1, <2>2, <2>3 DEF drop_clear
<1>6. CASE write_error  BY <1>3, <1>4, <1>6, Zenon DEF write_error
<1>7. CASE read_error  BY <1>3, <1>4, <1>7, Zenon DEF read_error
<1>8. ASSUME NEW r \in Requests, on_response_timeout(r) PROVE Fits(tasks'[i])
  <2>1. m_isDrop' = m_isDrop /\ expired' = expired  BY <1>8, Zenon DEF on_response_timeout
  <2>2. Task("null", r, NoRequest) \in Tasks  BY Numbers, TaskType
  <2>3. Fits(Task("null", r, NoRequest))
    BY <1>8, <2>1, Zenon DEF Fits, Task, Calling, on_response_timeout, Known
  <2> QED  BY <1>2, <1>4, <1>8, <2>1, <2>2, <2>3 DEF on_response_timeout
<1>9. ASSUME NEW r \in Requests, on_read(r) PROVE Fits(tasks'[i])
  <2> DEFINE q == m_callBacks[Id(r)]
             t == Task(IF q = NoRequest THEN "unknown" ELSE "answer", q, r)
  <2>1. m_isDrop' = m_isDrop /\ expired' = expired /\ tasks' = Append(tasks, t)
    BY <1>9, Zenon DEF on_read
  <2>2. q \in 0..NoRequest /\ r \in 0..NoRequest  BY Numbers, Zenon DEF SessionTypeOK
  <2>3. t \in Tasks  BY <2>2, TaskType, Zenon
  <2>4. q # NoRequest => q \in Requests  BY <2>2, Numbers DEF Requests, NoRequest
  <2>5. Fits(t)  BY <2>1, <2>4, Zenon DEF Fits, Task, Calling
  <2> HIDE DEF t
  <2> QED  BY <1>2, <2>1, <2>3, <2>5, Zenon
<1>10. CASE run_task
  <2>1. i \in 1..Len(tasks') /\ Len(tasks') = Len(tasks) - 1 /\ tasks'[i] = tasks[i + 1]
    BY <1>10, TaskStep, Zenon
  <2>2. Len(tasks) \in Nat  BY SeqLength, Zenon DEF SessionTypeOK
  <2>3. i + 1 \in 1..Len(tasks)  BY <2>1, <2>2
  <2> QED  BY <1>1, <1>10, <2>1, <2>3, Zenon DEF run_task
<1>11. ASSUME NEW r \in Requests, expire(r) PROVE Fits(tasks'[i])  BY <1>4, <1>11, Zenon DEF expire
<1>12. CASE SendStep
  BY <1>4, <1>12, Zenon
     DEF SendStep, send_check, send_register, add_resp_callback, send_post, send_dangling
<1>13. CASE start_session \/ on_write \/ on_write_packet \/ lose
  BY <1>4, <1>13, Zenon DEF start_session, add_resp_callback, on_write, on_write_packet, lose
<1>14. CASE UNCHANGED sessionVars  BY <1>4, <1>14, Zenon DEF sessionVars
<1> QED
  BY <1>5, <1>6, <1>7, <1>8, <1>9, <1>10, <1>11, <1>12, <1>13, <1>14, Zenon
     DEF SessionNext, IoStep, NodeStep

(* Which tasks are in the pool after one more, after drop's, and after a run. *)
LEMMA OneTaskOwed ==
  ASSUME SessionTypeOK, NEW t \in Tasks, tasks' = Append(tasks, t)
  PROVE  /\ \A r : HasTask(r)' <=> HasTask(r) \/ (Calling(t) /\ t.request = r)
         /\ Disconnects' = Disconnects \cup (IF t.kind = "disconnect" THEN {Len(tasks) + 1} ELSE {})
<1>1. /\ Len(tasks) \in Nat /\ Len(tasks') = Len(tasks) + 1
      /\ \A i \in 1..Len(tasks) : tasks'[i] = tasks[i]
      /\ tasks'[Len(tasks) + 1] = t
  BY OneTask, Zenon
<1>2. 1..Len(tasks') = 1..Len(tasks) \cup {Len(tasks) + 1}  BY <1>1
<1>3. ASSUME NEW r PROVE HasTask(r)' <=> HasTask(r) \/ (Calling(t) /\ t.request = r)
  BY <1>1, <1>2, Zenon DEF HasTask, Calling
<1>4. Disconnects' = Disconnects \cup (IF t.kind = "disconnect" THEN {Len(tasks) + 1} ELSE {})
  BY <1>1, <1>2, Zenon DEF Disconnects
<1> QED  BY <1>3, <1>4, Zenon

\* drop makes a task of each waiting callback, and of nothing else.
LEMMA DropOwed ==
  ASSUME SessionTypeOK, drop_call
  PROVE  /\ \A r : HasTask(r) => HasTask(r)'
         /\ \A r : HasTask(r)' => HasTask(r) \/ r \in Waiting
         /\ Disconnects' = Disconnects
         /\ (\A r \in Waiting : ~HasTask(r)) => 
              \A i, j \in 1..Len(tasks') :
                 /\ Calling(tasks'[i]) /\ Calling(tasks'[j]) /\ tasks'[i].request = tasks'[j].request
                 => i = j \/ (i \in 1..Len(tasks) /\ j \in 1..Len(tasks)
                              /\ tasks'[i] = tasks[i] /\ tasks'[j] = tasks[j])
<1> DEFINE Extends(n, f) ==
             /\ \A i, j \in 1..n : f[i] = f[j] => i = j
             /\ Len(tasks') = Len(tasks) + n
             /\ \A j \in 1..Len(tasks) : tasks'[j] = tasks[j]
             /\ \A j \in 1..n : tasks'[Len(tasks) + j] = Task("error", f[j], NoRequest)
<1>0. PICK n \in Nat : \E f \in [1..n -> Waiting] : Extends(n, f)  BY DropPool, Zenon
<1>1. PICK f \in [1..n -> Waiting] : Extends(n, f)  BY <1>0, Zenon
<1>2. Len(tasks) \in Nat  BY SeqLength, Zenon DEF SessionTypeOK
<1>3. \A i \in 1..Len(tasks') : i \notin 1..Len(tasks) =>
         /\ i - Len(tasks) \in 1..n /\ f[i - Len(tasks)] \in Waiting
         /\ tasks'[i].kind = "error" /\ tasks'[i].request = f[i - Len(tasks)]
  <2> SUFFICES ASSUME NEW i \in 1..Len(tasks'), i \notin 1..Len(tasks)
               PROVE  /\ i - Len(tasks) \in 1..n /\ f[i - Len(tasks)] \in Waiting
                      /\ tasks'[i].kind = "error" /\ tasks'[i].request = f[i - Len(tasks)]
    BY Zenon
  <2>1. i - Len(tasks) \in 1..n /\ i = Len(tasks) + (i - Len(tasks))  BY <1>1, <1>2
  <2>2. tasks'[i] = Task("error", f[i - Len(tasks)], NoRequest)  BY <1>1, <2>1, Zenon
  <2> QED  BY <2>1, <2>2 DEF Task
<1>4. \A i \in 1..Len(tasks) : i \in 1..Len(tasks')  BY <1>1, <1>2
<1>5. ASSUME NEW r, HasTask(r) PROVE HasTask(r)'  BY <1>1, <1>4, <1>5, Zenon DEF HasTask, Calling
<1>6. ASSUME NEW r, HasTask(r)' PROVE HasTask(r) \/ r \in Waiting
  BY <1>1, <1>3, <1>6 DEF HasTask, Calling
<1>7. Disconnects' = Disconnects  BY <1>1, <1>3, <1>4, Zenon DEF Disconnects
<1>8. ASSUME \A r \in Waiting : ~HasTask(r), NEW i \in 1..Len(tasks'), NEW j \in 1..Len(tasks'),
             Calling(tasks'[i]), Calling(tasks'[j]), tasks'[i].request = tasks'[j].request
      PROVE i = j \/ (/\ i \in 1..Len(tasks) /\ j \in 1..Len(tasks)
                      /\ tasks'[i] = tasks[i] /\ tasks'[j] = tasks[j])
  <2>1. CASE i \in 1..Len(tasks) /\ j \in 1..Len(tasks)  BY <1>1, <2>1, Zenon
  <2>2. CASE i \notin 1..Len(tasks) /\ j \notin 1..Len(tasks)
    <3>1. f[i - Len(tasks)] = f[j - Len(tasks)]  BY <1>3, <1>8, <2>2, Zenon
    <3>2. i - Len(tasks) = j - Len(tasks)  BY <1>1, <1>3, <2>2, <3>1, Zenon
    <3> QED  BY <1>2, <3>2
  <2>3. CASE i \in 1..Len(tasks) /\ j \notin 1..Len(tasks)
    BY <1>1, <1>3, <1>8, <2>3 DEF HasTask
  <2>4. CASE i \notin 1..Len(tasks) /\ j \in 1..Len(tasks)
    BY <1>1, <1>3, <1>8, <2>4, Zenon DEF HasTask
  <2> QED  BY <2>1, <2>2, <2>3, <2>4, Zenon
<1> QED  BY <1>5, <1>6, <1>7, <1>8, Zenon

\* The pool runs its first task and keeps the others.
LEMMA RunOwed ==
  ASSUME SessionTypeOK, Tasked, Owed, run_task
  PROVE  /\ \A r : HasTask(r)' <=> HasTask(r) /\ ~(Calling(tasks[1]) /\ tasks[1].request = r)
         /\ \A i : i \in Disconnects' <=> i \in 1..(Len(tasks) - 1) /\ i + 1 \in Disconnects
<1>1. /\ Len(tasks') = Len(tasks) - 1 /\ \A i \in 1..Len(tasks') : tasks'[i] = tasks[i + 1]
      /\ 1 \in 1..Len(tasks)
  BY TaskStep, Zenon
<1>2. Len(tasks) \in Nat  BY SeqLength, Zenon DEF SessionTypeOK
<1>3. \A i \in 1..Len(tasks') : i + 1 \in 1..Len(tasks) /\ i + 1 # 1  BY <1>1, <1>2
<1>4. \A i \in 1..Len(tasks) : i # 1 => i - 1 \in 1..Len(tasks') /\ tasks'[i - 1] = tasks[i]
  BY <1>1, <1>2
<1>5. ASSUME NEW r, HasTask(r)' PROVE HasTask(r) /\ ~(Calling(tasks[1]) /\ tasks[1].request = r)
  <2>1. PICK i \in 1..Len(tasks') : Calling(tasks'[i]) /\ tasks'[i].request = r
    BY <1>5, Zenon DEF HasTask, Calling
  <2>2. i + 1 \in 1..Len(tasks) /\ i + 1 # 1 /\ Calling(tasks[i + 1]) /\ tasks[i + 1].request = r
    BY <1>1, <1>3, <2>1, Zenon
  <2> QED  BY <1>1, <2>2, Zenon DEF HasTask, Owed
<1>6. ASSUME NEW r, HasTask(r), ~(Calling(tasks[1]) /\ tasks[1].request = r) PROVE HasTask(r)'
  <2>1. PICK i \in 1..Len(tasks) : Calling(tasks[i]) /\ tasks[i].request = r  BY <1>6, Zenon
                                                                                 DEF HasTask
  <2>2. i # 1  BY <1>6, <2>1, Zenon
  <2> QED  BY <1>4, <2>1, <2>2, Zenon DEF HasTask, Calling
<1>7. ASSUME NEW i PROVE i \in Disconnects' <=> i \in 1..(Len(tasks) - 1) /\ i + 1 \in Disconnects
  BY <1>1, <1>2, <1>3, Zenon DEF Disconnects
<1> QED  BY <1>5, <1>6, <1>7, Zenon

\* The service is told of a drop once, by one task, and only after m_isDrop was set.
LEMMA DroppedStep == SessionTypeOK /\ NotStarted /\ Tasked /\ Owed /\ Dropped /\ [SessionNext]_sessionVars => Dropped'
<1> SUFFICES ASSUME SessionTypeOK, NotStarted, Tasked, Owed, Dropped, [SessionNext]_sessionVars PROVE Dropped'  OBVIOUS
<1>1. ASSUME Disconnects' = Disconnects, UNCHANGED <<removed, m_isDrop, dropping>> PROVE Dropped'
  BY <1>1 DEF Dropped, DisconnectOnce
<1>2. ASSUME NEW t \in Tasks, t.kind # "disconnect", tasks' = Append(tasks, t) PROVE Disconnects' = Disconnects
  BY <1>2, OneTaskOwed, Zenon
<1>3. tasks' = tasks => Disconnects' = Disconnects  BY DEF Disconnects
<1>4. ASSUME drop_call, ~m_isDrop, removed' = removed PROVE Dropped'
  BY <1>4, DropOwed, Zenon DEF Dropped, DisconnectOnce, drop_call
<1> USE DEF session
<1>5. CASE drop_clear
  <2>1. Task("disconnect", 0, NoRequest) \in Tasks /\ Task("disconnect", 0, NoRequest).kind = "disconnect"
    BY Numbers, TaskType DEF Task
  <2>2. Disconnects' = Disconnects \cup {Len(tasks) + 1}  BY <1>5, <2>1, OneTaskOwed, Zenon
                                                             DEF drop_clear
  <2>3. dropping /\ dropping' = FALSE /\ m_isDrop' = m_isDrop /\ removed' = removed
    BY <1>5, Zenon DEF drop_clear
  <2>4. Disconnects = {} /\ ~removed /\ m_isDrop  BY <2>3, Zenon DEF Dropped, DisconnectOnce
  <2> QED  BY <2>2, <2>3, <2>4, Zenon DEF Dropped, DisconnectOnce
<1>6. CASE write_error  BY <1>1, <1>3, <1>4, <1>6, Zenon DEF write_error
<1>7. CASE read_error  BY <1>1, <1>3, <1>4, <1>7, Zenon DEF read_error
<1>8. ASSUME NEW r \in Requests, on_response_timeout(r) PROVE Dropped'
  <2>1. Task("null", r, NoRequest) \in Tasks /\ Task("null", r, NoRequest).kind # "disconnect"
    BY Numbers, TaskType DEF Task
  <2> QED  BY <1>1, <1>2, <1>3, <1>8, <2>1, Zenon DEF on_response_timeout
<1>9. ASSUME NEW r \in Requests, on_read(r) PROVE Dropped'
  <2> DEFINE q == m_callBacks[Id(r)]
             t == Task(IF q = NoRequest THEN "unknown" ELSE "answer", q, r)
  <2>1. q \in 0..NoRequest /\ r \in 0..NoRequest  BY Numbers, Zenon DEF SessionTypeOK
  <2>2. t \in Tasks  BY <2>1, TaskType, Zenon
  <2>3. t.kind # "disconnect"  BY DEF Task
  <2>4. tasks' = Append(tasks, t) /\ UNCHANGED <<removed, m_isDrop, dropping>>  BY <1>9, Zenon
                                                                                   DEF on_read
  <2> HIDE DEF t
  <2> QED  BY <1>1, <1>2, <2>2, <2>3, <2>4, Zenon
<1>10. CASE run_task
  <2>1. UNCHANGED <<m_isDrop, dropping>>  BY <1>10, Zenon DEF run_task
  <2>2. \A i : i \in Disconnects' <=> i \in 1..(Len(tasks) - 1) /\ i + 1 \in Disconnects
    BY <1>10, RunOwed, Zenon
  <2>3. Len(tasks) \in Nat /\ 1 \in 1..Len(tasks)  BY <1>10, TaskStep, SeqLength, Zenon
                                                      DEF SessionTypeOK
  <2>4. \A i \in Disconnects : i \in 1..Len(tasks)  BY DEF Disconnects
  <2>5. CASE tasks[1].kind = "disconnect"
    <3>1. 1 \in Disconnects /\ removed'  BY <1>10, <2>3, <2>5, TaskStep, Zenon DEF Disconnects
    <3>2. Disconnects' = {}  BY <2>2, <2>3, <3>1 DEF Dropped, DisconnectOnce
    <3> QED  BY <2>1, <3>1, <3>2, Zenon DEF Dropped, DisconnectOnce
  <2>6. CASE tasks[1].kind # "disconnect"
    <3>1. 1 \notin Disconnects /\ removed' = removed  BY <1>10, <2>6, TaskStep, Zenon
                                                         DEF Disconnects
    <3>2. Disconnects' # {} <=> Disconnects # {}
      <4>1. \A i \in Disconnects : i - 1 \in 1..(Len(tasks) - 1) /\ (i - 1) + 1 = i
        BY <2>3, <2>4, <3>1
      <4> QED  BY <2>2, <4>1, Zenon
    <3>3. \A i, j \in Disconnects' : i = j  BY <2>2, <2>3 DEF Dropped, DisconnectOnce
    <3> QED  BY <2>1, <3>1, <3>2, <3>3, Zenon DEF Dropped, DisconnectOnce
  <2> QED  BY <2>5, <2>6, Zenon
<1>11. ASSUME NEW r \in Requests, expire(r) PROVE Dropped'  BY <1>1, <1>3, <1>11, Zenon DEF expire
<1>12. CASE SendStep
  BY <1>1, <1>3, <1>12, Zenon DEF SendStep, send_check, send_register, send_post, send_dangling
<1>13. CASE start_session \/ on_write \/ on_write_packet \/ lose
  BY <1>1, <1>3, <1>13, Zenon DEF start_session, on_write, on_write_packet, lose
<1>14. CASE UNCHANGED sessionVars  BY <1>1, <1>3, <1>14, Zenon DEF sessionVars
<1> QED
  BY <1>5, <1>6, <1>7, <1>8, <1>9, <1>10, <1>11, <1>12, <1>13, <1>14, Zenon
     DEF SessionNext, IoStep, NodeStep

-------------------------------------------------------------------------------
(* Where the callbacks are. *)

\* A callback stays in one place: entering it, moving it to a task and calling it
\* never leave a second copy (on_read, on_timeout, drop).
LEMMA OwedStep ==
  SessionTypeOK /\ Sends /\ Tasked /\ Dropped /\ Owed /\ [SessionNext]_sessionVars => Owed'
<1> SUFFICES ASSUME SessionTypeOK, Sends, Tasked, Dropped, Owed, [SessionNext]_sessionVars PROVE Owed'  OBVIOUS
<1> DEFINE
  O1 == \A r \in Requests : HasTask(r) => calls[r] = 0
  O2 == \A i, j \in 1..Len(tasks) :
          Calling(tasks[i]) /\ Calling(tasks[j]) /\ tasks[i].request = tasks[j].request => i = j
  O3 == ~dropping => \A r \in Requests : m_callBacks[Id(r)] = r => calls[r] = 0 /\ ~HasTask(r)
  O4 == \A i \in Ids : m_callBacks[i] \in Requests => Id(m_callBacks[i]) = i
  O5 == \A r \in Requests : Unsent(r) =>
          calls[r] = 0 /\ ~HasTask(r) /\ r \notin registered /\ m_callBacks[Id(r)] # r
<1>0. O1 /\ O2 /\ O3 /\ O4 /\ O5  BY Zenon DEF Owed
<1>1. (O1 /\ O2 /\ O3 /\ O4 /\ O5)' => Owed'  BY Zenon DEF Owed
<1>2. /\ m_callBacks \in [Ids -> 0..NoRequest] /\ calls \in [Requests -> Nat] /\ Len(tasks) \in Nat
  BY SeqLength, Zenon DEF SessionTypeOK
<1>3. tasks' = tasks => (\A r : HasTask(r)' <=> HasTask(r)) /\ O2'
  BY <1>0, Zenon DEF HasTask, Calling
<1>4. ASSUME NEW t \in Tasks, tasks' = Append(tasks, t), Calling(t) => ~HasTask(t.request)
      PROVE O2'
  <2> SUFFICES ASSUME NEW i \in 1..Len(tasks'), NEW j \in 1..Len(tasks'), Calling(tasks'[i]),
                      Calling(tasks'[j]), tasks'[i].request = tasks'[j].request
               PROVE i = j
    BY Zenon DEF Calling
  <2>1. /\ Len(tasks') = Len(tasks) + 1
        /\ \A k \in 1..Len(tasks) : tasks'[k] = tasks[k]
        /\ tasks'[Len(tasks) + 1] = t
    BY <1>4, OneTask, Zenon
  <2>2. 1..Len(tasks') = 1..Len(tasks) \cup {Len(tasks) + 1}  BY <1>2, <2>1
  <2>3. CASE i \in 1..Len(tasks) /\ j \in 1..Len(tasks)  BY <1>0, <2>1, <2>3, Zenon
  <2>4. CASE i = Len(tasks) + 1 /\ j \in 1..Len(tasks)  BY <1>4, <2>1, <2>4, Zenon DEF HasTask
  <2>5. CASE i \in 1..Len(tasks) /\ j = Len(tasks) + 1  BY <1>4, <2>1, <2>5, Zenon DEF HasTask
  <2> QED  BY <2>2, <2>3, <2>4, <2>5, Zenon
<1>5. ASSUME NEW t \in Tasks, tasks' = Append(tasks, t), ~Calling(t)
      PROVE (\A r : HasTask(r)' <=> HasTask(r)) /\ O2'
  BY <1>4, <1>5, OneTaskOwed, Zenon
<1>6. ASSUME \A r : HasTask(r)' <=> HasTask(r), O2', calls' = calls, registered' = registered,
             \A q \in Requests : Unsent(q)' => Unsent(q),
             \/ m_callBacks' = m_callBacks /\ (dropping => dropping')
             \/ \E k \in Ids : m_callBacks' = [m_callBacks EXCEPT ![k] = NoRequest] /\ (dropping => dropping')
             \/ m_callBacks' = [k \in Ids |-> NoRequest]
      PROVE Owed'
  <2>1. NoRequest \notin Requests /\ \A r \in Requests : Id(r) \in Ids  BY Numbers
  <2>2. \A r \in Requests : m_callBacks'[Id(r)] = r => m_callBacks[Id(r)] = r /\ (dropping => dropping')
    BY <1>2, <1>6, <2>1, Zenon
  <2>3. O4'
    <3>1. \A k \in Ids : m_callBacks'[k] = m_callBacks[k] \/ m_callBacks'[k] = NoRequest
      BY <1>2, <1>6, Zenon
    <3> QED  BY <1>0, <2>1, <3>1, Zenon
  <2>4. O1'  BY <1>0, <1>6, Zenon
  <2>5. O3'  BY <1>0, <1>6, <2>2, Zenon
  <2>6. O5'  BY <1>0, <1>6, <2>2, Zenon
  <2> QED  BY <1>1, <1>6, <2>3, <2>4, <2>5, <2>6, Zenon
<1>7. UNCHANGED <<started, next, sending>> => \A q \in Requests : Unsent(q)' => Unsent(q)
  BY DEF Unsent
<1>8. ASSUME NEW r \in Requests, Unsent(r), ~Unsent(r)', \A q \in Requests : Unsent(q)' => Unsent(q),
             add_resp_callback(r), UNCHANGED <<tasks, calls, dropping>>
      PROVE Owed'
  <2>1. Id(r) \in Ids /\ \A q \in Requests : Id(q) \in Ids  BY Numbers
  <2>2. m_callBacks' = [m_callBacks EXCEPT ![Id(r)] = r] /\ registered' = registered \cup {r}
    BY <1>8, Zenon DEF add_resp_callback
  <2>3. \A r1 : HasTask(r1)' <=> HasTask(r1)  BY <1>3, <1>8, Zenon
  <2>4. \A q \in Requests : m_callBacks'[Id(q)] = q => q = r \/ m_callBacks[Id(q)] = q
    BY <1>2, <2>1, <2>2, Zenon
  <2>5. O1' /\ O2'  BY <1>0, <1>3, <1>8, <2>3, Zenon
  <2>6. O3'  BY <1>0, <1>8, <2>3, <2>4, Zenon
  <2>7. O4'  BY <1>0, <1>2, <1>8, <2>1, <2>2, Zenon
  <2>8. O5'  BY <1>0, <1>8, <2>2, <2>3, <2>4, Zenon
  <2> QED  BY <1>1, <2>5, <2>6, <2>7, <2>8, Zenon
<1>9. CASE send_check
  <2>1. /\ sending = "idle" /\ next \in Requests /\ next # 0 /\ next \in Nat
        /\ UNCHANGED <<started, tasks, m_callBacks, registered, dropping>>
    BY <1>9, Numbers DEF send_check, session, callbacks, Requests
  <2>2. CASE sending' = "checked" /\ UNCHANGED <<calls, next>>
    <3>1. \A q \in Requests : Unsent(q)' => Unsent(q)  BY <2>1, <2>2, Zenon DEF Unsent
    <3> QED  BY <1>3, <1>6, <2>1, <2>2, <3>1, Zenon
  <2>3. CASE respCallback(next, NoRequest) /\ next' = next + 1 /\ sending' = sending
    <3>1. \A q \in Requests : Unsent(q)' => Unsent(q) /\ q # next
      BY <2>1, <2>3 DEF Unsent, Requests
    <3>2. Unsent(next)  BY <2>1 DEF Unsent
    <3>3. \A q \in Requests : q # next => calls'[q] = calls[q]  BY <1>2, <2>3, Zenon
                                                                   DEF respCallback
    <3>4. \A r : HasTask(r)' <=> HasTask(r)  BY <1>3, <2>1, Zenon
    <3>5. O1' /\ O2'  BY <1>0, <1>3, <2>1, <3>2, <3>3, <3>4, Zenon
    <3>6. O3' /\ O4'  BY <1>0, <2>1, <3>2, <3>3, <3>4, Zenon
    <3>7. O5'  BY <1>0, <2>1, <3>1, <3>3, <3>4, Zenon
    <3> QED  BY <1>1, <3>5, <3>6, <3>7, Zenon
  <2> QED  BY <1>9, <2>2, <2>3, Zenon DEF send_check, results
<1>10. CASE send_register
  <2>1. /\ sending = "checked" /\ sending' = "added" /\ next \in Requests /\ next' = next /\ next # 0
        /\ started' = started /\ add_resp_callback(next) /\ UNCHANGED <<tasks, calls, dropping>>
    BY <1>10 DEF send_register, Sends, session, results, SessionTypeOK
  <2>2. Unsent(next) /\ ~Unsent(next)'  BY <2>1 DEF Unsent, Requests
  <2>3. \A q \in Requests : Unsent(q)' => Unsent(q)  BY <2>1, Zenon DEF Unsent
  <2> QED  BY <1>8, <2>1, <2>2, <2>3, Zenon
<1>11. CASE send_post
  <2>1. /\ next \in Requests /\ next' = next + 1
        /\ UNCHANGED <<started, tasks, calls, m_callBacks, registered, dropping>>
    BY <1>11, Zenon DEF send_post, Sends, session, results, callbacks
  <2>2. \A q \in Requests : Unsent(q)' => Unsent(q)  BY <2>1 DEF Unsent, Requests
  <2> QED  BY <1>3, <1>6, <2>1, <2>2, Zenon
<1>12. CASE start_session
  <2>1. 0 \in Requests /\ Unsent(0) /\ ~Unsent(0)'  BY <1>12, Numbers, Zenon
                                                       DEF start_session, Unsent
  <2>2. \A q \in Requests : Unsent(q)' => Unsent(q)  BY <1>12, Zenon DEF start_session, Unsent
  <2> QED  BY <1>8, <1>12, <2>1, <2>2, Zenon DEF start_session, results
<1>13. CASE drop_clear
  <2>1. Task("disconnect", 0, NoRequest) \in Tasks  BY Numbers, TaskType
  <2>2. ~Calling(Task("disconnect", 0, NoRequest))  BY DEF Task, Calling
  <2> QED  BY <1>5, <1>6, <1>7, <1>13, <2>1, <2>2, Zenon DEF drop_clear, results
<1>14. ASSUME drop_call, ~dropping, UNCHANGED <<started, calls, next, sending>> PROVE Owed'
  <2>1. \A r \in Waiting : r \in Requests /\ calls[r] = 0 /\ ~HasTask(r) /\ ~Unsent(r)
    BY <1>0, <1>14, Zenon DEF Waiting
  <2>2. \A r : HasTask(r)' => HasTask(r) \/ r \in Waiting  BY <1>14, DropOwed, Zenon
  <2>3. dropping' /\ m_callBacks' = m_callBacks /\ registered' = registered  BY <1>14, Zenon
                                                                                DEF drop_call
  <2>4. O2'  BY <1>0, <1>14, <2>1, DropOwed DEF Calling
  <2>5. O1'  BY <1>0, <1>14, <2>1, <2>2, Zenon
  <2>6. O3' /\ O4'  BY <1>0, <2>3, Zenon
  <2>7. O5'  BY <1>0, <1>7, <1>14, <2>1, <2>2, <2>3, Zenon
  <2> QED  BY <1>1, <2>4, <2>5, <2>6, <2>7, Zenon
<1>15. CASE write_error
  BY <1>3, <1>6, <1>7, <1>14, <1>15, Zenon DEF write_error, IoFree, session, callbacks, results
<1>16. CASE read_error
  BY <1>3, <1>6, <1>7, <1>14, <1>16, Zenon DEF read_error, IoFree, session, callbacks, results
<1>17. ASSUME NEW r \in Requests, on_response_timeout(r) PROVE Owed'
  <2>1. Task("null", r, NoRequest) \in Tasks /\ Id(r) \in Ids  BY Numbers, TaskType
  <2>2. ~Calling(Task("null", r, NoRequest))  BY DEF Task, Calling
  <2>3. (\A q : HasTask(q)' <=> HasTask(q)) /\ O2'
    BY <1>3, <1>5, <1>17, <2>1, <2>2, Zenon DEF on_response_timeout
  <2>4. \E k \in Ids : m_callBacks' = [m_callBacks EXCEPT ![k] = NoRequest]
    BY <1>17, <2>1, Zenon DEF on_response_timeout, response_callback
  <2> QED  BY <1>6, <1>7, <1>17, <2>3, <2>4, Zenon DEF on_response_timeout, session, results
<1>18. ASSUME NEW r \in Requests, on_read(r) PROVE Owed'
  <2> DEFINE q == m_callBacks[Id(r)]
             t == Task(IF q = NoRequest THEN "unknown" ELSE "answer", q, r)
  <2>1. /\ ~dropping /\ tasks' = Append(tasks, t) /\ m_callBacks' = [m_callBacks EXCEPT ![Id(r)] = NoRequest]
        /\ UNCHANGED <<calls, registered, dropping, started, next, sending>>
    BY <1>18, Zenon DEF on_read, IoFree, response_callback, session, results
  <2>2. q \in 0..NoRequest /\ r \in 0..NoRequest /\ Id(r) \in Ids  BY <1>2, Numbers, Zenon
  <2>3. t \in Tasks  BY <2>2, TaskType, Zenon
  <2>4. q # NoRequest => q \in Requests  BY <2>2, Numbers DEF Requests, NoRequest
  <2>5. t.request = q /\ (Calling(t) <=> q # NoRequest)  BY DEF Task, Calling
  <2> HIDE DEF t
  <2>6. CASE q = NoRequest
    <3>1. (\A r1 : HasTask(r1)' <=> HasTask(r1)) /\ O2'  BY <1>5, <2>1, <2>3, <2>5, <2>6, Zenon
    <3> QED  BY <1>6, <1>7, <2>1, <2>2, <3>1, Zenon
  <2>7. CASE q # NoRequest
    <3>1. q \in Requests /\ m_callBacks[Id(q)] = q /\ Id(q) = Id(r)  BY <1>0, <2>2, <2>4, <2>7, Zenon
    <3>2. calls[q] = 0 /\ ~HasTask(q) /\ ~Unsent(q)  BY <1>0, <2>1, <3>1, Zenon
    <3>3. \A r1 : HasTask(r1)' <=> HasTask(r1) \/ r1 = q  BY <2>1, <2>3, <2>5, <2>7, OneTaskOwed, Zenon
    <3>4. \A r1 \in Requests : m_callBacks'[Id(r1)] = r1 => m_callBacks[Id(r1)] = r1 /\ r1 # q
      BY <1>2, <2>1, <2>2, <3>1, Numbers, Zenon
    <3>5. O2'  BY <1>4, <2>1, <2>3, <2>5, <3>2, Zenon
    <3>6. O1'  BY <1>0, <2>1, <3>2, <3>3, Zenon
    <3>7. O3'  BY <1>0, <2>1, <3>3, <3>4, Zenon
    <3>8. O4'  BY <1>0, <1>2, <2>1, <2>2, Numbers, Zenon
    <3>9. O5'  BY <1>0, <1>7, <2>1, <3>2, <3>3, <3>4, Zenon
    <3> QED  BY <1>1, <3>5, <3>6, <3>7, <3>8, <3>9, Zenon
  <2> QED  BY <2>6, <2>7, Zenon
<1>19. CASE run_task
  <2> DEFINE c == tasks[1].request
  <2>1. UNCHANGED <<dropping, m_callBacks, registered, started, next, sending>>
    BY <1>19, Zenon DEF run_task
  <2>2. /\ Len(tasks') = Len(tasks) - 1 /\ 1 \in 1..Len(tasks)
        /\ \A i \in 1..Len(tasks') : tasks'[i] = tasks[i + 1]
    BY <1>19, TaskStep, Zenon
  <2>3. \A i \in 1..Len(tasks') : i + 1 \in 1..Len(tasks)  BY <1>2, <2>2
  <2>4. O2'
    <3> SUFFICES ASSUME NEW i \in 1..Len(tasks'), NEW j \in 1..Len(tasks'), Calling(tasks'[i]),
                        Calling(tasks'[j]), tasks'[i].request = tasks'[j].request
                 PROVE i = j
      BY Zenon DEF Calling
    <3>1. i + 1 = j + 1  BY <1>0, <2>2, <2>3, SMTT(40)
    <3> QED  BY <1>2, <2>2, <3>1
  <2>5. \A r : HasTask(r)' <=> HasTask(r) /\ ~(Calling(tasks[1]) /\ c = r)  BY <1>19, RunOwed, Zenon
  <2>6. Calling(tasks[1]) => HasTask(c)  BY <2>2, Zenon DEF HasTask
  <2>7. \A r \in Requests : ~(Calling(tasks[1]) /\ c = r) => calls'[r] = calls[r]
    BY <1>2, <1>19, TaskStep, Zenon DEF Calling, respCallback
  <2>8. O1'  BY <1>0, <2>5, <2>7, Zenon
  <2>9. O3'  BY <1>0, <2>1, <2>5, <2>6, <2>7
  <2>10. O4'  BY <1>0, <2>1, Zenon
  <2>11. O5'  BY <1>0, <1>7, <2>1, <2>5, <2>6, <2>7
  <2> QED  BY <1>1, <2>4, <2>8, <2>9, <2>10, <2>11, Zenon
<1>20. ASSUME NEW r \in Requests, expire(r) PROVE Owed'
  BY <1>3, <1>6, <1>7, <1>20, Zenon DEF expire, session, results
<1>21. CASE on_write \/ on_write_packet
  BY <1>3, <1>6, <1>7, <1>21, Zenon DEF on_write, on_write_packet, session, callbacks, results
<1>22. CASE send_dangling \/ lose \/ UNCHANGED sessionVars
  BY <1>3, <1>6, <1>7, <1>22 DEF send_dangling, lose, sessionVars, session, callbacks, results
<1> QED
  BY <1>9, <1>10, <1>11, <1>12, <1>13, <1>15, <1>16, <1>17, <1>18, <1>19, <1>20, <1>21, <1>22, Zenon
  DEF SessionNext, SendStep, IoStep, NodeStep

\* A callback is called when it has a task, or when its request is refused.
LEMMA CalledStep == SessionTypeOK /\ Tasked /\ Owed /\ CalledOnce /\ [SessionNext]_sessionVars => CalledOnce'
<1> SUFFICES ASSUME SessionTypeOK, Tasked, Owed, CalledOnce, [SessionNext]_sessionVars PROVE CalledOnce'  OBVIOUS
<1>1. calls \in [Requests -> Nat]  BY DEF SessionTypeOK
<1>2. calls' = calls => CalledOnce'  BY DEF CalledOnce
<1>3. ASSUME NEW r \in Requests, calls[r] = 0, calls' = [calls EXCEPT ![r] = @ + 1] PROVE CalledOnce'
  BY <1>1, <1>3 DEF CalledOnce
<1>4. CASE send_check
  <2>1. next \in Requests /\ Unsent(next)  BY <1>4 DEF send_check, Unsent, Requests
  <2>2. calls[next] = 0  BY <2>1, Zenon DEF Owed
  <2> QED  BY <1>2, <1>3, <1>4, <2>1, <2>2, Zenon DEF send_check, respCallback, results
<1>5. CASE run_task
  <2>1. 1 \in 1..Len(tasks)  BY <1>5, TaskStep, Zenon
  <2>2. ASSUME Calling(tasks[1]), tasks[1].request \in Requests PROVE calls[tasks[1].request] = 0
    BY <2>1, <2>2, Zenon DEF Owed, HasTask
  <2> QED  BY <1>2, <1>3, <1>5, <2>2, TaskStep, Zenon DEF Calling, respCallback
<1>6. CASE send_register \/ send_post \/ send_dangling \/ start_session \/ drop_clear \/ lose
  BY <1>2, <1>6, Zenon
     DEF send_register, send_post, send_dangling, start_session, drop_clear, lose, results
<1>7. CASE on_write \/ on_write_packet \/ write_error \/ read_error \/ UNCHANGED sessionVars
  BY <1>2, <1>7, Zenon DEF on_write, on_write_packet, write_error, read_error, results, sessionVars
<1>8. CASE \E r \in Requests : on_read(r) \/ on_response_timeout(r) \/ expire(r)
  BY <1>2, <1>8, Zenon DEF on_read, on_response_timeout, expire, results
<1> QED  BY <1>4, <1>5, <1>6, <1>7, <1>8, Zenon DEF SessionNext, SendStep, IoStep, NodeStep

-------------------------------------------------------------------------------
(* Requests in flight, and the callbacks their answers and timers find. *)

\* Appending and taking the head change the members of a queue by one.
LEMMA Members ==
  ASSUME NEW S, NEW s \in Seq(S), NEW e \in S
  PROVE  /\ \A q : (\E i \in 1..Len(Append(s, e)) : Append(s, e)[i] = q)
                     => (\E i \in 1..Len(s) : s[i] = q) \/ q = e
         /\ s # <<>> =>
              /\ \A q : (\E i \in 1..Len(Tail(s)) : Tail(s)[i] = q) => \E i \in 1..Len(s) : s[i] = q
              /\ Head(s) \in S /\ \E i \in 1..Len(s) : s[i] = Head(s)
<1>1. /\ Len(s) \in Nat /\ Len(Append(s, e)) = Len(s) + 1
      /\ \A i \in 1..Len(s) : Append(s, e)[i] = s[i]
      /\ Append(s, e)[Len(s) + 1] = e
  BY Appended, SeqLength
<1>2. 1..Len(Append(s, e)) = 1..Len(s) \cup {Len(s) + 1}  BY <1>1
<1>3. \A q : (\E i \in 1..Len(Append(s, e)) : Append(s, e)[i] = q)
               => (\E i \in 1..Len(s) : s[i] = q) \/ q = e
  BY <1>1, <1>2, Zenon
<1>4. ASSUME s # <<>>
      PROVE  /\ \A q : (\E i \in 1..Len(Tail(s)) : Tail(s)[i] = q) => \E i \in 1..Len(s) : s[i] = q
             /\ Head(s) \in S /\ \E i \in 1..Len(s) : s[i] = Head(s)
  <2>1. /\ Len(Tail(s)) = Len(s) - 1 /\ Head(s) = s[1] /\ Head(s) \in S
        /\ \A i \in 1..Len(Tail(s)) : Tail(s)[i] = s[i + 1]
    BY <1>4, HeadAndTail, Zenon
  <2>2. Len(s) # 0  BY <1>4, EmptySequence
  <2>3. 1 \in 1..Len(s) /\ \A i \in 1..Len(Tail(s)) : i + 1 \in 1..Len(s)  BY <1>1, <2>1, <2>2
  <2> QED  BY <2>1, <2>3, Zenon
<1> QED  BY <1>3, <1>4, Zenon

(* InFlight says what InUse says of the queues. *)
LEMMA InUseOf ==
  ASSUME SessionTypeOK, NEW r \in Requests, ~InUse(r), NEW q \in registered, Id(q) = Id(r), q # r, InFlight(q)
  PROVE  sending = "added" /\ q = next /\ timer[q] = "none"
<1> DEFINE both == m_queue \o posted
<1>1. m_queue \in Seq(Requests) /\ posted \in Seq(Requests)  BY DEF SessionTypeOK
<1>2. Len(m_queue) \in Nat /\ Len(posted) \in Nat  BY <1>1, SeqLength, Zenon
<1>3. /\ Len(both) = Len(m_queue) + Len(posted)
      /\ \A i \in 1..Len(both) : both[i] = IF i <= Len(m_queue) THEN m_queue[i] ELSE posted[i - Len(m_queue)]
  BY <1>1, Concatenated
<1>4. \A i \in 1..Len(both) : both[i] # q  BY DEF InUse
<1> HIDE DEF both
<1>5. ASSUME NEW i \in 1..Len(m_queue) PROVE m_queue[i] # q
  <2>1. i \in 1..Len(both) /\ i <= Len(m_queue)  BY <1>2, <1>3
  <2> QED  BY <1>3, <1>4, <2>1, Zenon
<1>6. ASSUME NEW i \in 1..Len(posted) PROVE posted[i] # q
  <2>1. /\ Len(m_queue) + i \in 1..Len(both) /\ ~(Len(m_queue) + i <= Len(m_queue))
        /\ (Len(m_queue) + i) - Len(m_queue) = i
    BY <1>2, <1>3
  <2> QED  BY <1>3, <1>4, <2>1, Zenon
<1>7. q \notin wire /\ timer[q] = "none"  BY DEF InUse
<1> QED  BY <1>5, <1>6, <1>7, Zenon DEF InFlight

(* A request is in flight from the moment its callback is entered. *)
LEMMA FlightStep ==
  ASSUME SessionTypeOK, Sends, Tasked, WritesInOrder, [SessionNext]_sessionVars, NEW q \in Requests, InFlight(q)'
  PROVE  InFlight(q) \/ (q = next /\ send_register) \/ (q = 0 /\ start_session)
<1> DEFINE Queued(s) == \E i \in 1..Len(s) : s[i] = q
           Sent == sending = "added" /\ q = next
<1>0. InFlight(q) <=> q \in wire \/ timer[q] # "none" \/ Queued(m_queue) \/ Queued(posted) \/ Sent
  BY DEF InFlight
<1>1. q \in wire' \/ timer'[q] # "none" \/ Queued(m_queue') \/ Queued(posted') \/ Sent'
  BY DEF InFlight
<1>2. /\ m_queue \in Seq(Requests) /\ posted \in Seq(Requests)
      /\ timer \in [Requests -> {"none", "armed", "due"}]
  BY Zenon DEF SessionTypeOK
<1>3. ASSUME NEW S PROVE Cancelled(S)[q] # "none" => timer[q] # "none"  BY DEF Cancelled
<1>4. \A s \in Seq(Requests), e \in Requests : Queued(Append(s, e)) => Queued(s) \/ q = e  BY Members
<1>5. \A s \in Seq(Requests) : s # <<>> =>
         (Queued(Tail(s)) => Queued(s)) /\ (q = Head(s) => Queued(s)) /\ Head(s) \in Requests
  <2> SUFFICES ASSUME NEW s \in Seq(Requests), s # <<>>
               PROVE (Queued(Tail(s)) => Queued(s)) /\ (q = Head(s) => Queued(s)) /\ Head(s) \in Requests
    OBVIOUS
  <2> QED  BY Numbers, Members
<1> HIDE DEF Queued
<1> USE DEF queues
<1>6. CASE send_check  BY <1>0, <1>1, <1>6, Zenon DEF send_check, callbacks
<1>7. CASE send_register
  <2>1. sending = "checked" /\ next' = next /\ timer' = [timer EXCEPT ![next] = "armed"] /\ UNCHANGED queues
    BY <1>7, Zenon DEF send_register, add_resp_callback
  <2> QED  BY <1>0, <1>1, <1>2, <1>7, <2>1, Zenon
<1>8. CASE send_post
  <2>1. /\ sending = "added" /\ sending' = "idle" /\ next \in Requests /\ posted' = Append(posted, next)
        /\ UNCHANGED <<m_queue, wire, timer>>
    BY <1>8, Zenon DEF send_post, post, Sends, callbacks
  <2> QED  BY <1>0, <1>1, <1>2, <1>4, <2>1, Zenon
<1>9. CASE start_session
  <2>1. /\ timer' = [timer EXCEPT ![0] = "armed"] /\ posted' = Append(posted, 0) /\ 0 \in Requests
        /\ UNCHANGED <<m_queue, wire, sending, next>>
    BY <1>9, Numbers, Zenon DEF start_session, add_resp_callback, post
  <2> QED  BY <1>0, <1>1, <1>2, <1>4, <1>9, <2>1, Zenon
<1>10. CASE on_write
  <2>1. /\ posted # <<>> /\ posted' = Tail(posted) /\ m_queue' = Append(m_queue, Head(posted))
        /\ UNCHANGED <<wire, timer, sending, next>>
    BY <1>10, Zenon DEF on_write, callbacks
  <2>2. Queued(m_queue') => Queued(m_queue) \/ q = Head(posted)  BY <1>2, <1>4, <1>5, <2>1, Zenon
  <2> QED  BY <1>0, <1>1, <1>2, <1>5, <2>1, <2>2, Zenon
<1>11. CASE on_write_packet
  <2>1. /\ m_queue # <<>> /\ m_queue' = Tail(m_queue) /\ wire' = wire \cup {Head(m_queue)}
        /\ UNCHANGED <<posted, timer, sending, next>>
    BY <1>11, Zenon DEF on_write_packet, callbacks, WritesInOrder
  <2> QED  BY <1>0, <1>1, <1>2, <1>5, <2>1, Zenon
<1>12. CASE write_error
  <2>1. UNCHANGED <<m_queue, posted, wire, sending, next>>  BY <1>12, Zenon DEF write_error
  <2>2. timer' = timer \/ timer' = Cancelled(Waiting)  BY <1>12, Zenon
                                                          DEF write_error, callbacks, drop_call
  <2> QED  BY <1>0, <1>1, <1>3, <2>1, <2>2, Zenon
<1>13. CASE read_error
  <2>1. UNCHANGED <<m_queue, posted, wire, sending, next>>  BY <1>13, Zenon DEF read_error
  <2>2. timer' = timer \/ timer' = Cancelled(Waiting)  BY <1>13, Zenon
                                                          DEF read_error, callbacks, drop_call
  <2> QED  BY <1>0, <1>1, <1>3, <2>1, <2>2, Zenon
<1>14. CASE run_task
  <2>1. UNCHANGED <<m_queue, posted, wire, sending, next>>  BY <1>14, Zenon DEF run_task
  <2>2. timer' = timer \/ timer' = Cancelled({tasks[1].request})  BY <1>14, TaskStep, Zenon
  <2> QED  BY <1>0, <1>1, <1>3, <2>1, <2>2, Zenon
<1>15. ASSUME NEW r \in Requests, expire(r) PROVE InFlight(q)
  <2>1. /\ timer[r] = "armed" /\ timer' = [timer EXCEPT ![r] = "due"]
        /\ UNCHANGED <<m_queue, posted, wire, sending, next>>
    BY <1>15, Zenon DEF expire
  <2> QED  BY <1>0, <1>1, <1>2, <2>1, Zenon
<1>16. ASSUME NEW r \in Requests, on_response_timeout(r) PROVE InFlight(q)
  <2>1. /\ timer' = [timer EXCEPT ![r] = "none"]
        /\ UNCHANGED <<m_queue, posted, wire, sending, next>>
    BY <1>16, Zenon DEF on_response_timeout
  <2> QED  BY <1>0, <1>1, <1>2, <2>1, Zenon
<1>17. ASSUME NEW r \in Requests, on_read(r) PROVE InFlight(q)
  BY <1>0, <1>1, <1>17, Zenon DEF on_read
<1>18. CASE drop_clear \/ send_dangling \/ lose \/ UNCHANGED sessionVars
  BY <1>0, <1>1, <1>18, Zenon DEF drop_clear, send_dangling, lose, sessionVars, callbacks
<1> QED
  BY <1>6, <1>7, <1>8, <1>9, <1>10, <1>11, <1>12, <1>13, <1>14, <1>15, <1>16, <1>17, <1>18, Zenon
  DEF SessionNext, SendStep, IoStep, NodeStep

\* Only requests that were entered in m_callBacks have messages or timers.
LEMMA KnownStep ==
  SessionTypeOK /\ Sends /\ Tasked /\ WritesInOrder /\ Known /\ [SessionNext]_sessionVars => Known'
<1> SUFFICES ASSUME SessionTypeOK, Sends, Tasked, WritesInOrder, Known, [SessionNext]_sessionVars PROVE Known'  OBVIOUS
<1>1. timer \in [Requests -> {"none", "armed", "due"}]  BY DEF SessionTypeOK
<1>2. /\ registered \subseteq registered' /\ expired \subseteq expired'
      /\ \A q \in Requests : timer'[q] = "due" => timer[q] = "due" \/ q \in expired'
  <2> DEFINE Goal == /\ registered \subseteq registered' /\ expired \subseteq expired'
                     /\ \A q \in Requests : timer'[q] = "due" => timer[q] = "due" \/ q \in expired'
  <2>1. \A S : \A q \in Requests : Cancelled(S)[q] = "due" => timer[q] = "due"  BY DEF Cancelled
  <2> USE DEF callbacks
  <2>2. CASE send_check \/ send_post \/ send_dangling \/ lose \/ UNCHANGED sessionVars \/ drop_clear
    BY <2>2, Zenon DEF send_check, send_post, send_dangling, lose, sessionVars, drop_clear
  <2>3. CASE send_register \/ start_session
    BY <1>1, <2>3, Zenon DEF send_register, start_session, add_resp_callback
  <2>4. CASE on_write \/ on_write_packet  BY <2>4, Zenon DEF on_write, on_write_packet
  <2>5. CASE write_error \/ read_error  BY <2>1, <2>5, Zenon DEF write_error, read_error, drop_call
  <2>6. CASE run_task
    <3>1. UNCHANGED <<registered, expired>>  BY <2>6, Zenon DEF run_task
    <3>2. timer' = timer \/ timer' = Cancelled({tasks[1].request})  BY <2>6, TaskStep, Zenon
    <3> QED  BY <2>1, <3>1, <3>2, Zenon
  <2>7. CASE \E r \in Requests : on_read(r)  BY <2>7, Zenon DEF on_read
  <2>8. ASSUME NEW r \in Requests, expire(r) PROVE Goal  BY <1>1, <2>8, Zenon DEF expire
  <2>9. ASSUME NEW r \in Requests, on_response_timeout(r) PROVE Goal
    BY <1>1, <2>9, Zenon DEF on_response_timeout
  <2> QED
    BY <2>2, <2>3, <2>4, <2>5, <2>6, <2>7, <2>8, <2>9, Zenon
       DEF SessionNext, SendStep, IoStep, NodeStep
<1>3. ASSUME NEW q \in Requests, InFlight(q)' PROVE q \in registered'
  <2>1. InFlight(q) \/ (q = next /\ send_register) \/ (q = 0 /\ start_session)  BY <1>3, FlightStep, Zenon
  <2> QED  BY <1>2, <2>1, Zenon DEF Known, send_register, start_session, add_resp_callback
<1> QED  BY <1>2, <1>3, Zenon DEF Known

\* on_read and the timer find under an id the callback of their own request, or none,
\* as long as no id was given out in use.
LEMMA OwnStep ==
  ASSUME SessionTypeOK, Sends, NotStarted, Tasked, WritesInOrder, Known, Own, [SessionNext]_sessionVars
  PROVE  Own'
<1> DEFINE
  P1 == \A r \in Requests : got[r] \in {r, NoRequest}
  P2 == \A i \in 1..Len(tasks) : tasks[i].kind = "answer" => tasks[i].answer = tasks[i].request
  P3 == \A q \in Requests : InFlight(q) => m_callBacks[Id(q)] \in {q, NoRequest}
<1>1. reused => reused'
  BY TaskStep, Zenon DEF SessionNext, SendStep, IoStep, NodeStep, sessionVars, callbacks, send_check, send_register,
     send_post, send_dangling, start_session, add_resp_callback, drop_clear, drop_call, on_write,
     on_write_packet, write_error, read_error, on_response_timeout, on_read, run_task, lose, expire
<1>2. SUFFICES ASSUME ~reused' PROVE P1' /\ P2' /\ P3'  BY Zenon DEF Own
<1>3. P1 /\ P2 /\ P3  BY <1>1, <1>2, Zenon DEF Own
<1>4. /\ m_callBacks \in [Ids -> 0..NoRequest] /\ got \in [Requests -> 0..NoRequest]
      /\ Len(tasks) \in Nat /\ tasks \in Seq(Tasks) /\ \A r \in Requests : Id(r) \in Ids
  BY Numbers, SeqLength, Zenon DEF SessionTypeOK
<1>5. got' = got => P1'  BY <1>3, Zenon
<1>6. tasks' = tasks => P2'  BY <1>3, Zenon
<1>7. ASSUME NEW t \in Tasks, tasks' = Append(tasks, t), t.kind = "answer" => t.answer = t.request
      PROVE P2'
  <2>1. /\ Len(tasks') = Len(tasks) + 1
        /\ \A k \in 1..Len(tasks) : tasks'[k] = tasks[k]
        /\ tasks'[Len(tasks) + 1] = t
    BY <1>7, OneTask, Zenon
  <2>2. 1..Len(tasks') = 1..Len(tasks) \cup {Len(tasks) + 1}  BY <1>4, <2>1
  <2> QED  BY <1>3, <1>7, <2>1, <2>2, Zenon
<1>8. ASSUME \A q \in Requests : InFlight(q)' => InFlight(q),
             \A i \in Ids : m_callBacks'[i] \in {m_callBacks[i], NoRequest}
      PROVE P3'
  BY <1>3, <1>4, <1>8, Zenon
<1>9. ASSUME NEW r \in Requests, add_resp_callback(r), \A q \in Requests : InFlight(q)' => InFlight(q) \/ q = r,
             \A q \in registered : sending = "added" /\ q = next => timer[q] # "none"
      PROVE P3'
  <2>1. m_callBacks' = [m_callBacks EXCEPT ![Id(r)] = r] /\ ~InUse(r)
    BY <1>2, <1>9, Zenon DEF add_resp_callback
  <2> SUFFICES ASSUME NEW q \in Requests, InFlight(q)' PROVE m_callBacks'[Id(q)] \in {q, NoRequest}
    OBVIOUS
  <2>2. CASE q = r  BY <1>4, <2>1, <2>2, Zenon
  <2>3. CASE q # r /\ Id(q) = Id(r)
    <3>1. InFlight(q) /\ q \in registered  BY <1>9, <2>3, Zenon DEF Known
    <3>2. sending = "added" /\ q = next /\ timer[q] = "none"  BY <2>1, <2>3, <3>1, InUseOf, Zenon
    <3> QED  BY <1>9, <3>1, <3>2, Zenon
  <2>4. CASE q # r /\ Id(q) # Id(r)  BY <1>3, <1>4, <1>9, <2>1, <2>4, Zenon
  <2> QED  BY <2>2, <2>3, <2>4, Zenon
<1>10. CASE send_register
  <2>1. /\ sending = "checked" /\ next \in Requests /\ add_resp_callback(next)
        /\ UNCHANGED <<got, tasks>>
    BY <1>10 DEF send_register, Sends, results
  <2>2. \A q \in Requests : InFlight(q)' => InFlight(q) \/ q = next
    <3>1. ~start_session  BY <1>10, Zenon DEF start_session, send_register, session
    <3> QED  BY <3>1, FlightStep, Zenon
  <2> QED  BY <1>5, <1>6, <1>9, <2>1, <2>2, Zenon
<1>11. CASE start_session
  <2>1. ~started /\ add_resp_callback(0) /\ 0 \in Requests /\ UNCHANGED <<got, tasks, sending>>
    BY <1>11, Numbers, Zenon DEF start_session, results
  <2>2. \A q \in Requests : InFlight(q)' => InFlight(q) \/ q = 0
    BY <2>1, FlightStep, Zenon DEF send_register
  <2> QED  BY <1>5, <1>6, <1>9, <2>1, <2>2, Zenon DEF NotStarted
<1>12. CASE ~send_register /\ ~start_session
  <2>0. \A q \in Requests : InFlight(q)' => InFlight(q)  BY <1>12, FlightStep, Zenon
  <2>1. m_callBacks' = m_callBacks => P3'  BY <1>8, <2>0, Zenon
  <2> USE DEF callbacks, results
  <2>2. CASE send_check
    <3>1. m_callBacks' = m_callBacks /\ tasks' = tasks  BY <2>2, Zenon DEF send_check
    <3>2. P1'  BY <1>3, <1>4, <2>2, Zenon DEF send_check, respCallback
    <3> QED  BY <1>6, <2>1, <3>1, <3>2, Zenon
  <2>3. CASE send_post \/ send_dangling \/ lose \/ UNCHANGED sessionVars
    BY <1>5, <1>6, <2>1, <2>3, Zenon DEF send_post, send_dangling, lose, sessionVars
  <2>4. CASE on_write \/ on_write_packet
    BY <1>5, <1>6, <2>1, <2>4, Zenon DEF on_write, on_write_packet
  <2>5. CASE drop_clear
    <3>1. Task("disconnect", 0, NoRequest) \in Tasks /\ Task("disconnect", 0, NoRequest).kind # "answer"
      BY Numbers, TaskType DEF Task
    <3>2. P2'  BY <1>7, <2>5, <3>1, Zenon DEF drop_clear
    <3>3. P3'  BY <1>8, <2>0, <2>5, Zenon DEF drop_clear
    <3> QED  BY <1>5, <2>5, <3>2, <3>3, Zenon DEF drop_clear
  <2>6. drop_call => P2'
    <3> SUFFICES ASSUME drop_call, NEW i \in 1..Len(tasks'), tasks'[i].kind = "answer"
                 PROVE tasks'[i].answer = tasks'[i].request
      OBVIOUS
    <3>1. PICK n \in Nat : \E f \in [1..n -> Waiting] :
             /\ Len(tasks') = Len(tasks) + n
             /\ \A j \in 1..Len(tasks) : tasks'[j] = tasks[j]
             /\ \A j \in 1..n : tasks'[Len(tasks) + j] = Task("error", f[j], NoRequest)
      BY DropPool, Zenon
    <3>2. CASE i \in 1..Len(tasks)  BY <1>3, <3>1, <3>2, Zenon
    <3>3. CASE i \notin 1..Len(tasks)
      <4>1. i - Len(tasks) \in 1..n /\ i = Len(tasks) + (i - Len(tasks))  BY <1>4, <3>1, <3>3
      <4>2. \E r : tasks'[i] = Task("error", r, NoRequest)  BY <3>1, <4>1, Zenon
      <4> QED  BY <4>2 DEF Task
    <3> QED  BY <3>2, <3>3, Zenon
  <2>7. CASE write_error  BY <1>5, <1>6, <2>1, <2>6, <2>7, Zenon DEF write_error, drop_call
  <2>8. CASE read_error  BY <1>5, <1>6, <2>1, <2>6, <2>8, Zenon DEF read_error, drop_call
  <2>9. ASSUME NEW r \in Requests, on_response_timeout(r) PROVE P1' /\ P2' /\ P3'
    <3>1. Task("null", r, NoRequest) \in Tasks /\ Task("null", r, NoRequest).kind # "answer"
      BY Numbers, TaskType DEF Task
    <3>2. P2'  BY <1>6, <1>7, <2>9, <3>1, Zenon DEF on_response_timeout
    <3>3. P3'  BY <1>4, <1>8, <2>0, <2>9, Zenon DEF on_response_timeout, response_callback
    <3> QED  BY <1>5, <2>9, <3>2, <3>3, Zenon DEF on_response_timeout
  <2>10. ASSUME NEW r \in Requests, on_read(r) PROVE P1' /\ P2' /\ P3'
    <3> DEFINE q == m_callBacks[Id(r)]
               t == Task(IF q = NoRequest THEN "unknown" ELSE "answer", q, r)
    <3>1. /\ tasks' = Append(tasks, t) /\ got' = got /\ r \in wire
          /\ m_callBacks' = [m_callBacks EXCEPT ![Id(r)] = NoRequest]
      BY <2>10, Zenon DEF on_read, response_callback
    <3>2. q \in {r, NoRequest}  BY <1>3, <3>1, Zenon DEF InFlight
    <3>3. q \in 0..NoRequest /\ r \in 0..NoRequest  BY <1>4, Numbers, Zenon
    <3>4. t \in Tasks  BY <3>3, TaskType, Zenon
    <3>5. t.kind = "answer" => t.answer = t.request  BY <3>2, Zenon DEF Task
    <3> HIDE DEF t
    <3>6. P2'  BY <1>7, <3>1, <3>4, <3>5, Zenon
    <3>7. P3'  BY <1>4, <1>8, <2>0, <3>1, Zenon
    <3> QED  BY <1>5, <3>1, <3>6, <3>7, Zenon
  <2>11. CASE run_task
    <3>1. /\ Len(tasks') = Len(tasks) - 1 /\ 1 \in 1..Len(tasks)
          /\ \A i \in 1..Len(tasks') : tasks'[i] = tasks[i + 1]
      BY <2>11, TaskStep, Zenon
    <3>2. \A i \in 1..Len(tasks') : i + 1 \in 1..Len(tasks)  BY <1>4, <3>1
    <3>3. P2'  BY <1>3, <3>1, <3>2, Zenon
    <3>4. P1'  BY <1>3, <1>4, <2>11, <3>1, TaskStep, Zenon DEF respCallback
    <3>5. P3'  BY <2>1, <2>11, Zenon DEF run_task
    <3> QED  BY <3>3, <3>4, <3>5, Zenon
  <2>12. ASSUME NEW r \in Requests, expire(r) PROVE P1' /\ P2' /\ P3'
    BY <1>5, <1>6, <2>1, <2>12, Zenon DEF expire
  <2> QED
    BY <1>12, <2>2, <2>3, <2>4, <2>5, <2>7, <2>8, <2>9, <2>10, <2>11, <2>12, Zenon
    DEF SessionNext, SendStep, IoStep, NodeStep
<1> QED  BY <1>10, <1>11, <1>12, Zenon

-------------------------------------------------------------------------------
(* No request is forgotten. *)

(* Calls are counted up: a callback that was called stays called. *)
LEMMA CallsStep ==
  ASSUME SessionTypeOK, Tasked, Owed, [SessionNext]_sessionVars, NEW r \in Requests, calls[r] = 1
  PROVE  calls'[r] = 1
<1>1. calls \in [Requests -> Nat]  BY Zenon DEF SessionTypeOK
<1>2. CASE send_check
  <2>1. next \in Requests /\ Unsent(next)  BY <1>2 DEF send_check, Unsent, Requests
  <2>2. calls[next] = 0  BY <2>1, Zenon DEF Owed
  <2>3. calls' = calls \/ calls' = [calls EXCEPT ![next] = @ + 1]
    BY <1>2, Zenon DEF send_check, respCallback, results
  <2> QED  BY <1>1, <2>1, <2>2, <2>3
<1>3. CASE run_task
  <2>1. 1 \in 1..Len(tasks)  BY <1>3, TaskStep, Zenon
  <2>2. Calling(tasks[1]) => tasks[1].request # r  BY <2>1 DEF Owed, HasTask
  <2> QED  BY <1>1, <1>3, <2>2, TaskStep, Zenon DEF Calling, respCallback
<1>4. CASE send_register \/ send_post \/ send_dangling \/ start_session \/ drop_clear \/ lose
  BY <1>4, Zenon
     DEF send_register, send_post, send_dangling, start_session, drop_clear, lose, results
<1>5. CASE on_write \/ on_write_packet \/ write_error \/ read_error \/ UNCHANGED sessionVars
  BY <1>5, Zenon DEF on_write, on_write_packet, write_error, read_error, results, sessionVars
<1>6. CASE \E q \in Requests : on_read(q) \/ on_response_timeout(q) \/ expire(q)
  BY <1>6, Zenon DEF on_read, on_response_timeout, expire, results
<1> QED  BY <1>2, <1>3, <1>4, <1>5, <1>6, Zenon DEF SessionNext, SendStep, IoStep, NodeStep

\* Until drop, a timer that has not run out ends only with the answer (on_read).
LEMMA KeptStep ==
  ASSUME SessionTypeOK, Sends, Tasked, Owed, Known, Kept, [SessionNext]_sessionVars
  PROVE  Kept'
<1>1. timer \in [Requests -> {"none", "armed", "due"}] /\ calls \in [Requests -> Nat]
      /\ registered \subseteq Requests
  BY Zenon DEF SessionTypeOK
<1>2. ASSUME m_isDrop => m_isDrop', expired \subseteq expired',
             \A r \in registered' \ expired' : timer'[r] = "none" => r \in registered /\ timer[r] = "none"
      PROVE Kept'
  BY <1>1, <1>2, CallsStep, Zenon DEF Kept
<1> USE DEF session, callbacks
<1>3. CASE send_check \/ send_post \/ send_dangling \/ lose \/ UNCHANGED sessionVars \/ drop_clear
  <2>1. UNCHANGED <<registered, timer, expired>> \/ drop_clear
    BY <1>3, Zenon DEF send_check, send_post, send_dangling, lose, sessionVars
  <2>2. m_isDrop => m_isDrop'
    BY <1>3, Zenon DEF send_check, send_post, send_dangling, lose, sessionVars, drop_clear
  <2>3. CASE UNCHANGED <<registered, timer, expired>>
    BY <1>2, <2>2, <2>3, Zenon
  <2>4. CASE drop_clear
    BY <1>2, <2>2, <2>4, Zenon DEF drop_clear
  <2> QED  BY <2>1, <2>3, <2>4, Zenon
<1>4. ASSUME NEW r \in Requests, add_resp_callback(r), m_isDrop' = m_isDrop PROVE Kept'
  BY <1>1, <1>2, <1>4, Zenon DEF add_resp_callback
<1>5. CASE send_register  BY <1>4, <1>5, Zenon DEF send_register, Sends
<1>6. CASE start_session  BY <1>4, <1>6, Numbers, Zenon DEF start_session
<1>7. CASE on_write \/ on_write_packet  BY <1>2, <1>7, Zenon DEF on_write, on_write_packet
<1>8. drop_call => Kept'  BY Zenon DEF drop_call, Kept
<1>9. CASE write_error  BY <1>2, <1>8, <1>9, Zenon DEF write_error
<1>10. CASE read_error  BY <1>2, <1>8, <1>10, Zenon DEF read_error
<1>11. ASSUME NEW r \in Requests, on_read(r) PROVE Kept'  BY <1>2, <1>11, Zenon DEF on_read
<1>12. ASSUME NEW r \in Requests, expire(r) PROVE Kept'  BY <1>1, <1>2, <1>12, Zenon DEF expire
<1>13. ASSUME NEW r \in Requests, on_response_timeout(r) PROVE Kept'
  <2>1. r \in expired /\ expired' = expired /\ registered' = registered /\ m_isDrop' = m_isDrop
        /\ timer' = [timer EXCEPT ![r] = "none"]
    BY <1>13, Zenon DEF on_response_timeout, Known
  <2> QED  BY <1>1, <1>2, <2>1, Zenon
<1>14. CASE run_task
  <2>1. UNCHANGED <<m_isDrop, registered, expired>>  BY <1>14, Zenon DEF run_task
  <2>2. CASE timer' = timer
    <3>1. /\ m_isDrop => m_isDrop'
          /\ expired \subseteq expired'
          /\ \A r \in registered' \ expired' : timer'[r] = "none" => r \in registered /\ timer[r] = "none"
      BY <2>1, <2>2, Zenon
    <3> QED  BY <1>2, <3>1, Zenon
  <2>3. CASE tasks[1].kind = "answer"
    <3> DEFINE c == tasks[1].request
    <3>1. /\ 1 \in 1..Len(tasks) /\ c \in Requests /\ timer' = Cancelled({c})
          /\ calls' = [calls EXCEPT ![c] = @ + 1]
      BY <1>14, <2>3, TaskStep, Zenon DEF respCallback
    <3>2. HasTask(c)  BY <2>3, <3>1, Zenon DEF HasTask, Calling
    <3>3. calls'[c] = 1
      <4>1. \A r \in Requests : HasTask(r) => calls[r] = 0  BY Zenon DEF Owed
      <4>2. calls[c] = 0  BY <3>1, <3>2, <4>1, Zenon
      <4>3. calls \in [Requests -> Nat] /\ c \in Requests  BY <1>1, <3>1, Zenon
      <4> HIDE DEF c
      <4> QED  BY <3>1, <4>2, <4>3
    <3>4. \A r \in Requests : r # c => timer'[r] = timer[r] /\ calls'[r] = calls[r]
      BY <1>1, <3>1, Zenon DEF Cancelled
    <3> HIDE DEF c
    <3> QED  BY <1>1, <2>1, <3>3, <3>4, Zenon DEF Kept
  <2> QED  BY <1>14, <2>2, <2>3, TaskStep, Zenon
<1> QED
  BY <1>3, <1>5, <1>6, <1>7, <1>9, <1>10, <1>11, <1>12, <1>13, <1>14, Zenon
     DEF SessionNext, SendStep, IoStep, NodeStep

\* Until drop no callback is lost between the map and the pool.
LEMMA ForgottenStep ==
  ASSUME SessionTypeOK, Sends, Tasked, Owed, Known, Own, Kept, Dropped, NoneForgotten, [SessionNext]_sessionVars
  PROVE  NoneForgotten'
<1> DEFINE InPool(r) == \E i \in 1..Len(tasks) : tasks[i].request = r
           Held(r) == m_callBacks[Id(r)] = r \/ calls[r] = 1 \/ InPool(r)
<1>1. /\ m_callBacks \in [Ids -> 0..NoRequest] /\ calls \in [Requests -> Nat] /\ registered \subseteq Requests
      /\ Len(tasks) \in Nat /\ tasks \in Seq(Tasks) /\ \A r \in Requests : Id(r) \in Ids
  BY Numbers, SeqLength, Zenon DEF SessionTypeOK
<1>2. SUFFICES ASSUME ~m_isDrop', ~reused', NEW r \in registered' \ expired' PROVE Held(r)'
  BY Zenon DEF NoneForgotten
<1>3. ASSUME ~m_isDrop, ~reused, r \in registered, r \notin expired PROVE Held(r)
  BY <1>3, Zenon DEF NoneForgotten
<1>4. r \in Requests /\ calls[r] = 1 => Held(r)'  BY CallsStep, Zenon
<1>5. ASSUME NEW t \in Tasks, tasks' = Append(tasks, t)
      PROVE (InPool(r) => InPool(r)') /\ (t.request = r => InPool(r)')
  <2>1. /\ Len(tasks') = Len(tasks) + 1
        /\ \A k \in 1..Len(tasks) : tasks'[k] = tasks[k]
        /\ tasks'[Len(tasks) + 1] = t
    BY <1>5, OneTask, Zenon
  <2>2. 1..Len(tasks') = 1..Len(tasks) \cup {Len(tasks) + 1}  BY <1>1, <2>1
  <2> QED  BY <2>1, <2>2, Zenon
<1>6. ASSUME UNCHANGED <<m_isDrop, reused, registered, m_callBacks, tasks>>, expired \subseteq expired'
      PROVE Held(r)'
  BY <1>1, <1>2, <1>3, <1>4, <1>6, Zenon
<1> USE DEF session, callbacks
<1>7. CASE send_check \/ send_post \/ send_dangling \/ lose \/ UNCHANGED sessionVars
  BY <1>6, <1>7, Zenon DEF send_check, send_post, send_dangling, lose, sessionVars
<1>8. CASE on_write \/ on_write_packet  BY <1>6, <1>8, Zenon DEF on_write, on_write_packet
<1>9. ASSUME NEW q \in Requests, add_resp_callback(q), UNCHANGED <<m_isDrop, tasks>> PROVE Held(r)'
  <2>1. /\ m_callBacks' = [m_callBacks EXCEPT ![Id(q)] = q] /\ registered' = registered \cup {q}
        /\ ~reused /\ ~InUse(q) /\ expired' = expired
    BY <1>2, <1>9, Zenon DEF add_resp_callback
  <2>2. CASE r = q  BY <1>1, <2>1, <2>2, Zenon
  <2>3. CASE r # q /\ Id(r) = Id(q)
    <3>1. r \in registered /\ r \notin expired /\ timer[r] = "none"  BY <1>2, <2>1, <2>3, Zenon
                                                                        DEF InUse
    <3> QED  BY <1>1, <1>2, <1>4, <1>9, <3>1, Zenon DEF Kept
  <2>4. CASE r # q /\ Id(r) # Id(q)
    <3>1. r \in registered /\ r \notin expired /\ r \in Requests /\ m_callBacks'[Id(r)] = m_callBacks[Id(r)]
      BY <1>1, <1>2, <2>1, <2>4, Zenon
    <3> QED  BY <1>2, <1>3, <1>4, <1>9, <2>1, <3>1, Zenon
  <2> QED  BY <2>2, <2>3, <2>4, Zenon
<1>10. CASE send_register  BY <1>9, <1>10, Zenon DEF send_register, Sends
<1>11. CASE start_session  BY <1>9, <1>11, Numbers, Zenon DEF start_session
<1>12. ~drop_call /\ ~drop_clear  BY <1>2, Zenon DEF drop_call, drop_clear, Dropped
<1>13. CASE write_error  BY <1>6, <1>12, <1>13, Zenon DEF write_error
<1>14. CASE read_error  BY <1>6, <1>12, <1>14, Zenon DEF read_error
<1>15. ASSUME NEW q \in Requests, expire(q) PROVE Held(r)'  BY <1>6, <1>15, Zenon DEF expire
<1>16. ASSUME NEW q \in Requests, on_response_timeout(q) PROVE Held(r)'
  <2>1. /\ timer[q] = "due" /\ m_callBacks' = [m_callBacks EXCEPT ![Id(q)] = NoRequest]
        /\ UNCHANGED <<m_isDrop, reused, registered, expired>>
    BY <1>16, Zenon DEF on_response_timeout, response_callback
  <2>2. q \in expired /\ m_callBacks[Id(q)] \in {q, NoRequest}
    BY <1>2, <2>1, Zenon DEF Known, Own, InFlight
  <2>3. r \in Requests /\ r # NoRequest /\ r # q  BY <1>1, <1>2, <2>1, <2>2, Numbers, Zenon
  <2>4. m_callBacks[Id(r)] = r => m_callBacks'[Id(r)] = r  BY <1>1, <2>1, <2>2, <2>3, Zenon
  <2>5. Task("null", q, NoRequest) \in Tasks  BY Numbers, TaskType
  <2>6. InPool(r) => InPool(r)'  BY <1>5, <1>16, <2>5, Zenon DEF on_response_timeout
  <2> QED  BY <1>2, <1>3, <1>4, <2>1, <2>3, <2>4, <2>6, Zenon
<1>17. ASSUME NEW q \in Requests, on_read(q) PROVE Held(r)'
  <2> DEFINE c == m_callBacks[Id(q)]
             t == Task(IF c = NoRequest THEN "unknown" ELSE "answer", c, q)
  <2>1. /\ tasks' = Append(tasks, t) /\ m_callBacks' = [m_callBacks EXCEPT ![Id(q)] = NoRequest]
        /\ UNCHANGED <<m_isDrop, reused, registered, expired>>
    BY <1>17, Zenon DEF on_read, response_callback
  <2>2. c \in 0..NoRequest /\ q \in 0..NoRequest  BY <1>1, Numbers, Zenon
  <2>3. t \in Tasks /\ t.request = c  BY <2>2, TaskType, Zenon DEF Task
  <2> HIDE DEF t
  <2>4. (InPool(r) => InPool(r)') /\ (c = r => InPool(r)')  BY <1>5, <2>1, <2>3, Zenon
  <2>5. r \in Requests /\ (m_callBacks[Id(r)] = r => m_callBacks'[Id(r)] = r \/ c = r)
    BY <1>1, <1>2, <2>1, Zenon
  <2> QED  BY <1>2, <1>3, <1>4, <2>1, <2>4, <2>5, Zenon
<1>18. CASE run_task
  <2>1. UNCHANGED <<m_isDrop, reused, registered, expired, m_callBacks>>  BY <1>18, Zenon
                                                                             DEF run_task
  <2>2. /\ Len(tasks') = Len(tasks) - 1 /\ 1 \in 1..Len(tasks)
        /\ \A i \in 1..Len(tasks') : tasks'[i] = tasks[i + 1]
    BY <1>18, TaskStep, Zenon
  <2>3. \A i \in 1..Len(tasks) : i # 1 => i - 1 \in 1..Len(tasks') /\ tasks'[i - 1] = tasks[i]
    BY <1>1, <2>2
  <2>4. InPool(r) => InPool(r)' \/ tasks[1].request = r  BY <2>3, Zenon
  <2>5. r \in Requests /\ r # NoRequest  BY <1>1, <1>2, <2>1, Numbers, Zenon
  <2>6. ASSUME tasks[1].request = r PROVE calls'[r] = 1
    <3>1. Calling(tasks[1])
      <4>1. tasks[1].kind \in {"answer", "error", "unknown", "null", "disconnect"}
        BY <1>18, TaskStep, Zenon DEF Tasks
      <4> QED  BY <1>2, <2>1, <2>2, <2>5, <2>6, <4>1, Zenon DEF Tasked, Calling
    <3>2. calls[r] = 0  BY <2>2, <2>5, <2>6, <3>1, Zenon DEF Owed, HasTask
    <3>3. calls' = [calls EXCEPT ![r] = @ + 1]
      BY <1>18, <2>6, <3>1, TaskStep, Zenon DEF Calling, respCallback
    <3> QED  BY <1>1, <2>5, <3>2, <3>3
  <2> QED  BY <1>2, <1>3, <1>4, <2>1, <2>4, <2>5, <2>6, Zenon
<1> QED
  BY <1>7, <1>8, <1>10, <1>11, <1>12, <1>13, <1>14, <1>15, <1>16, <1>17, <1>18, Zenon
  DEF SessionNext, SendStep, IoStep, NodeStep

-------------------------------------------------------------------------------
(* The invariant, and what it says of the session. *)

\* A new session satisfies the invariant.
LEMMA InitIInv == SessionInit => IInv
<1> SUFFICES ASSUME SessionInit PROVE IInv  OBVIOUS
<1>1. SessionTypeOK  BY InitType
<1>2. Len(<<>>) = 0 /\ 1..0 = {} /\ NoRequest \notin Requests /\ \A r \in Requests : Id(r) \in Ids
  BY Numbers
<1>3. Sends /\ NotStarted /\ Tasked /\ Known /\ Kept /\ NoneForgotten
  BY <1>2, Zenon DEF SessionInit, Sends, NotStarted, Tasked, Known, InFlight, Kept, NoneForgotten
<1>4. Owed /\ CalledOnce  BY <1>2 DEF SessionInit, Owed, HasTask, CalledOnce
<1>5. Own  BY <1>2, Zenon DEF SessionInit, Own, InFlight
<1>6. Dropped  BY <1>2, Zenon DEF SessionInit, Dropped, DisconnectOnce, Disconnects
<1>7. WritesInOrder  BY DEF SessionInit, WritesInOrder
<1> QED  BY <1>1, <1>3, <1>4, <1>5, <1>6, <1>7, Zenon DEF IInv

\* Every handler of the session keeps the invariant.
LEMMA IInvStep == IInv /\ [SessionNext]_sessionVars => IInv'
<1> SUFFICES ASSUME IInv, [SessionNext]_sessionVars PROVE IInv'  OBVIOUS
<1>1. /\ SessionTypeOK /\ Sends /\ NotStarted /\ Owed /\ Tasked /\ Known /\ Own /\ Kept /\ Dropped
      /\ CalledOnce /\ WritesInOrder /\ NoneForgotten
  BY DEF IInv
<1>2. SessionTypeOK' /\ Sends' /\ NotStarted' /\ WritesInOrder'
  BY <1>1, TypeStep, SendsStep, NotStartedStep, WritesStep, Zenon
<1>3. Owed' /\ Tasked' /\ Dropped' /\ CalledOnce'
  BY <1>1, OwedStep, TaskedStep, DroppedStep, CalledStep, Zenon
<1>4. Known' /\ Own' /\ Kept' /\ NoneForgotten'
  BY <1>1, KnownStep, OwnStep, KeptStep, ForgottenStep, Zenon
<1> QED  BY <1>2, <1>3, <1>4, Zenon DEF IInv

(***************************************************************************)
(* The invariant holds in every state the session can be in.               *)
(***************************************************************************)
THEOREM Invariance == SessionSpec => []IInv
BY InitIInv, IInvStep, PTL DEF SessionSpec

(***************************************************************************)
(* The variables keep their types; in particular no task ever asks the     *)
(* pool thread to call the callback of a request that does not exist.      *)
(***************************************************************************)
THEOREM TypeCorrect == SessionSpec => []SessionTypeOK
<1>1. IInv => SessionTypeOK  BY DEF IInv
<1> QED  BY <1>1, Invariance, PTL

(***************************************************************************)
(* A callback is called at most once, whatever the order in which the      *)
(* answer, its timer, the drop of the session and later requests with the  *)
(* same id reach m_callBacks (response_callback, drop).                    *)
(***************************************************************************)
THEOREM CallbacksCalledOnce == SessionSpec => []CalledOnce
<1>1. IInv => CalledOnce  BY DEF IInv
<1> QED  BY <1>1, Invariance, PTL

(***************************************************************************)
(* A callback never gets the answer to another request, as long as no id   *)
(* is given out while its last request is in flight (on_read_packet).      *)
(***************************************************************************)
THEOREM AnswersAreOwn == SessionSpec => []AnswerIsOwn
<1>1. IInv => AnswerIsOwn  BY DEF IInv, Own, AnswerIsOwn
<1> QED  BY <1>1, Invariance, PTL

(***************************************************************************)
(* Messages go out once each, in the order they were posted, and while the *)
(* connection is up a queued message has a write outstanding (on_write,    *)
(* on_write_packet).                                                       *)
(***************************************************************************)
THEOREM WritesKeepOrder == SessionSpec => []WritesInOrder
<1>1. IInv => WritesInOrder  BY DEF IInv
<1> QED  BY <1>1, Invariance, PTL

(***************************************************************************)
(* Until the session drops, a request whose timer has not run out has its  *)
(* callback in the map, in the pool, or called (add_resp_callback).        *)
(***************************************************************************)
THEOREM NothingForgotten == SessionSpec => []NoneForgotten
<1>1. IInv => NoneForgotten  BY DEF IInv
<1> QED  BY <1>1, Invariance, PTL

(***************************************************************************)
(* The service is told once of a session that has dropped (drop).          *)
(***************************************************************************)
THEOREM DisconnectedOnce == SessionSpec => []DisconnectOnce
<1>1. IInv => DisconnectOnce  BY DEF IInv, Dropped
<1> QED  BY <1>1, Invariance, PTL
===============================================================================
