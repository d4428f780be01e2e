---------------------------- MODULE AgentServer ----------------------------
(***************************************************************************)
(* The agent server (bsm-encode/src/ipc.rs): one task per connection, one  *)
(* command per connection, and the sessions map behind a tokio Mutex.      *)
(*                                                                         *)
(* A request is a connection; a session and its timer carry the number of  *)
(* the request that started them.  What a session does inside is Session;  *)
(* here it runs, is told to end, and has ended.  All starts use one        *)
(* directory and one file name template within one second, so that only    *)
(* the {n} of the template tells their files apart.                        *)
(***************************************************************************)
EXTENDS Naturals, FiniteSets

CONSTANTS
  NumRequests,   \* bound of the model: connections accepted
  OriginOf,      \* the peer address of each connection
  MaxPerOrigin,  \* MAX_PER_ORIGIN (4)
  MaxTotal,      \* MAX_TOTAL (64)
  MaxName,       \* highest {n} a file name may take (9999)
  MaxMillis      \* bound of the model: milliseconds the clock shows

ASSUME AgentAssumption ==
  /\ {NumRequests, MaxPerOrigin, MaxTotal, MaxName, MaxMillis} \subseteq Nat \ {0}
  /\ DOMAIN OriginOf = 1 .. NumRequests

Requests == 1 .. NumRequests
Names    == 1 .. MaxName
Ids      == 1 .. MaxMillis     \* "session-<timestamp_millis>"

VARIABLES
  pc,       \* "new" | "resolved" | "admitted" | "inserting" | "replying"
            \* | "stopping" | "answering" | "done"
  holder,   \* {r} while request r keeps the lock of the map across an await
  answer,   \* "none" | "error" | "started" | "stopped" | "status"
  path,     \* output file of a start, 0 before it is resolved
  files,    \* names that exist in the output directory
  id,       \* session id given to a start, 0 before
  target,   \* session a stop took out of the map, 0 for none
  entries,  \* the sessions map: the session under each id, 0 for none
  session,  \* "none" | "running" | "ending" | "ended"
  timer,    \* the five-hour timer: "none" | "armed" | "fired" | "aborted"
  now       \* the clock, in milliseconds

vars == <<pc, holder, answer, path, files, id, target, entries, session,
          timer, now>>

Init ==
  /\ pc = [r \in Requests |-> "new"]
  /\ holder = {}
  /\ answer = [r \in Requests |-> "none"]
  /\ path = [r \in Requests |-> 0]
  /\ files = {}
  /\ id = [r \in Requests |-> 0]
  /\ target = [r \in Requests |-> 0]
  /\ entries = [i \in Ids |-> 0]
  /\ session = [r \in Requests |-> "none"]
  /\ timer = [r \in Requests |-> "none"]
  /\ now = 1

Goto(r, from, to) == pc[r] = from /\ pc' = [pc EXCEPT ![r] = to]
Says(r, what) == answer' = [answer EXCEPT ![r] = what]

\* The session of request r gets a signal, or loses its input.
Signalled(r) == IF session[r] = "running" THEN "ending" ELSE session[r]
-----------------------------------------------------------------------------
(* Start.                                                                  *)

\* Not JSON, or a wrong token, template or directory: the reply, if any, is
\* written without the lock.
Reject(r) ==
  /\ Goto(r, "new", "done")
  /\ Says(r, "error")
  /\ UNCHANGED <<holder, path, files, id, target, entries, session, timer, now>>

\* resolve_output_path: the first name that does not exist.  Nothing is created.
ResolvePath(r) ==
  /\ Goto(r, "new", "resolved")
  /\ \E n \in Names \ files :
       /\ \A m \in Names \ files : n <= m
       /\ path' = [path EXCEPT ![r] = n]
  /\ UNCHANGED <<holder, answer, files, id, target, entries, session, timer, now>>

Entered == {i \in Ids : entries[i] # 0}
LimitReached(o) ==
  \/ Cardinality({i \in Entered : OriginOf[entries[i]] = o}) >= MaxPerOrigin
  \/ Cardinality(Entered) >= MaxTotal

\* Mutated form: without the drop(map) the guard lives to the end of the arm.
AdmitKeepsLock(r) ==
  /\ Goto(r, "resolved", "admitted")
  /\ holder = {}
  /\ ~LimitReached(OriginOf[r])
  /\ holder' = {r}
  /\ UNCHANGED <<answer, path, files, id, target, entries, session, timer, now>>

\* The limits are looked up under the lock, which is released at once.
Admit(r) ==
  /\ Goto(r, "resolved", "admitted")
  /\ holder = {}
  /\ ~LimitReached(OriginOf[r])
  /\ UNCHANGED <<holder, answer, path, files, id, target, entries, session,
                 timer, now>>

\* "too many sessions" is written with the lock held.
Refuse(r) ==
  /\ Goto(r, "resolved", "answering")
  /\ holder = {}
  /\ LimitReached(OriginOf[r])
  /\ holder' = {r}
  /\ Says(r, "error")
  /\ UNCHANGED <<path, files, id, target, entries, session, timer, now>>

\* RecordingSession::start creates the file, or truncates it if it exists by
\* now.  In the same poll the time becomes the id, and the timer is spawned with
\* a sender of the session's shutdown.
OpenSession(r) ==
  /\ Goto(r, "admitted", "inserting")
  /\ files' = files \cup {path[r]}
  /\ session' = [session EXCEPT ![r] = "running"]
  /\ id' = [id EXCEPT ![r] = now]
  /\ timer' = [timer EXCEPT ![r] = "armed"]
  /\ UNCHANGED <<holder, answer, path, target, entries, now>>

\* start fails, with or without the file: the connection closes unanswered.
OpenSessionFails(r) ==
  /\ Goto(r, "admitted", "done")
  /\ files' \in {files, files \cup {path[r]}}
  /\ UNCHANGED <<holder, answer, path, id, target, entries, session, timer, now>>

\* An entry of the same id is replaced; its handle is dropped, its timer runs on.
Insert(r) ==
  /\ Goto(r, "inserting", "replying")
  /\ holder = {}
  /\ entries' = [entries EXCEPT ![id[r]] = r]
  /\ UNCHANGED <<holder, answer, path, files, id, target, session, timer, now>>

\* Mutated form: the reply is written before the entry is in the map.
ReplyBeforeInsert(r) ==
  /\ Goto(r, "inserting", "done")
  /\ Says(r, "started")
  /\ session' = [session EXCEPT ![r] = Signalled(r)]
  /\ UNCHANGED <<holder, path, files, id, target, entries, timer, now>>

\* The reply carries the id.  With the end of the arm the PCM sender and the
\* external shutdown sender are dropped: the session's input has ended and its
\* forwarder fires.
Reply(r) ==
  /\ Goto(r, "replying", "done")
  /\ Says(r, "started")
  /\ session' = [session EXCEPT ![r] = Signalled(r)]
  /\ UNCHANGED <<holder, path, files, id, target, entries, timer, now>>
-----------------------------------------------------------------------------
(* Stop and Status: the lock is held until the reply is written.           *)

\* The entry is removed, its timer aborted, and SessionHandle::stop signals.
Stop(r, i) ==
  /\ Goto(r, "new", "stopping")
  /\ holder = {}
  /\ entries[i] # 0
  /\ holder' = {r}
  /\ target' = [target EXCEPT ![r] = entries[i]]
  /\ entries' = [entries EXCEPT ![i] = 0]
  /\ timer' = [timer EXCEPT ![entries[i]] = IF @ = "armed" THEN "aborted" ELSE @]
  /\ session' = [session EXCEPT ![entries[i]] = Signalled(entries[i])]
  /\ UNCHANGED <<answer, path, files, id, now>>

\* SessionHandle::stop returns once the tasks of the session have ended.
StopReturns(r) ==
  /\ Goto(r, "stopping", "answering")
  /\ session[target[r]] = "ended"
  /\ Says(r, "stopped")
  /\ UNCHANGED <<holder, path, files, id, target, entries, session, timer, now>>

StopUnknown(r, i) ==
  /\ Goto(r, "new", "answering")
  /\ holder = {}
  /\ entries[i] = 0
  /\ holder' = {r}
  /\ Says(r, "error")
  /\ UNCHANGED <<path, files, id, target, entries, session, timer, now>>

\* Status tells whether the map has the id, or which ids it has.
Status(r) ==
  /\ Goto(r, "new", "answering")
  /\ holder = {}
  /\ holder' = {r}
  /\ Says(r, "status")
  /\ UNCHANGED <<path, files, id, target, entries, session, timer, now>>

\* The reply is written, or the write fails; either way the guard is dropped.
Answer(r) ==
  /\ Goto(r, "answering", "done")
  /\ holder' = {}
  /\ UNCHANGED <<answer, path, files, id, target, entries, session, timer, now>>
-----------------------------------------------------------------------------
(* The sessions, their timers, and time.                                   *)

\* A session that was told to end does (see Session).
SessionEnds(r) ==
  /\ session[r] = "ending"
  /\ session' = [session EXCEPT ![r] = "ended"]
  /\ UNCHANGED <<pc, holder, answer, path, files, id, target, entries, timer, now>>

\* A session also ends by itself when a write fails.
SessionFails(r) ==
  /\ session[r] = "running"
  /\ session' = [session EXCEPT ![r] = "ended"]
  /\ UNCHANGED <<pc, holder, answer, path, files, id, target, entries, timer, now>>

\* Five hours have passed.  The entry stays in the map.
TimerFires(r) ==
  /\ timer[r] = "armed"
  /\ timer' = [timer EXCEPT ![r] = "fired"]
  /\ session' = [session EXCEPT ![r] = Signalled(r)]
  /\ UNCHANGED <<pc, holder, answer, path, files, id, target, entries, now>>

Tick ==
  /\ now < MaxMillis
  /\ now' = now + 1
  /\ UNCHANGED <<pc, holder, answer, path, files, id, target, entries, session,
                 timer>>
-----------------------------------------------------------------------------
Arrive(r) ==
  Reject(r) \/ ResolvePath(r) \/ Status(r) \/ \E i \in Ids : Stop(r, i) \/ StopUnknown(r, i)

Continue(r) ==
  \/ Admit(r) \/ Refuse(r) \/ OpenSession(r) \/ OpenSessionFails(r)
  \/ Insert(r) \/ Reply(r) \/ StopReturns(r) \/ Answer(r)

Next ==
  \/ Tick
  \/ \E r \in Requests :
       Arrive(r) \/ Continue(r) \/ SessionEnds(r) \/ SessionFails(r) \/ TimerFires(r)

\* A request that was read is carried on (the lock is fair, and the clients
\* take their replies), a session told to end does.  Nothing makes a client
\* send a command or five hours pass.
Fairness == \A r \in Requests : WF_vars(Continue(r)) /\ WF_vars(SessionEnds(r))

Spec == Init /\ [][Next]_vars /\ Fairness
-----------------------------------------------------------------------------
(* Properties.                                                             *)

\* Every variable has its type; the lock is held by a request that answers.
TypeOK ==
  /\ pc \in [Requests -> {"new", "resolved", "admitted", "inserting",
                          "replying", "stopping", "answering", "done"}]
  /\ \A r \in Requests : pc[r] \in {"stopping", "answering"} <=> r \in holder
  /\ Cardinality(holder) <= 1
  /\ answer \in [Requests -> {"none", "error", "started", "stopped", "status"}]
  /\ path \in [Requests -> {0} \cup Names]
  /\ files \subseteq Names
  /\ id \in [Requests -> {0} \cup Ids]
  /\ target \in [Requests -> {0} \cup Requests]
  /\ entries \in [Ids -> {0} \cup Requests]
  /\ session \in [Requests -> {"none", "running", "ending", "ended"}]
  /\ timer \in [Requests -> {"none", "armed", "fired", "aborted"}]
  /\ now \in Ids

\* An id a client has been given can be stopped: it is in the map, or a stop of
\* that id has been here already.
RepliedIdStoppable ==
  \A r \in Requests : answer[r] = "started" =>
    \/ entries[id[r]] # 0
    \/ \E q \in Requests : target[q] # 0 /\ id[target[q]] = id[r]

\* Every request that was read is carried to its end: neither the lock that a
\* stop keeps while it waits for its session nor the two times a start takes
\* the lock can block the others for good.
RequestsEnd == \A r \in Requests : (pc[r] # "new") ~> (pc[r] = "done")

\* "spawn timeout task to auto-stop after 5 hours" (ipc.rs:138), and a stop and
\* a status command besides: a session whose id was returned goes on until a
\* stop, the timer or a failed write ends it.
StartedSessionGoesOn ==
  [][\A r \in Requests :
       answer'[r] = "started" /\ session[r] = "running" /\ session'[r] = "ending" =>
         timer'[r] # "armed"]_vars
=============================================================================
