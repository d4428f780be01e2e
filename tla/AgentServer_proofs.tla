------------------------- MODULE AgentServer_proofs -------------------------
(***************************************************************************)
(* Proofs about AgentServer for any number of requests, limits, names and  *)
(* milliseconds.  What has to be shown is that an id stays attached to its *)
(* sessions while other requests replace and remove entries of the map.    *)
(***************************************************************************)
EXTENDS AgentServer, FiniteSetTheorems, TLAPS

\* The guard is kept by one request at a time.
OneHolder == holder = {} \/ \E r \in Requests : holder = {r}

\* A start that has taken its id; it keeps it.
Identified(r) == pc[r] \in {"inserting", "replying", "done"} /\ id[r] \in Ids

\* What the map and the stops refer to are such starts, the map under their ids.
References ==
  /\ \A i \in Ids : entries[i] # 0 => Identified(entries[i]) /\ id[entries[i]] = i
  /\ \A q \in Requests : target[q] # 0 => Identified(target[q])
  /\ \A r \in Requests : pc[r] = "new" => target[r] = 0
  /\ \A r \in Requests : pc[r] \in {"inserting", "replying"} => id[r] \in Ids
  /\ \A r \in Requests : pc[r] \in {"resolved", "admitted"} => path[r] \in Names

\* The id is in the map or was stopped.
Stoppable(r) ==
  \/ entries[id[r]] # 0
  \/ \E q \in Requests : target[q] # 0 /\ id[target[q]] = id[r]

\* From its insertion on, an id can be stopped.
Inserted ==
  \A r \in Requests :
    pc[r] = "replying" \/ answer[r] = "started" => Identified(r) /\ Stoppable(r)

IInv == TypeOK /\ OneHolder /\ References /\ Inserted

\* Every initial state satisfies the invariant.
LEMMA Start == Init => IInv
<1> SUFFICES ASSUME Init PROVE IInv
  OBVIOUS
<1> USE DEF Init
<1>1. holder = {} /\ Cardinality({}) = 0
  BY FS_EmptySet
<1>2. 1 \in Ids
  BY AgentAssumption DEF AgentAssumption, Ids
<1> QED BY <1>1, <1>2 DEF IInv, TypeOK, OneHolder, References, Inserted

\* The lock: whoever takes it finds it free, and whoever keeps it answers.
LEMMA KeepsLock == IInv /\ [Next]_vars =>
                     /\ OneHolder'
                     /\ \A r \in Requests :
                          pc'[r] \in {"stopping", "answering"} <=> r \in holder'
<1> DEFINE Lock == /\ OneHolder
                   /\ \A r \in Requests :
                        pc[r] \in {"stopping", "answering"} <=> r \in holder
<1> SUFFICES ASSUME IInv, [Next]_vars PROVE Lock'
  OBVIOUS
<1>0. Lock /\ pc \in [Requests -> {"new", "resolved", "admitted", "inserting", "replying",
                                   "stopping", "answering", "done"}]
  BY DEF IInv, TypeOK
<1> USE <1>0 DEF OneHolder, Goto
<1>1. CASE UNCHANGED vars \/ Tick
  BY <1>1 DEF vars, Tick
<1>2. ASSUME NEW r \in Requests,
             \/ Reject(r) \/ ResolvePath(r) \/ Admit(r) \/ OpenSession(r)
             \/ OpenSessionFails(r) \/ Insert(r) \/ Reply(r)
      PROVE Lock'
  <2>1. /\ holder' = holder /\ pc[r] \notin {"stopping", "answering"}
        /\ \E to \in {"done", "resolved", "admitted", "inserting", "replying"} :
             pc' = [pc EXCEPT ![r] = to]
    BY <1>2 DEF Reject, ResolvePath, Admit, OpenSession, OpenSessionFails, Insert, Reply
  <2> QED BY <2>1
<1>3. ASSUME NEW r \in Requests, NEW i \in Ids,
             Refuse(r) \/ Status(r) \/ Stop(r, i) \/ StopUnknown(r, i)
      PROVE Lock'
  <2>1. /\ holder = {} /\ holder' = {r}
        /\ \E to \in {"stopping", "answering"} : pc' = [pc EXCEPT ![r] = to]
    BY <1>3 DEF Refuse, Status, Stop, StopUnknown
  <2> QED BY <2>1
<1>4. ASSUME NEW r \in Requests, StopReturns(r)
      PROVE Lock'
  BY <1>4 DEF StopReturns
<1>5. ASSUME NEW r \in Requests, Answer(r)
      PROVE Lock'
  BY <1>5 DEF Answer
<1>6. ASSUME NEW r \in Requests, SessionEnds(r) \/ SessionFails(r) \/ TimerFires(r)
      PROVE Lock'
  BY <1>6 DEF SessionEnds, SessionFails, TimerFires
<1>7. 1 \in Ids
  BY AgentAssumption DEF AgentAssumption, Ids
<1> QED BY <1>1, <1>2, <1>3, <1>4, <1>5, <1>6, <1>7 DEF Next, Arrive, Continue

\* The types.
LEMMA KeepsTypes == IInv /\ [Next]_vars => TypeOK'
<1> SUFFICES ASSUME IInv, [Next]_vars PROVE TypeOK'
  OBVIOUS
<1>0. TypeOK /\ References
  BY DEF IInv
<1>1. Cardinality(holder') <= 1
  <2>1. Cardinality({}) = 0 /\ \A r \in Requests : Cardinality({r}) = 1
    BY FS_EmptySet, FS_Singleton
  <2> QED BY <2>1, KeepsLock DEF OneHolder
<1>2. \A r \in Requests : pc'[r] \in {"stopping", "answering"} <=> r \in holder'
  BY KeepsLock
<1> USE <1>0, <1>1, <1>2 DEF TypeOK, Goto, Says, Signalled
<1>3. CASE UNCHANGED vars \/ Tick
  BY <1>3, AgentAssumption DEF vars, Tick, Ids, AgentAssumption
<1>4. ASSUME NEW r \in Requests, Reject(r) \/ Admit(r) \/ Refuse(r) \/ Status(r)
      PROVE TypeOK'
  BY <1>4 DEF Reject, Admit, Refuse, Status
<1>5. ASSUME NEW r \in Requests, ResolvePath(r)
      PROVE TypeOK'
  BY <1>5 DEF ResolvePath
<1>6. ASSUME NEW r \in Requests, OpenSession(r)
      PROVE TypeOK'
  <2>1. path[r] \in Names
    BY <1>6 DEF OpenSession, References
  <2> QED BY <1>6, <2>1 DEF OpenSession
<1>7. ASSUME NEW r \in Requests, OpenSessionFails(r)
      PROVE TypeOK'
  BY <1>7 DEF OpenSessionFails, References
<1>8. ASSUME NEW r \in Requests, Insert(r) \/ Reply(r)
      PROVE TypeOK'
  BY <1>8 DEF Insert, Reply, References
<1>9. ASSUME NEW r \in Requests, NEW i \in Ids, Stop(r, i)
      PROVE TypeOK'
  BY <1>9 DEF Stop
<1>10. ASSUME NEW r \in Requests, NEW i \in Ids,
              StopReturns(r) \/ StopUnknown(r, i) \/ Answer(r)
       PROVE TypeOK'
  BY <1>10 DEF StopReturns, StopUnknown, Answer
<1>11. ASSUME NEW r \in Requests, SessionEnds(r) \/ SessionFails(r) \/ TimerFires(r)
       PROVE TypeOK'
  BY <1>11 DEF SessionEnds, SessionFails, TimerFires
<1>12. 1 \in Ids
  BY AgentAssumption DEF AgentAssumption, Ids
<1> QED BY <1>3, <1>4, <1>5, <1>6, <1>7, <1>8, <1>9, <1>10, <1>11, <1>12
        DEF Next, Arrive, Continue

\* Ids are taken once, entries are made from them, and stops take entries.
LEMMA KeepsReferences == IInv /\ [Next]_vars => References'
<1> SUFFICES ASSUME IInv, [Next]_vars PROVE References'
  OBVIOUS
<1>0. TypeOK /\ References
  BY DEF IInv
<1> USE <1>0 DEF TypeOK, References, Identified, Goto
<1>1. CASE UNCHANGED vars \/ Tick
  BY <1>1 DEF vars, Tick
<1>2. ASSUME NEW r \in Requests, \/ Reject(r) \/ Admit(r) \/ Refuse(r) \/ Status(r)
                                 \/ Reply(r) \/ StopReturns(r) \/ Answer(r)
                                 \/ OpenSessionFails(r)
      PROVE References'
  <2>1. /\ UNCHANGED <<path, id, target, entries>>
        /\ \/ pc[r] \in {"new", "stopping", "answering"}
                /\ \E to \in {"answering", "done"} : pc' = [pc EXCEPT ![r] = to]
           \/ pc[r] = "resolved"
                /\ \E to \in {"admitted", "answering"} : pc' = [pc EXCEPT ![r] = to]
           \/ pc[r] \in {"admitted", "replying"} /\ pc' = [pc EXCEPT ![r] = "done"]
    BY <1>2 DEF Reject, Admit, Refuse, Status, Reply, StopReturns, Answer,
                OpenSessionFails
  <2>2. \A x \in Requests : Identified(x) => Identified(x)'
    BY <2>1
  <2> QED BY <2>1, <2>2
<1>3. ASSUME NEW r \in Requests, ResolvePath(r)
      PROVE References'
  <2>1. /\ UNCHANGED <<id, target, entries>>
        /\ pc[r] = "new" /\ pc' = [pc EXCEPT ![r] = "resolved"]
        /\ \E n \in Names : path' = [path EXCEPT ![r] = n]
    BY <1>3 DEF ResolvePath
  <2>2. \A x \in Requests : Identified(x) => Identified(x)'
    BY <2>1
  <2> QED BY <2>1, <2>2
<1>4. ASSUME NEW r \in Requests, OpenSession(r)
      PROVE References'
  <2>1. /\ UNCHANGED <<path, target, entries>>
        /\ pc[r] = "admitted" /\ pc' = [pc EXCEPT ![r] = "inserting"]
        /\ id' = [id EXCEPT ![r] = now] /\ now \in Ids
    BY <1>4 DEF OpenSession
  <2>2. \A x \in Requests : Identified(x) => x # r /\ Identified(x)' /\ id'[x] = id[x]
    BY <2>1
  <2> QED BY <2>1, <2>2
<1>5. ASSUME NEW r \in Requests, Insert(r)
      PROVE References'
  <2>1. /\ UNCHANGED <<path, target, id>> /\ id[r] \in Ids
        /\ pc[r] = "inserting" /\ pc' = [pc EXCEPT ![r] = "replying"]
        /\ entries' = [entries EXCEPT ![id[r]] = r]
    BY <1>5 DEF Insert
  <2>2. Identified(r)' /\ \A x \in Requests : Identified(x) => Identified(x)'
    BY <2>1
  <2> QED BY <2>1, <2>2
<1>6. ASSUME NEW r \in Requests, NEW i \in Ids, Stop(r, i)
      PROVE References'
  <2>1. /\ UNCHANGED <<path, id>> /\ entries[i] # 0
        /\ pc[r] = "new" /\ pc' = [pc EXCEPT ![r] = "stopping"]
        /\ target' = [target EXCEPT ![r] = entries[i]]
        /\ entries' = [entries EXCEPT ![i] = 0]
    BY <1>6 DEF Stop
  <2>2. \A x \in Requests : Identified(x) => Identified(x)'
    BY <2>1
  <2> QED BY <2>1, <2>2
<1>7. ASSUME NEW r \in Requests, NEW i \in Ids, StopUnknown(r, i)
      PROVE References'
  <2>1. /\ UNCHANGED <<path, id, target, entries>>
        /\ pc[r] = "new" /\ pc' = [pc EXCEPT ![r] = "answering"]
    BY <1>7 DEF StopUnknown
  <2>2. \A x \in Requests : Identified(x) => Identified(x)'
    BY <2>1
  <2> QED BY <2>1, <2>2
<1>8. ASSUME NEW r \in Requests, SessionEnds(r) \/ SessionFails(r) \/ TimerFires(r)
      PROVE References'
  BY <1>8 DEF SessionEnds, SessionFails, TimerFires
<1>9. 1 \in Ids
  BY AgentAssumption DEF AgentAssumption, Ids
<1> QED BY <1>1, <1>2, <1>3, <1>4, <1>5, <1>6, <1>7, <1>8, <1>9
        DEF Next, Arrive, Continue

\* An id that was inserted is removed by a stop only, which remembers a session
\* of that id; an insertion replaces sessions, not ids.
LEMMA KeepsInserted == IInv /\ [Next]_vars => Inserted'
<1> SUFFICES ASSUME IInv, [Next]_vars, NEW h \in Requests,
                    pc'[h] = "replying" \/ answer'[h] = "started"
             PROVE Identified(h)' /\ Stoppable(h)'
  BY DEF Inserted
<1>0. TypeOK /\ References /\ (pc[h] = "replying" \/ answer[h] = "started"
                                 => Identified(h) /\ Stoppable(h))
  BY DEF IInv, Inserted
<1> USE <1>0 DEF TypeOK, References, Identified, Goto, Says
<1>1. CASE UNCHANGED vars \/ Tick
  BY <1>1 DEF vars, Tick, Stoppable
<1>2. ASSUME NEW r \in Requests,
             \/ Reject(r) \/ ResolvePath(r) \/ Admit(r) \/ Refuse(r) \/ Status(r)
             \/ Reply(r) \/ StopReturns(r) \/ Answer(r) \/ OpenSessionFails(r)
      PROVE Identified(h)' /\ Stoppable(h)'
  <2>1. UNCHANGED <<id, target, entries>>
    BY <1>2 DEF Reject, ResolvePath, Admit, Refuse, Status, Reply, StopReturns, Answer,
                OpenSessionFails
  <2>2. pc[h] = "replying" \/ answer[h] = "started"
    BY <1>2 DEF Reject, ResolvePath, Admit, Refuse, Status, Reply, StopReturns, Answer,
                OpenSessionFails
  <2>3. Identified(h)'
    BY <1>2, <2>1, <2>2 DEF Reject, ResolvePath, Admit, Refuse, Status, Reply, StopReturns,
                            Answer, OpenSessionFails
  <2> QED BY <2>1, <2>2, <2>3 DEF Stoppable
<1>3. ASSUME NEW r \in Requests, OpenSession(r)
      PROVE Identified(h)' /\ Stoppable(h)'
  <2>1. /\ UNCHANGED <<answer, target, entries>>
        /\ pc[r] = "admitted" /\ pc' = [pc EXCEPT ![r] = "inserting"]
        /\ id' = [id EXCEPT ![r] = now]
    BY <1>3 DEF OpenSession
  <2>2. \A x \in Requests : Identified(x) => x # r /\ Identified(x)' /\ id'[x] = id[x]
    BY <2>1
  <2>3. Identified(h) /\ Stoppable(h)
    BY <2>1
  <2>4. Stoppable(h)'
    BY <2>1, <2>2, <2>3 DEF Stoppable
  <2> QED BY <2>2, <2>3, <2>4
<1>4. ASSUME NEW r \in Requests, Insert(r)
      PROVE Identified(h)' /\ Stoppable(h)'
  <2>1. /\ UNCHANGED <<answer, target, id>> /\ id[r] \in Ids
        /\ pc[r] = "inserting" /\ pc' = [pc EXCEPT ![r] = "replying"]
        /\ entries' = [entries EXCEPT ![id[r]] = r]
    BY <1>4 DEF Insert
  <2>2. r # 0
    BY DEF Requests
  <2>3. CASE h = r
    BY <2>1, <2>2, <2>3 DEF Stoppable
  <2>4. CASE h # r
    <3>1. Identified(h) /\ Stoppable(h)
      BY <2>1, <2>4
    <3>2. Identified(h)' /\ id'[h] = id[h]
      BY <2>1, <2>4, <3>1
    <3> QED BY <2>1, <2>2, <3>1, <3>2 DEF Stoppable
  <2> QED BY <2>3, <2>4
<1>5. ASSUME NEW r \in Requests, NEW i \in Ids, Stop(r, i)
      PROVE Identified(h)' /\ Stoppable(h)'
  <2>1. /\ UNCHANGED <<answer, id>> /\ entries[i] # 0
        /\ pc[r] = "new" /\ pc' = [pc EXCEPT ![r] = "stopping"]
        /\ target' = [target EXCEPT ![r] = entries[i]]
        /\ entries' = [entries EXCEPT ![i] = 0]
    BY <1>5 DEF Stop
  <2>2. Identified(h) /\ Stoppable(h)
    BY <2>1
  <2>3. Identified(h)'
    BY <2>1, <2>2
  <2>4. CASE id[h] = i
    <3>1. target'[r] # 0 /\ id[target'[r]] = i
      BY <2>1
    <3> QED BY <2>1, <2>3, <2>4, <3>1 DEF Stoppable
  <2>5. CASE id[h] # i
    <3>1. CASE entries[id[h]] # 0
      BY <2>1, <2>2, <2>3, <2>5, <3>1 DEF Stoppable
    <3>2. CASE \E q \in Requests : target[q] # 0 /\ id[target[q]] = id[h]
      BY <2>1, <2>3, <3>2 DEF Stoppable
    <3> QED BY <2>2, <3>1, <3>2 DEF Stoppable
  <2> QED BY <2>4, <2>5
<1>6. ASSUME NEW r \in Requests, NEW i \in Ids, StopUnknown(r, i)
      PROVE Identified(h)' /\ Stoppable(h)'
  <2>1. /\ UNCHANGED <<id, target, entries>> /\ pc[r] = "new"
        /\ pc' = [pc EXCEPT ![r] = "answering"] /\ answer' = [answer EXCEPT ![r] = "error"]
    BY <1>6 DEF StopUnknown
  <2>2. h # r /\ Identified(h) /\ Stoppable(h)
    BY <2>1
  <2> QED BY <2>1, <2>2 DEF Stoppable
<1>7. ASSUME NEW r \in Requests, SessionEnds(r) \/ SessionFails(r) \/ TimerFires(r)
      PROVE Identified(h)' /\ Stoppable(h)'
  <2>1. UNCHANGED <<pc, answer, id, target, entries>>
    BY <1>7 DEF SessionEnds, SessionFails, TimerFires
  <2> QED BY <2>1 DEF Stoppable
<1>8. 1 \in Ids
  BY AgentAssumption DEF AgentAssumption, Ids
<1> QED BY <1>1, <1>2, <1>3, <1>4, <1>5, <1>6, <1>7, <1>8 DEF Next, Arrive, Continue

\* The invariant holds in every reachable state.
THEOREM AgentInvariance == Spec => []IInv
<1>1. IInv /\ [Next]_vars => IInv'
  BY KeepsTypes, KeepsLock, KeepsReferences, KeepsInserted DEF IInv
<1> QED BY Start, <1>1, PTL DEF Spec

\* The guard of the map is kept over an await by at most one request, the one
\* that answers (ipc.rs: Stop, Status and the refusal write under the lock).
THEOREM AgentTypes == Spec => []TypeOK
<1>1. IInv => TypeOK
  BY DEF IInv
<1> QED BY AgentInvariance, <1>1, PTL

\* However the requests interleave and the ids collide, an id that a client was
\* given can be stopped (ipc.rs: the entry is inserted before the reply).
THEOREM StartedCanBeStopped == Spec => []RepliedIdStoppable
<1>1. IInv => RepliedIdStoppable
  BY DEF IInv, Inserted, Stoppable, RepliedIdStoppable
<1> QED BY AgentInvariance, <1>1, PTL
=============================================================================
