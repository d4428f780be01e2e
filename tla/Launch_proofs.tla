---------------------------- MODULE Launch_proofs ----------------------------
(***************************************************************************)
(* Proofs about Launch, for any number of processes and any settings.      *)
(***************************************************************************)
EXTENDS Launch, TLAPS

\* A process past the lock holds it, and one that is saving has not saved,
\* or could not read: with the properties this is inductive.
Holds   == \A p \in Procs : pc[p] # "off" => p \in lock
Unsaved == \A p \in Procs : pc[p] \in {"create", "write"} => ~saved \/ unread
IInv    == TypeOK /\ Holds /\ OneInstance /\ Unsaved /\ SettingsKept

\* Every initial state satisfies the invariant.
LEMMA Start == Init => IInv
  BY LaunchAssumption DEF LaunchAssumption, Init, IInv, TypeOK, Holds, OneInstance,
                          Unsaved, SettingsKept

\* The types are kept; the lock has one owner because it is taken when free.
LEMMA KeepsTypes == IInv /\ [Next]_vars => TypeOK'
<1> SUFFICES ASSUME IInv, [Next]_vars PROVE TypeOK'
  OBVIOUS
<1> USE LaunchAssumption DEF LaunchAssumption, IInv, TypeOK, To, Release, file
<1>1. CASE UNCHANGED vars
  BY <1>1 DEF vars
<1>2. ASSUME NEW p \in Procs,
             Acquire(p) \/ Refused(p) \/ Quit(p) \/ Crash(p) \/ RemoveStale(p)
      PROVE TypeOK'
  BY <1>2 DEF Acquire, Refused, Quit, Crash, RemoveStale, vars
<1>3. ASSUME NEW p \in Procs, Load(p) \/ LoadDefaults(p) \/ LoadUnread(p) \/ LoadFails(p)
      PROVE TypeOK'
  BY <1>3 DEF Load, LoadDefaults, LoadUnread, LoadFails
<1>4. ASSUME NEW p \in Procs, NEW v \in Values, Choose(p, v)
      PROVE TypeOK'
  BY <1>4 DEF Choose
<1>5. ASSUME NEW p \in Procs, Create(p) \/ Write(p) \/ SaveFails(p)
      PROVE TypeOK'
  BY <1>5 DEF Create, Write, SaveFails
<1> QED BY <1>1, <1>2, <1>3, <1>4, <1>5 DEF Next

\* Who holds the lock: nobody else starts, and whoever ends gives it back, but
\* for a crash that leaves the file.
LEMMA KeepsLock == IInv /\ [Next]_vars => Holds' /\ OneInstance'
<1> SUFFICES ASSUME IInv, [Next]_vars PROVE Holds' /\ OneInstance'
  OBVIOUS
<1> USE DEF IInv, TypeOK, Holds, OneInstance, To, Release, file
<1>1. CASE UNCHANGED vars
  BY <1>1 DEF vars
<1>2. ASSUME NEW p \in Procs, Acquire(p)
      PROVE Holds' /\ OneInstance'
  BY <1>2 DEF Acquire
<1>3. ASSUME NEW p \in Procs, Refused(p) \/ Quit(p) \/ Crash(p) \/ RemoveStale(p)
      PROVE Holds' /\ OneInstance'
  <2>1. CASE Refused(p)
    BY <2>1 DEF Refused, vars
  <2>2. CASE Quit(p)
    BY <2>2 DEF Quit
  <2>3. CASE Crash(p) /\ program = "ui"
    BY <2>3 DEF Crash
  <2>4. CASE Crash(p) /\ program # "ui"
    <3>1. program = "core"
      BY <2>4, LaunchAssumption DEF LaunchAssumption
    <3> QED BY <2>4, <3>1 DEF Crash
  <2>5. CASE RemoveStale(p)
    BY <2>5 DEF RemoveStale
  <2> QED BY <1>3, <2>1, <2>2, <2>3, <2>4, <2>5
<1>4. ASSUME NEW p \in Procs, Load(p) \/ LoadDefaults(p) \/ LoadUnread(p) \/ LoadFails(p)
      PROVE Holds' /\ OneInstance'
  BY <1>4 DEF Load, LoadDefaults, LoadUnread, LoadFails
<1>5. ASSUME NEW p \in Procs, NEW v \in Values, Choose(p, v)
      PROVE Holds' /\ OneInstance'
  BY <1>5 DEF Choose
<1>6. ASSUME NEW p \in Procs, Create(p) \/ Write(p) \/ SaveFails(p)
      PROVE Holds' /\ OneInstance'
  BY <1>6 DEF Create, Write, SaveFails
<1> QED BY <1>1, <1>2, <1>3, <1>4, <1>5, <1>6 DEF Next

\* What was saved stays: only an unsaved choice, or a start that could not read,
\* opens the file, and the one process that is there loads what it holds.
LEMMA KeepsSettings == IInv /\ [Next]_vars => Unsaved' /\ SettingsKept'
<1> SUFFICES ASSUME IInv, [Next]_vars PROVE Unsaved' /\ SettingsKept'
  OBVIOUS
<1> USE LaunchAssumption
    DEF LaunchAssumption, IInv, TypeOK, OneInstance, Unsaved, SettingsKept, To, file
<1>1. CASE UNCHANGED vars
  BY <1>1 DEF vars
<1>2. ASSUME NEW p \in Procs,
             Acquire(p) \/ Refused(p) \/ Quit(p) \/ Crash(p) \/ RemoveStale(p)
      PROVE Unsaved' /\ SettingsKept'
  BY <1>2 DEF Acquire, Refused, Quit, Crash, RemoveStale, vars
<1>3. ASSUME NEW p \in Procs, Load(p) \/ LoadUnread(p) \/ LoadFails(p)
      PROVE Unsaved' /\ SettingsKept'
  BY <1>3 DEF Load, LoadUnread, LoadFails
<1>4. ASSUME NEW p \in Procs, LoadDefaults(p)
      PROVE Unsaved' /\ SettingsKept'
  <2>1. ~saved \/ unread
    BY <1>4 DEF LoadDefaults
  <2> QED BY <1>4, <2>1 DEF LoadDefaults
<1>5. ASSUME NEW p \in Procs, NEW v \in Values, Choose(p, v)
      PROVE Unsaved' /\ SettingsKept'
  BY <1>5 DEF Choose
<1>6. ASSUME NEW p \in Procs, Create(p) \/ SaveFails(p)
      PROVE Unsaved' /\ SettingsKept'
  BY <1>6 DEF Create, SaveFails
<1>7. ASSUME NEW p \in Procs, Write(p)
      PROVE Unsaved' /\ SettingsKept'
  <2>1. (~saved \/ unread) /\ \A q \in Procs : q # p => pc[q] = "off"
    BY <1>7 DEF Write
  <2> QED BY <1>7, <2>1 DEF Write
<1> QED BY <1>1, <1>2, <1>3, <1>4, <1>5, <1>6, <1>7 DEF Next

\* The invariant holds in every reachable state.
THEOREM LaunchInvariance == Spec => []IInv
<1>1. IInv /\ [Next]_vars => IInv'
  BY KeepsTypes, KeepsLock, KeepsSettings DEF IInv
<1> QED BY Start, <1>1, PTL DEF Spec

\* The types, and that the lock never has two owners.
THEOREM LaunchTypes == Spec => []TypeOK
<1>1. IInv => TypeOK
  BY DEF IInv
<1> QED BY LaunchInvariance, <1>1, PTL

\* For any number of processes, no two are past the lock together (main.rs:4,
\* instance.rs:90), and a lock is there only for a process that is there or whose
\* lock file a crash has left.
THEOREM SingleInstance == Spec => []OneInstance
<1>1. IInv => OneInstance
  BY DEF IInv
<1> QED BY LaunchInvariance, <1>1, PTL

\* Settings that were written completely survive every crash, failed save and
\* refused start (window.rs:43, config.rs:222) until others are chosen or a start
\* cannot read the file, which replaces it by defaults (window.rs:39, 125).
THEOREM SavedSettingsKept == Spec => []SettingsKept
<1>1. IInv => SettingsKept
  BY DEF IInv
<1> QED BY LaunchInvariance, <1>1, PTL
=============================================================================
