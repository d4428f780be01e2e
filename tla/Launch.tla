-------------------------------- MODULE Launch --------------------------------
(***************************************************************************)
(* Starting and ending the program: the single-instance lock and the       *)
(* settings file, over processes that quit, crash and are started again.   *)
(*                                                                         *)
(* There are two of each.  The window's program (bsm-ui: main.rs,          *)
(* window.rs) locks a TCP port, which the system frees when its process    *)
(* ends, and keeps config.json; when it cannot be read or parsed it is     *)
(* replaced by defaults.  The core library (bsm-core: instance.rs,         *)
(* config.rs) offers a lock file, which only Drop removes, and             *)
(* config.toml, which it refuses to load when it cannot be read or parsed, *)
(* and replaces only when exists() does not see it; its user is taken to   *)
(* hold the guard from before the load to its end.                         *)
(***************************************************************************)
CONSTANTS
  Procs,    \* processes
  Programs, \* the programs looked at: a subset of {"ui", "core"}
  Values,   \* what the settings can be
  Default   \* the default settings

ASSUME LaunchAssumption ==
  /\ Programs \subseteq {"ui", "core"} /\ Default \in Values
  /\ {"absent", "torn"} \cap Values = {}

VARIABLES
  program,  \* which program this is
  pc,       \* per process: "off" | "locked" | "create" | "write" | "running"
  lock,     \* the processes whose lock is there
  settings, \* per process: its settings in memory
  disk,     \* the settings file: "absent" | "torn" | a value
  chosen,   \* history: the settings the user chose last
  saved,    \* history: they were written completely
  unread,   \* history: a start since could not read the file they were in
  crashed   \* history: the processes whose last run ended in a crash

file == <<settings, disk, chosen, saved, unread>>
vars == <<program, pc, lock, file, crashed>>

Init ==
  /\ program \in Programs
  /\ pc = [p \in Procs |-> "off"]
  /\ lock = {}
  /\ settings = [p \in Procs |-> Default]
  /\ disk = "absent" /\ chosen = Default /\ saved = FALSE /\ unread = FALSE
  /\ crashed = {}

To(p, step) == pc' = [pc EXCEPT ![p] = step]
-----------------------------------------------------------------------------
(* The lock.                                                               *)

\* Mutated form: the lock is not bound to a name, and dropped at once.
AcquireUnbound(p) ==
  /\ pc[p] = "off" /\ lock = {}
  /\ To(p, "locked")
  /\ crashed' = crashed \ {p}
  /\ UNCHANGED <<program, lock, file>>

\* Mutated form: the port is bound with SO_REUSEPORT, the file created with
\* create() in place of create_new().
AcquireShared(p) ==
  /\ pc[p] = "off"
  /\ lock' = lock \cup {p}
  /\ To(p, "locked")
  /\ crashed' = crashed \ {p}
  /\ UNCHANGED <<program, file>>

\* The bind of the port, or the exclusive creation of the file.
Acquire(p) ==
  /\ pc[p] = "off" /\ lock = {}
  /\ lock' = {p}
  /\ To(p, "locked")
  /\ crashed' = crashed \ {p}
  /\ UNCHANGED <<program, file>>

\* Mutated form: the guard is built before the file is created, and its drop
\* removes the other's file.
RefusedDrops(p) ==
  /\ pc[p] = "off" /\ lock # {}
  /\ lock' = IF program = "core" THEN {} ELSE lock
  /\ UNCHANGED <<program, pc, file, crashed>>

\* The lock is there, or the bind or the creation fails for another reason (which
\* the window also calls "already running"): the process ends and changes
\* nothing.
Refused(p) ==
  /\ pc[p] = "off"
  /\ UNCHANGED vars

Release(p) == lock' = lock \ {p}

\* Mutated form: the process ends by std::process::exit, which drops nothing.
QuitExits(p) ==
  /\ pc[p] = "running"
  /\ To(p, "off")
  /\ lock' = IF program = "ui" THEN lock \ {p} ELSE lock
  /\ UNCHANGED <<program, file, crashed>>

Quit(p) ==
  /\ pc[p] = "running"
  /\ To(p, "off")
  /\ Release(p)
  /\ UNCHANGED <<program, file, crashed>>

\* The system closes the port; the file stays.
Crash(p) ==
  /\ pc[p] # "off"
  /\ To(p, "off")
  /\ IF program = "ui" THEN Release(p) ELSE UNCHANGED lock
  /\ crashed' = crashed \cup {p}
  /\ UNCHANGED <<program, file>>

\* Somebody deletes a lock file whose process is gone.
RemoveStale(p) ==
  /\ program = "core" /\ p \in lock /\ pc[p] = "off"
  /\ lock' = lock \ {p}
  /\ UNCHANGED <<program, pc, file, crashed>>
-----------------------------------------------------------------------------
(* The settings.                                                           *)

\* Mutated form: what was loaded is saved again at every start.
LoadSaves(p) ==
  /\ pc[p] = "locked" /\ disk \in Values
  /\ settings' = [settings EXCEPT ![p] = disk]
  /\ To(p, "create")
  /\ UNCHANGED <<program, lock, disk, chosen, saved, unread, crashed>>

\* A readable file.
Load(p) ==
  /\ pc[p] = "locked" /\ disk \in Values
  /\ settings' = [settings EXCEPT ![p] = disk]
  /\ To(p, "running")
  /\ UNCHANGED <<program, lock, disk, chosen, saved, unread, crashed>>

\* No file, or for the window one that cannot be parsed: the defaults, which are
\* saved.
LoadDefaults(p) ==
  /\ pc[p] = "locked"
  /\ disk = "absent" \/ (program = "ui" /\ disk = "torn")
  /\ settings' = [settings EXCEPT ![p] = Default]
  /\ To(p, "create")
  /\ UNCHANGED <<program, lock, disk, chosen, saved, unread, crashed>>

\* The file is there, but exists() answers FALSE because its stat failed, or (the
\* window) it cannot be read: the defaults, which are saved over it.
LoadUnread(p) ==
  /\ pc[p] = "locked" /\ disk # "absent"
  /\ settings' = [settings EXCEPT ![p] = Default]
  /\ unread' = TRUE
  /\ To(p, "create")
  /\ UNCHANGED <<program, lock, disk, chosen, saved, crashed>>

\* The file cannot be parsed or read: the library answers an error, and its user
\* ends.
LoadFails(p) ==
  /\ pc[p] = "locked" /\ program = "core" /\ disk # "absent"
  /\ To(p, "off")
  /\ Release(p)
  /\ UNCHANGED <<program, file, crashed>>

\* The user selects a container, a bitrate or a folder, the same one included.
Choose(p, v) ==
  /\ pc[p] = "running"
  /\ settings' = [settings EXCEPT ![p] = v]
  /\ chosen' = v
  /\ saved' = FALSE /\ unread' = FALSE
  /\ To(p, "create")
  /\ UNCHANGED <<program, lock, disk, crashed>>

\* The file is created, or truncated.
Create(p) ==
  /\ pc[p] = "create"
  /\ disk' = "torn"
  /\ To(p, "write")
  /\ UNCHANGED <<program, lock, settings, chosen, saved, unread, crashed>>

Write(p) ==
  /\ pc[p] = "write"
  /\ disk' = settings[p]
  /\ saved' = (saved \/ settings[p] = chosen)
  /\ To(p, "running")
  /\ UNCHANGED <<program, lock, settings, chosen, unread, crashed>>

\* No directory, no file or no space.  The window goes on with what it has in
\* memory; the user of the library gets an error and may end.
SaveFails(p) ==
  /\ pc[p] \in {"create", "write"}
  /\ \/ To(p, "running") /\ UNCHANGED lock
     \/ program = "core" /\ To(p, "off") /\ Release(p)
  /\ UNCHANGED <<program, file, crashed>>
-----------------------------------------------------------------------------
Next ==
  \E p \in Procs :
    \/ Acquire(p) \/ Refused(p) \/ Quit(p) \/ Crash(p) \/ RemoveStale(p)
    \/ Load(p) \/ LoadDefaults(p) \/ LoadUnread(p) \/ LoadFails(p)
    \/ \E v \in Values : Choose(p, v)
    \/ Create(p) \/ Write(p) \/ SaveFails(p)

Spec == Init /\ [][Next]_vars
-----------------------------------------------------------------------------
(* Properties.                                                             *)

\* Every variable has its type, and there is one lock.
TypeOK ==
  /\ program \in Programs
  /\ pc \in [Procs -> {"off", "locked", "create", "write", "running"}]
  /\ lock \subseteq Procs /\ (\A p, q \in lock : p = q)
  /\ crashed \subseteq Procs
  /\ settings \in [Procs -> Values]
  /\ disk \in Values \cup {"absent", "torn"}
  /\ chosen \in Values /\ saved \in BOOLEAN /\ unread \in BOOLEAN

\* Two processes are never past the lock together, also after crashes and
\* refused starts ("Single-instance TCP loopback lock", main.rs:4); and a lock is
\* there only for a process that is there, or, the lock file, for one that
\* crashed.
OneInstance ==
  /\ \A p, q \in Procs : pc[p] # "off" /\ pc[q] # "off" => p = q
  /\ \A p \in lock : pc[p] # "off" \/ (program = "core" /\ p \in crashed)

\* Settings that were saved completely stay in the file, over crashes, failed
\* saves, refused starts and starts that can read it, until others are chosen:
\* and a process past its load has them.
SettingsKept ==
  saved /\ ~ unread =>
    /\ disk = chosen
    /\ \A p \in Procs : pc[p] \in {"create", "write", "running"} =>
         settings[p] = chosen
=============================================================================
