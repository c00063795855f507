------------------------------ MODULE Loopback ------------------------------
(***************************************************************************)
(* The drive manager that plays drives with loop devices                   *)
(* (pkg/drivemgr/loopbackmgr): the drives it reports, the files and loop   *)
(* devices behind them, and the config file it follows.                    *)
(*                                                                         *)
(* The process recovers its drives from the files it finds, then brings    *)
(* them in line with the config and makes what is missing of files and     *)
(* loop devices, and does so again for each event of the config file.  It  *)
(* may die between two commands, and the node may reboot; files outlive    *)
(* both.  The lock is held by each of the two phases, so GetDrivesList     *)
(* may see the drives between them.                                        *)
(***************************************************************************)
EXTENDS FiniteSets, Integers, SequencesExt

CONSTANTS
  Named,       \* bases of the serial numbers the config may name
  Within,      \* pairs of a file's name and a serial number that contains it
  Configs,     \* input: the contents the config file may have
  Changes,     \* which changes of the environment happen
  MaxChanges,  \* bound on their number
  None, NotYAML

\* Serial numbers and file names are <<k, base>>: the base with k times the
\* prefix LOOPBACK.  Generated bases are numbers.
Serial == (0..3) \X (Named \cup Nat)
File == (0..2) \X (Named \cup Nat)
Health == {"GOOD", "BAD"}
DefaultSize == 101
DefaultNumberOfDevices == 3

\* full: the config gives all fields of the drive, of the size DefaultSize
ConfigDrive == [serial : File, health : Health, removed : BOOLEAN, full : BOOLEAN]

ASSUME LoopbackAssumption ==
  /\ \A b \in Named : b \notin Nat
  /\ None \notin Configs /\ None \notin Serial /\ None # NotYAML
  /\ \A c \in Configs \ {NotYAML} :
       /\ DOMAIN c = {"count", "size", "drives"}
       /\ c.count \in Nat /\ c.size \in Nat \cup {None}
       /\ c.drives \in Seq(ConfigDrive)
       /\ \A i, j \in DOMAIN c.drives : c.drives[i].serial = c.drives[j].serial => i = j
  /\ Changes \subseteq {"config", "crash", "reboot", "hangup", "failure"}
  /\ MaxChanges \in Nat

VARIABLES
  conf,     \* the config file
  event,    \* an event of the config file is waiting
  config,   \* the config as the manager has read it
  phase,    \* what the manager does next
  devices,  \* the drives of the manager
  length,   \* the length of its list of drives: one may be in it twice
  files,    \* the image files, with the default size they were made for
  loops,    \* files with a loop device
  ids,      \* how many serial numbers were generated
  cleaned,  \* CleanupLoopDevices has run in this process
  dropped,  \* history: serial numbers the config once named and then did not
  changes

vars == <<conf, event, config, phase, devices, length, files, loops, ids, cleaned,
          dropped, changes>>

\* own: it is the drive in the config, and not a copy that was recovered before
Device == [serial : Serial, file : File \cup {None}, size : Nat, health : Health,
           removed : BOOLEAN, bound : BOOLEAN, own : BOOLEAN]

DrivesOf(c) == IF c \in {None, NotYAML} THEN <<>> ELSE c.drives
NamedBy(c) == {e.serial : e \in ToSet(DrivesOf(c))}
KnownSerials == UNION {NamedBy(c) : c \in Configs}

TypeOK ==
  /\ conf \in Configs /\ event \in BOOLEAN
  /\ config \in (Configs \ {NotYAML}) \cup {None}
  /\ phase \in {"recover", "update", "files", "loops", "watch"}
  /\ devices \subseteq Device /\ length \in Nat
  /\ files \in [DOMAIN files -> Nat] /\ DOMAIN files \subseteq File
  /\ loops \subseteq DOMAIN files
  /\ ids \in Nat /\ cleaned \in BOOLEAN
  /\ dropped \subseteq KnownSerials /\ changes \in 0..MaxChanges
  /\ phase = "recover" => devices = {}

\* Numbers are generated at random: a config names only those there are already.
Foretells(c, n) == \E s \in NamedBy(c) : s[2] \in Nat /\ s[2] >= n

Init ==
  /\ conf \in Configs /\ ~Foretells(conf, 0)
  /\ event = FALSE /\ config = None /\ phase = "recover" /\ devices = {} /\ length = 0
  /\ files = [f \in {} |-> 0] /\ loops = {} /\ ids = 0
  /\ cleaned = FALSE /\ dropped = {} /\ changes = 0

-----------------------------------------------------------------------------
\* readAndSetConfig: what cannot be read leaves the config as it was.
ReadConfig(old) == IF conf = NotYAML THEN old ELSE conf

\* strings.Contains(serial number, last part of the file name)
IsNameIn(serial, file) ==
  <<file, serial>> \in Within \/ (serial[2] = file[2] /\ serial[1] >= file[1])

\* fillEmptyFieldsWithDefaults: a drive of which only serial and file are given
FillEmptyFieldsWithDefaults(serial, file) ==
  [serial |-> serial, file |-> file, size |-> DefaultSize, health |-> "GOOD",
   removed |-> FALSE, bound |-> FALSE, own |-> FALSE]

FromConfig(e, file) ==
  [FillEmptyFieldsWithDefaults(e.serial, file) EXCEPT
     !.health = e.health, !.removed = e.removed, !.own = TRUE]

\* mutant: the serial number of a file is its name
RecoveredPlain(file) == FillEmptyFieldsWithDefaults(file, file)

\* A file that no serial number of the config contains: a drive with the defaults.
RecoveredByDefault(file) ==
  FillEmptyFieldsWithDefaults(<<file[1] + 1, file[2]>>, file)

\* attemptToRecoverDevices: each file is the drives of the config whose serial
\* number contains its name.  A drive found for several files is in the list for
\* each of them, with the last one in the directory's order as its file.
AttemptToRecoverDevices ==
  LET c       == IF DOMAIN files = {} THEN None ELSE ReadConfig(None)
      found   == {fe \in (DOMAIN files) \X ToSet(DrivesOf(c)) : IsNameIn(fe[2].serial, fe[1])}
      entries == {fe[2] : fe \in found}
      others  == DOMAIN files \ {fe[1] : fe \in found}
  IN  /\ phase = "recover"
      /\ config' = c
      /\ \E last \in [entries -> DOMAIN files] :
           /\ \A e \in entries : <<last[e], e>> \in found
           /\ devices' = {FromConfig(e, last[e]) : e \in entries}
                           \cup {RecoveredByDefault(f) : f \in others}
      /\ length' = Cardinality(found) + Cardinality(others)
      /\ phase' = "update" /\ cleaned' = FALSE
      /\ UNCHANGED <<conf, event, files, loops, ids, dropped, changes>>

-----------------------------------------------------------------------------
(* updateDevicesFromConfig *)

SizeBy(c) == IF c = None \/ c.size = None THEN DefaultSize ELSE c.size

\* mutant: one too few
LackingOne(wanted, n) == IF n + 1 < wanted THEN wanted - n - 1 ELSE 0

\* How many default drives a list of n is short of.
Lacking(wanted, n) == IF n < wanted THEN wanted - n ELSE 0

\* createDefaultDevices: n drives, numbered from first
DefaultDevices(c, first, n) ==
  {[FillEmptyFieldsWithDefaults(<<1, i>>, <<0, i>>) EXCEPT !.size = SizeBy(c)] :
     i \in first .. first + n - 1}

\* Equals: a field the config leaves out is not the default the drive has.
Equals(d, e) ==
  \/ d.own
  \/ e.full /\ d.health = e.health /\ d.removed = e.removed /\ d.size = DefaultSize

\* The drive takes the fields of the config.  Its size and its file are kept only
\* if it has a loop device.
Override(d, e) ==
  IF Equals(d, e) THEN d
  ELSE [FromConfig(e, IF d.bound THEN d.file ELSE None) EXCEPT
          !.size = IF d.bound THEN d.size ELSE @]

EntriesFor(c, d) == {e \in ToSet(c.drives) : e.serial = d.serial}

Overridden(c, d) ==
  IF EntriesFor(c, d) = {} THEN d ELSE Override(d, CHOOSE e \in EntriesFor(c, d) : TRUE)

\* A new drive of the config; without a size it takes the default of the config.
NewDevice(c, e) ==
  [FromConfig(e, e.serial) EXCEPT !.size = IF e.full THEN DefaultSize ELSE SizeBy(c)]

\* The first of the new drives of the config, as many as there is room for.
Appended(c, devs, n) ==
  LET new == {i \in DOMAIN c.drives : \A d \in devs : d.serial # c.drives[i].serial}
  IN  {i \in new : n + Cardinality({j \in new : j < i}) < c.count}

\* overrideDevicesFromNodeConfig
OverrideDevicesFromNodeConfig(c, devs, added) ==
  {Overridden(c, d) : d \in devs} \cup {NewDevice(c, c.drives[i]) : i \in added}

\* mutant: drives of the config change their size, too
ResizedAll(c, devs) == {d \in devs : c.size # None /\ d.size # c.size /\ d.bound}

\* drives that the config does not name and that do not have the default size
Resized(c, devs) ==
  {d \in devs : /\ d.serial \notin NamedBy(c)
                /\ c.size # None /\ d.size # c.size /\ d.bound}

\* They are deleted, and made again with the default size.
WithSize(c, devs, resize) ==
  (devs \ resize) \cup {[d EXCEPT !.size = SizeBy(c), !.bound = FALSE] : d \in resize}

\* What updateDevicesFromConfig makes of the drives, and the files it deletes.  A
\* config that was read again has drives of its own.
Update ==
  LET c      == ReadConfig(config)
      devs   == IF conf = NotYAML THEN devices ELSE {[d EXCEPT !.own = FALSE] : d \in devices}
      first  == IF c = None THEN Lacking(DefaultNumberOfDevices, length)
                ELSE IF devices = {} THEN Lacking(c.count, Len(c.drives)) ELSE 0
      filled == devs \cup DefaultDevices(c, ids, first)
      added  == IF c = None THEN {} ELSE Appended(c, filled, length + first)
      over   == IF c = None THEN filled ELSE OverrideDevicesFromNodeConfig(c, filled, added)
      resize == IF c = None THEN {} ELSE Resized(c, over)
      so_far == length + first + Cardinality(added)
      rest   == IF c = None THEN 0 ELSE Lacking(c.count, so_far)
  IN  [config |-> c, ids |-> ids + first + rest, length |-> so_far + rest,
       gone |-> {d.file : d \in resize},
       devices |-> WithSize(c, over, resize) \cup DefaultDevices(c, ids + first, rest)]

\* deleteLoopbackDevice of some drives: losetup -d was successful for those of the
\* first files, rm for those of the second.  The loop device of a file that is
\* deleted is none of a new file with its name.
DeleteLoopbackDevices(detached, deleted) ==
  /\ loops' = loops \ (detached \cup deleted)
  /\ files' = [f \in DOMAIN files \ deleted |-> files[f]]

Change(kind) ==
  /\ kind \in Changes /\ changes < MaxChanges
  /\ changes' = changes + 1

\* Commands that fail are only logged: the drive counts as deleted.
UpdateDevicesFromConfig ==
  LET u == Update
  IN  /\ phase = "update"
      /\ config' = u.config /\ devices' = u.devices /\ length' = u.length /\ ids' = u.ids
      /\ \/ DeleteLoopbackDevices(u.gone, u.gone) /\ UNCHANGED changes
         \/ /\ Change("failure")
            /\ \E detached, deleted \in SUBSET u.gone : DeleteLoopbackDevices(detached, deleted)
      /\ phase' = "files"
      /\ UNCHANGED <<conf, event, cleaned, dropped>>

-----------------------------------------------------------------------------
(* Init of the manager: files first, then loop devices *)

WithoutFile == {d \in devices : ~d.bound /\ d.file \notin DOMAIN files}

\* dd makes a file that does not exist.
CreateFile(d) ==
  /\ phase = "files" /\ d \in WithoutFile /\ d.file # None
  /\ files' = [f \in DOMAIN files \cup {d.file} |-> IF f = d.file THEN d.size ELSE files[f]]
  /\ UNCHANGED <<conf, event, config, phase, devices, length, loops, ids, cleaned,
                 dropped, changes>>

GetBackFileToLoopMap ==
  /\ phase = "files" /\ WithoutFile = {}
  /\ phase' = "loops"
  /\ UNCHANGED <<conf, event, config, devices, length, files, loops, ids, cleaned, dropped,
                 changes>>

Unregistered == {d \in devices : ~d.bound \/ d.file \notin loops}

\* The loop device of the file is used, or losetup makes one: then the drive is
\* not removed any more, whatever the config says.
Register(d) ==
  /\ phase = "loops" /\ d \in Unregistered
  /\ d.file \in loops \cup DOMAIN files
  /\ loops' = loops \cup {d.file}
  /\ devices' = (devices \ {d})
       \cup {[d EXCEPT !.bound = TRUE, !.removed = IF d.file \in loops THEN @ ELSE FALSE]}
  /\ UNCHANGED <<conf, event, config, phase, length, files, ids, cleaned, dropped, changes>>

InitDone ==
  /\ phase = "loops" /\ Unregistered = {}
  /\ phase' = "watch"
  /\ UNCHANGED <<conf, event, config, devices, length, files, loops, ids, cleaned, dropped,
                 changes>>

\* mutant: an event that came during an update is dropped with it
UpdateOnConfigChangeOnce ==
  /\ phase = "watch" /\ event /\ config # conf
  /\ event' = FALSE /\ phase' = "files"
  /\ UNCHANGED <<conf, config, devices, length, files, loops, ids, cleaned, dropped,
                 changes>>

\* UpdateOnConfigChange: the next event
UpdateOnConfigChange ==
  /\ phase = "watch" /\ event
  /\ event' = FALSE /\ phase' = "update"
  /\ UNCHANGED <<conf, config, devices, length, files, loops, ids, cleaned, dropped,
                 changes>>

\* A new process: it knows nothing, and watches the file once it has recovered.
Restarted ==
  /\ phase' = "recover" /\ devices' = {} /\ length' = 0 /\ config' = None
  /\ event' = FALSE /\ cleaned' = FALSE

\* log.Fatal: no file to make, or no file for losetup
Fatal ==
  /\ \/ phase = "files" /\ \E d \in WithoutFile : d.file = None
     \/ phase = "loops" /\ \E d \in Unregistered : d.file \notin loops \cup DOMAIN files
  /\ Restarted
  /\ UNCHANGED <<conf, files, loops, ids, dropped, changes>>

\* what the manager reports: path is the file behind the loop device
GetDrivesList ==
  {[serial |-> d.serial, health |-> d.health,
    status |-> IF d.removed THEN "OFFLINE" ELSE "ONLINE",
    path |-> IF d.bound THEN d.file ELSE None] : d \in devices}

-----------------------------------------------------------------------------
(* The world *)

\* The file gets other contents, which may be unreadable or name other drives.
ChangeConfig ==
  /\ Change("config")
  /\ conf' \in Configs \ {conf} /\ ~Foretells(conf', ids)
  /\ dropped' = dropped \cup (NamedBy(conf) \ NamedBy(conf'))
  /\ event' = (phase # "recover")
  /\ UNCHANGED <<config, phase, devices, length, files, loops, ids, cleaned>>

\* The process dies, or one of the commands it cannot do without fails (Fatal).
\* In the middle of an update some files may be deleted.
Crash ==
  /\ Change("crash") /\ phase # "recover"
  /\ \/ /\ phase = "update"
        /\ \E detached, deleted \in SUBSET Update.gone : DeleteLoopbackDevices(detached, deleted)
     \/ UNCHANGED <<files, loops>>
  /\ Restarted
  /\ UNCHANGED <<conf, ids, dropped>>

Reboot ==
  /\ Change("reboot")
  /\ Restarted
  /\ loops' = {}
  /\ UNCHANGED <<conf, files, ids, dropped>>

\* SIGHUP: CleanupLoopDevices deletes all loop devices and files, without the
\* lock, and the process goes on.  It may fail for some of them.
CleanupLoopDevices ==
  LET gone == {d.file : d \in devices} \ {None}
  IN  /\ Change("hangup") /\ ~cleaned
      /\ \E detached, deleted \in SUBSET gone :
           /\ "failure" \notin Changes => detached = gone /\ deleted = gone
           /\ DeleteLoopbackDevices(detached, deleted)
      /\ devices' = {[d EXCEPT !.removed = TRUE] : d \in devices}
      /\ cleaned' = TRUE
      /\ UNCHANGED <<conf, event, config, phase, length, ids, dropped>>

Manager ==
  \/ AttemptToRecoverDevices \/ UpdateDevicesFromConfig
  \/ \E d \in devices : CreateFile(d)
  \/ \E d \in devices : Register(d)
  \/ GetBackFileToLoopMap \/ InitDone \/ UpdateOnConfigChange \/ Fatal

Next == Manager \/ ChangeConfig \/ Crash \/ Reboot \/ CleanupLoopDevices

Spec == Init /\ [][Next]_vars

\* The manager goes on as long as there is something to do.
FairSpec == Spec /\ WF_vars(Manager)

-----------------------------------------------------------------------------
(* Properties *)

\* The serial number of the drive that a file was made for.
IdOf(file) == IF file[1] = 0 /\ file[2] \in Nat THEN <<1, file[2]>> ELSE file

\* No config names another drive whose serial number contains the file's name.
Alone(file) == \A s \in KnownSerials : IsNameIn(s, file) => s = IdOf(file)

\* Discovery tells drives by their serial numbers: no two drives ever have the same,
\* and a file is the drive it was made for through every restart, provided that its
\* name is in no other serial number of a config.  For a generated drive nothing
\* else is needed, whether a config names it or not; a drive that the config added
\* is safe as long as no edit takes it out or leaves the config unreadable.
StableIdentity ==
  /\ \A d, e \in devices : d.serial = e.serial => d = e
  /\ \A d \in devices :
       d.file # None /\ Alone(d.file) /\ d.file \notin dropped => d.serial = IdOf(d.file)

\* When the manager is waiting for events, wherever it was interrupted before,
\* each drive it reports has a path that leads to a file, and its list of drives is
\* at least as long as the config it follows asks for.
ReportedIsBacked ==
  phase = "watch" /\ ~cleaned =>
    /\ \A r \in GetDrivesList : r.path \in loops \cap DOMAIN files
    /\ config # None => length >= config.count

\* The data of a drive that the config added is never deleted, whatever becomes of
\* sizes and numbers, until the manager is told to clean up: as long as no edit has
\* taken the drive out or left the config unreadable, and provided that the file's
\* name is in no other serial number.
NamedDriveKept ==
  [][\A f \in DOMAIN files :
       /\ IdOf(f) = f /\ Alone(f) /\ f \notin dropped
       /\ f \notin DOMAIN files'
       => cleaned']_vars

\* A change of the config comes into effect, also when it races with an update:
\* the drives it names have the health it gives them, if there was room, and
\* the list is as long as it asks for.
InEffect(c) ==
  /\ length >= c.count
  /\ \A e \in ToSet(c.drives) :
       \/ \E d \in devices : d.serial = e.serial /\ d.health = e.health
       \/ \A d \in devices : d.serial # e.serial

ConfigTakesEffect ==
  \A c \in Configs \ {NotYAML} : conf = c ~> conf # c \/ InEffect(c)

-----------------------------------------------------------------------------
(* What makes StableIdentity and ReportedIsBacked inductive, and           *)
(* NamedDriveKept a consequence.                                           *)

Drawn(s) == s[2] \in Nat => s[2] < ids

\* A file was made for a generated drive, or for one that the config named.
FileOK(f) == Drawn(f) /\ (IdOf(f) = f => f \in NamedBy(conf) \cup dropped)

FilesOK ==
  /\ IsFiniteSet(DOMAIN files)
  /\ \A f \in DOMAIN files : FileOK(f)

DevicesOK ==
  /\ \A d \in devices : Drawn(d.serial) /\ (d.file # None => FileOK(d.file))
  /\ StableIdentity

ConfigOK ==
  /\ \A s \in NamedBy(conf) \cup NamedBy(config) : Drawn(s)
  /\ NamedBy(config) \subseteq NamedBy(conf) \cup dropped

PhaseOK ==
  /\ phase \in {"files", "loops", "watch"} /\ config # None => length >= config.count
  /\ phase = "watch" => \A d \in devices : d.bound /\ d.file # None
  /\ phase = "watch" /\ ~cleaned => \A d \in devices : d.file \in loops

LoopInv == TypeOK /\ FilesOK /\ DevicesOK /\ ConfigOK /\ PhaseOK
=============================================================================
