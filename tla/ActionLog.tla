-------------------------------- MODULE ActionLog --------------------------------
(***************************************************************************)
(* The log file of user actions (setup_actions_logger) and its rotation.   *)
(* Every worker process has a handler of its own on the one file.  When a  *)
(* record does not fit, the handler closes its stream, renames backup i to *)
(* i + 1 from the oldest down, compresses the file into backup 1, removes  *)
(* it and opens it anew.  The order of these steps is that of              *)
(* RotatingFileHandler (external, Python 3.10); how a file becomes a       *)
(* backup is _compressed_rotator.                                          *)
(*                                                                         *)
(* Entries are numbered in the order they are logged and have size 1.      *)
(***************************************************************************)
EXTENDS Naturals, FiniteSets

CONSTANTS
    Workers,     \* the worker processes
    MaxEntries,  \* bound: entries of a behaviour
    MaxBytes,    \* maxBytes: the file is rotated before it gets this size
    BackupCount, \* backupCount
    NoFile       \* a name without a file, a handler without a stream

(* A number for each file that is open or has a name.                      *)
Inodes == 1..(Cardinality(Workers) + 1)
Entries == 1..MaxEntries
Backups == 1..BackupCount

ASSUME ConstantsAssumption ==
    /\ IsFiniteSet(Workers) /\ NoFile \notin Nat
    /\ MaxEntries \in Nat \ {0} /\ BackupCount \in Nat \ {0}
    /\ MaxBytes \in Nat /\ MaxBytes > 1

VARIABLES
    base,    \* the file named user_action.log
    content, \* the entries in each file
    stream,  \* the file each worker's handler has open
    step,    \* where each worker is in emit
    at,      \* the backup its loop in doRollover is at
    entry,   \* the entry it is logging
    backup,  \* the entries in each backup; {} for none
    broken,  \* the backups whose compression did not finish
    logged,  \* how many entries were begun
    age,     \* history: the rotations begun since each entry was written
    dropped, \* history: entries whose emit raised or whose worker died
    astray,  \* history: entries written while another worker rotated the file,
             \* or that were there when two rotations overlapped
    causes   \* history: "died", "full" (disk), "overlap" (of two rotations)

fileVars == <<base, content, stream>>
backupVars == <<backup, broken>>
historyVars == <<age, dropped, astray, causes>>
vars == <<fileVars, step, at, entry, backupVars, logged, historyVars>>

Unwritten == 0
Written == {e \in Entries : age[e] # Unwritten}

Init ==
    /\ base = 1
    /\ content = [i \in Inodes |-> {}]
    /\ stream = [w \in Workers |-> 1]
    /\ step = [w \in Workers |-> "idle"]
    /\ at = [w \in Workers |-> 0]
    /\ entry = [w \in Workers |-> 1]
    /\ backup = [b \in Backups |-> {}]
    /\ broken = {}
    /\ logged = 0
    /\ age = [e \in Entries |-> Unwritten]
    /\ dropped = {} /\ astray = {} /\ causes = {}

Goto(w, s) == step' = [step EXCEPT ![w] = s]

Rotating(w) == step[w] \in {"shift", "compress", "remove", "reopen"}
OthersRotate(w) == \E v \in Workers \ {w} : Rotating(v)

(* _open in mode "a": the file of that name, or a new one.                 *)
NewFile ==
    CHOOSE i \in Inodes : i # base /\ \A w \in Workers : stream[w] # i
Open(w) ==
    /\ base' = IF base = NoFile THEN NewFile ELSE base
    /\ stream' = [stream EXCEPT ![w] = base']
    /\ content' = IF base = NoFile
                  THEN [content EXCEPT ![NewFile] = {}] ELSE content

--------------------------------------------------------------------------------
(***************************************************************************)
(* emit                                                                    *)
(***************************************************************************)

(* A handler that lost its stream to a failed rotation opens the file.     *)
Log(w) ==
    /\ step[w] = "idle" /\ logged < MaxEntries
    /\ logged' = logged + 1
    /\ entry' = [entry EXCEPT ![w] = logged + 1]
    /\ IF stream[w] = NoFile THEN Open(w) ELSE UNCHANGED fileVars
    /\ Goto(w, "check")
    /\ UNCHANGED <<at, backupVars, historyVars>>

(* shouldRollover asks for the size of the worker's own stream.            *)
Fits(w) == Cardinality(content[stream[w]]) + 1 < MaxBytes

RoomLeft(w) ==
    /\ step[w] = "check" /\ Fits(w)
    /\ Goto(w, "write")
    /\ UNCHANGED <<fileVars, at, entry, backupVars, logged, historyVars>>

(* doRollover closes the stream.  Every entry so far grows older.          *)
BeginRotation(w) ==
    /\ step[w] = "check" /\ ~ Fits(w)
    /\ stream' = [stream EXCEPT ![w] = NoFile]
    /\ at' = [at EXCEPT ![w] = BackupCount - 1]
    /\ Goto(w, IF BackupCount = 1 THEN "compress" ELSE "shift")
    /\ age' = [e \in Entries |->
                  IF age[e] \in 1..(BackupCount + 1) THEN age[e] + 1 ELSE age[e]]
    /\ IF OthersRotate(w)
       THEN causes' = causes \cup {"overlap"} /\ astray' = Written
       ELSE UNCHANGED <<causes, astray>>
    /\ UNCHANGED <<base, content, entry, backupVars, logged, dropped>>

(* One turn of the loop: backup i, if there is one, becomes i + 1.         *)
Shift(w) ==
    /\ step[w] = "shift"
    /\ LET i == at[w] IN
       /\ IF backup[i] # {} \/ i \in broken
          THEN /\ backup' = [backup EXCEPT ![i] = {}, ![i + 1] = backup[i]]
               /\ broken' = {IF b = i THEN i + 1 ELSE b : b \in broken \ {i + 1}}
          ELSE UNCHANGED backupVars
       /\ at' = [at EXCEPT ![w] = i - 1]
       /\ Goto(w, IF i = 1 THEN "compress" ELSE "shift")
    /\ UNCHANGED <<fileVars, entry, logged, historyVars>>

(* The copy of _compressed_rotator; an old backup 1 is removed before.     *)
Compress(w) ==
    /\ step[w] = "compress" /\ base # NoFile
    /\ backup' = [backup EXCEPT ![1] = content[base]]
    /\ broken' = broken \ {1}
    /\ Goto(w, "remove")
    /\ UNCHANGED <<fileVars, at, entry, logged, historyVars>>

(* handleError: the record is gone, the handler has no stream.             *)
Drop(w) ==
    /\ Goto(w, "idle")
    /\ dropped' = dropped \cup {entry[w]}
    /\ UNCHANGED <<at, entry, logged, age, astray>>

(* Mutation of CompressFails: the file is removed whether or not it could  *)
(* be compressed.                                                          *)
CompressFailsRemoves(w) ==
    /\ step[w] = "compress" /\ base # NoFile
    /\ backup' = [backup EXCEPT ![1] = {}]
    /\ broken' = broken \cup {1}
    /\ base' = NoFile
    /\ causes' = causes \cup {"full"}
    /\ Drop(w)
    /\ UNCHANGED <<content, stream>>

(* The disk is full: what was copied stays as backup 1, and the file       *)
(* stays, to be rotated again by the next emit.                            *)
CompressFails(w) ==
    /\ step[w] = "compress" /\ base # NoFile
    /\ backup' = [backup EXCEPT ![1] = {}]
    /\ broken' = broken \cup {1}
    /\ causes' = causes \cup {"full"}
    /\ Drop(w)
    /\ UNCHANGED fileVars

(* Another worker removed the file: open(source) or os.remove raises.      *)
NothingToRotate(w) ==
    /\ step[w] \in {"compress", "remove"} /\ base = NoFile
    /\ IF step[w] = "compress"
       THEN /\ backup' = [backup EXCEPT ![1] = {}]
            /\ broken' = broken \ {1}
       ELSE UNCHANGED backupVars
    /\ Drop(w)
    /\ UNCHANGED <<fileVars, causes>>

(* Mutation of Remove: the file is compressed and kept.                    *)
KeepFile(w) ==
    /\ step[w] = "remove" /\ base # NoFile
    /\ Goto(w, "reopen")
    /\ UNCHANGED <<fileVars, at, entry, backupVars, logged, historyVars>>

(* By name, whatever file has it by now.                                   *)
Remove(w) ==
    /\ step[w] = "remove" /\ base # NoFile
    /\ base' = NoFile
    /\ Goto(w, "reopen")
    /\ UNCHANGED <<content, stream, at, entry, backupVars, logged, historyVars>>

Reopen(w) ==
    /\ step[w] = "reopen"
    /\ Open(w)
    /\ Goto(w, "write")
    /\ UNCHANGED <<at, entry, backupVars, logged, historyVars>>

(* The entry goes to the open stream, whatever its name by now.            *)
Write(w) ==
    /\ step[w] = "write"
    /\ content' = [content EXCEPT ![stream[w]] = @ \cup {entry[w]}]
    /\ age' = [age EXCEPT ![entry[w]] = 1]
    /\ astray' = IF stream[w] # base \/ OthersRotate(w)
                 THEN astray \cup {entry[w]} ELSE astray
    /\ Goto(w, "idle")
    /\ UNCHANGED <<base, stream, at, entry, backupVars, logged, dropped, causes>>

WriteFails(w) ==
    /\ step[w] = "write"
    /\ causes' = causes \cup {"full"}
    /\ Drop(w)
    /\ UNCHANGED <<fileVars, backupVars>>

(* The process is killed, in the middle of the copy perhaps, and another   *)
(* one started in its place, which opens the file.                         *)
Die(w) ==
    /\ Open(w)
    /\ Goto(w, "idle")
    /\ \/ UNCHANGED backupVars
       \/ /\ step[w] = "compress" /\ base # NoFile
          /\ backup' = [backup EXCEPT ![1] = {}]
          /\ broken' = broken \cup {1}
    /\ dropped' = IF step[w] = "idle" THEN dropped ELSE dropped \cup {entry[w]}
    /\ causes' = causes \cup {"died"}
    /\ UNCHANGED <<at, entry, logged, age, astray>>

Emit(w) ==
    \/ Log(w) \/ RoomLeft(w) \/ BeginRotation(w) \/ Shift(w)
    \/ Compress(w) \/ CompressFails(w) \/ NothingToRotate(w)
    \/ Remove(w) \/ Reopen(w) \/ Write(w) \/ WriteFails(w)

Next == \E w \in Workers : Emit(w) \/ Die(w)

Spec == Init /\ [][Next]_vars
--------------------------------------------------------------------------------
(***************************************************************************)
(* Properties                                                              *)
(***************************************************************************)

(* Type invariant. *)
TypeOK ==
    /\ base \in Inodes \cup {NoFile}
    /\ content \in [Inodes -> SUBSET Entries]
    /\ stream \in [Workers -> Inodes \cup {NoFile}]
    /\ step \in [Workers -> {"idle", "check", "shift", "compress", "remove",
                             "reopen", "write"}]
    /\ at \in [Workers -> 0..BackupCount]
    /\ entry \in [Workers -> Entries]
    /\ backup \in [Backups -> SUBSET Entries]
    /\ broken \in SUBSET Backups
    /\ logged \in 0..MaxEntries
    /\ age \in [Entries -> 0..(BackupCount + 2)]
    /\ dropped \in SUBSET Entries /\ astray \in SUBSET Entries
    /\ causes \in SUBSET {"died", "full", "overlap"}

InFile(e) == base # NoFile /\ e \in content[base]

(* An entry that was written can be read, in the file or a backup, until   *)
(* BackupCount further rotations have begun, whatever dies or fails in     *)
(* between: the file is only removed once it is compressed.  Rotations     *)
(* that fail count, so that a full disk costs a backup for every entry     *)
(* that cannot be logged.  The exceptions are entries written by one       *)
(* worker while another one rotates the file, or after it did, and all     *)
(* that is in the log when two rotations overlap: the compressed file of   *)
(* one may be overwritten by the other, and so may a backup both move.     *)
KeptWhileRecent ==
    \A e \in Written \ astray :
        age[e] <= BackupCount + 1 =>
            InFile(e) \/ \E b \in Backups : e \in backup[b]

(* The places an entry is in.                                              *)
Copies(e) ==
    {b \in Backups : e \in backup[b]} \cup (IF InFile(e) THEN {0} ELSE {})

(* As long as no worker dies, no disk is full and no two rotations         *)
(* overlap, every entry logged is in exactly one place between rotations,  *)
(* until it is too old, and every backup can be read.  So an entry is in   *)
(* the log twice only after a rotation was cut short between compressing   *)
(* and removing.                                                           *)
UndisturbedLogIsExact ==
    causes = {} =>
        /\ dropped = {} /\ broken = {}
        /\ (\A w \in Workers : ~ Rotating(w)) =>
               \A e \in Written \ astray :
                   /\ Cardinality(Copies(e)) <= 1
                   /\ age[e] <= BackupCount + 1 => Copies(e) # {}
================================================================================
