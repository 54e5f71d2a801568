---------------------------- MODULE ActionLog_proofs ----------------------------
(***************************************************************************)
(* Proofs about ActionLog, for any number of workers and entries, any      *)
(* maxBytes and any backupCount of at least 1: the types, that what was    *)
(* logged lately can be read whatever fails, and that nothing is lost or   *)
(* there twice as long as nothing fails.                                   *)
(***************************************************************************)
EXTENDS ActionLog, FiniteSetTheorems, TLAPS

--------------------------------------------------------------------------------
(***************************************************************************)
(* The inductive invariant                                                 *)
(***************************************************************************)

(* at[w] is the backup that the loop of w renames next, 0 when it is done. *)
Control ==
    \A w \in Workers : /\ step[w] = "shift" => at[w] \in 1..(BackupCount - 1)
                       /\ step[w] = "compress" => at[w] = 0

Typed == TypeOK /\ Control

(* A handler that is to write has a stream.                                *)
Streaming ==
    \A w \in Workers : step[w] \in {"check", "write"} => stream[w] # NoFile

(* The entries that must be readable.                                      *)
Fresh == {e \in Written \ astray : age[e] <= BackupCount + 1}

(* What backup b holds is there after the loop of w over the backups, and  *)
(* then no further back than the entry is old.  The loop overwrites backup *)
(* at[w] + 1 next; it moves what is below and leaves what is above.        *)
Spared(w, e, b) ==
    \/ b <= at[w] /\ b + 2 <= age[e]
    \/ b > at[w] + 1 /\ b + 1 <= age[e]

Saved(e) == \E b \in Backups : e \in backup[b] /\ b + 1 <= age[e]

(* Before the file is compressed, an entry is in the file or spared; after *)
(* that it is in a backup, as the file is about to be removed.             *)
SafeFrom(w, e) ==
    /\ step[w] \in {"shift", "compress"} =>
           InFile(e) \/ \E b \in Backups : e \in backup[b] /\ Spared(w, e, b)
    /\ step[w] \in {"remove", "reopen"} => Saved(e)

KeptInv ==
    /\ \A v, w \in Workers :
           Rotating(v) /\ Rotating(w) /\ v # w => Written \subseteq astray
    /\ \A w \in Workers : Rotating(w) =>
           \A e \in Written \ astray : age[e] >= 2
    /\ \A e \in Fresh : /\ InFile(e) \/ Saved(e)
                        /\ \A w \in Workers : SafeFrom(w, e)

(* As long as nothing fails, a worker rotates alone, and the file is gone  *)
(* only between removing it and opening it anew.                           *)
Alone ==
    /\ \A v, w \in Workers : Rotating(v) /\ Rotating(w) => v = w
    /\ base = NoFile => \E w \in Workers : step[w] = "reopen"
    /\ \A w \in Workers : stream[w] = NoFile => Rotating(w)

(* The number of an entry that is not yet written is nobody else's, and    *)
(* the entry is nowhere.                                                   *)
Numbered ==
    /\ \A e \in Entries :
           age[e] = Unwritten => /\ \A i \in Inodes : e \notin content[i]
                                 /\ \A b \in Backups : e \notin backup[b]
    /\ \A e \in Written : e <= logged
    /\ \A w \in Workers : step[w] # "idle" =>
           /\ age[entry[w]] = Unwritten /\ entry[w] <= logged
           /\ \A v \in Workers : step[v] # "idle" /\ entry[v] = entry[w] => v = w

(* An entry is in one backup at most, and in the file as well only when    *)
(* the file is compressed and not yet removed.                             *)
Single ==
    \A e \in Written \ astray :
        /\ \A b, c \in Backups : e \in backup[b] /\ e \in backup[c] => b = c
        /\ InFile(e) /\ (\E b \in Backups : e \in backup[b]) =>
               \E w \in Workers : step[w] = "remove"

ExactInv ==
    causes = {} => dropped = {} /\ broken = {} /\ Alone /\ Numbered /\ Single

Inv == Typed /\ Streaming /\ KeptInv /\ ExactInv

--------------------------------------------------------------------------------
(***************************************************************************)
(* Files                                                                   *)
(***************************************************************************)

(* There is one number more than workers, so one is free for a new file.   *)
LEMMA FreeFile ==
    ASSUME TypeOK, base = NoFile
    PROVE  /\ NewFile \in Inodes
           /\ \A w \in Workers : stream[w] # NewFile
<1> DEFINE D == {w \in Workers : stream[w] \in Inodes}
           f == [w \in D |-> stream[w]]
<1>1. /\ Cardinality(Workers) \in Nat
      /\ IsFiniteSet(D) /\ Cardinality(D) <= Cardinality(Workers)
  BY ConstantsAssumption, FS_CardinalityType, FS_Subset
<1>2. Cardinality(Inodes) = Cardinality(Workers) + 1
  BY <1>1, FS_Interval DEF Inodes
<1>3. \E i \in Inodes : \A w \in Workers : stream[w] # i
  <2> SUFFICES ASSUME \A i \in Inodes : \E w \in Workers : stream[w] = i
               PROVE  FALSE
    OBVIOUS
  <2>1. f \in Surjection(D, Inodes)
    BY DEF Surjection
  <2>2. Cardinality(Inodes) <= Cardinality(D)
    BY <1>1, <2>1, FS_Surjection
  <2>3. Cardinality(D) \in Nat
    BY <1>1, FS_CardinalityType
  <2> QED  BY <1>1, <1>2, <2>2, <2>3
<1>4. \A i \in Inodes : i # base
  BY <1>1, ConstantsAssumption DEF Inodes
<1> QED  BY <1>3, <1>4 DEF NewFile

(* Opening the file by its name gives it to w; a file made for it is       *)
(* empty, and nothing that could be read is gone.                          *)
LEMMA Opened ==
    ASSUME TypeOK, NEW w \in Workers, Open(w)
    PROVE  /\ base' \in Inodes /\ base' # NoFile
           /\ stream' = [stream EXCEPT ![w] = base']
           /\ stream' \in [Workers -> Inodes \cup {NoFile}]
           /\ content' \in [Inodes -> SUBSET Entries]
           /\ \A i \in Inodes : content'[i] \subseteq content[i]
           /\ \A e : InFile(e)' <=> InFile(e)
<1>1. \A i \in Inodes : i # NoFile
  BY ConstantsAssumption, FS_CardinalityType DEF Inodes
<1>2. CASE base = NoFile
  <2>1. /\ NewFile \in Inodes /\ base' = NewFile
        /\ content' = [content EXCEPT ![NewFile] = {}]
    BY <1>2, FreeFile DEF Open
  <2>2. /\ content' \in [Inodes -> SUBSET Entries] /\ content'[base'] = {}
        /\ \A i \in Inodes : content'[i] \subseteq content[i]
    BY <2>1 DEF TypeOK
  <2> QED  BY <1>1, <1>2, <2>1, <2>2 DEF Open, TypeOK, InFile
<1>3. CASE base # NoFile
  <2>1. base' = base /\ content' = content /\ base \in Inodes
    BY <1>3 DEF Open, TypeOK
  <2> QED  BY <1>1, <2>1 DEF Open, TypeOK, InFile
<1> QED  BY <1>2, <1>3

--------------------------------------------------------------------------------
(***************************************************************************)
(* Types                                                                   *)
(***************************************************************************)

Steps == {"idle", "check", "shift", "compress", "remove", "reopen", "write"}

(* A step of w to s keeps Control if w is where s says it is.              *)
LEMMA GotoControl ==
    ASSUME Typed, NEW w \in Workers, NEW s \in Steps, Goto(w, s),
           at' \in [Workers -> 0..BackupCount],
           \A v \in Workers \ {w} : at'[v] = at[v],
           s = "shift" => at'[w] \in 1..(BackupCount - 1),
           s = "compress" => at'[w] = 0
    PROVE  step' \in [Workers -> Steps] /\ Control'
<1>1. /\ step' \in [Workers -> Steps]
      /\ \A v \in Workers : step'[v] = IF v = w THEN s ELSE step[v]
  BY DEF Goto, Typed, TypeOK, Steps
<1> QED  BY <1>1 DEF Typed, Control

(* The first state.                                                        *)
LEMMA InitTyped == Init => Typed
<1>1. 1 \in Inodes
  BY ConstantsAssumption, FS_CardinalityType DEF Inodes
<1>2. 1 \in Entries
  BY ConstantsAssumption DEF Entries
<1> QED
  BY <1>1, <1>2, ConstantsAssumption
  DEF Init, Typed, TypeOK, Control, Unwritten

(* Every step.                                                             *)
LEMMA NextTyped == Typed /\ [Next]_vars => Typed'
<1> SUFFICES ASSUME Typed, [Next]_vars PROVE Typed'
  OBVIOUS
<1>0. TypeOK /\ Control
  BY DEF Typed
<1>c. 1 \in Backups /\ BackupCount \in Nat \ {0} /\ MaxEntries \in Nat \ {0}
  BY ConstantsAssumption DEF Backups
<1>o. ASSUME NEW w \in Workers, Open(w)
      PROVE  /\ base' \in Inodes
             /\ stream' \in [Workers -> Inodes \cup {NoFile}]
             /\ content' \in [Inodes -> SUBSET Entries]
  BY <1>0, <1>o, Opened
<1>d. ASSUME NEW w \in Workers, Drop(w),
             /\ base' \in Inodes \cup {NoFile}
             /\ content' \in [Inodes -> SUBSET Entries]
             /\ stream' \in [Workers -> Inodes \cup {NoFile}],
             backup' \in [Backups -> SUBSET Entries],
             broken' \in SUBSET Backups,
             causes' \in SUBSET {"died", "full", "overlap"}
      PROVE  Typed'
  <2>1. step' \in [Workers -> Steps] /\ Control'
    BY <1>0, <1>d, GotoControl DEF Drop, Steps, TypeOK
  <2>2. dropped' \in SUBSET Entries
    BY <1>0, <1>d DEF Drop, TypeOK
  <2> QED  BY <1>0, <1>d, <2>1, <2>2 DEF Typed, TypeOK, Drop, Steps
<1>1. ASSUME NEW w \in Workers, Log(w) PROVE Typed'
  <2>1. step' \in [Workers -> Steps] /\ Control'
    BY <1>0, <1>1, GotoControl DEF Log, Steps, TypeOK
  <2>2. /\ base' \in Inodes \cup {NoFile}
        /\ content' \in [Inodes -> SUBSET Entries]
        /\ stream' \in [Workers -> Inodes \cup {NoFile}]
    BY <1>0, <1>1, <1>o DEF Log, fileVars, TypeOK
  <2>3. logged' \in 0..MaxEntries /\ entry' \in [Workers -> Entries]
    BY <1>0, <1>1, <1>c DEF Log, TypeOK, Entries
  <2> QED
    BY <1>0, <1>1, <2>1, <2>2, <2>3
    DEF Log, Typed, TypeOK, Steps, backupVars, historyVars
<1>2. ASSUME NEW w \in Workers, RoomLeft(w) PROVE Typed'
  <2>1. step' \in [Workers -> Steps] /\ Control'
    BY <1>0, <1>2, GotoControl DEF RoomLeft, Steps, TypeOK
  <2> QED
    BY <1>0, <1>2, <2>1
    DEF RoomLeft, Typed, TypeOK, Steps, fileVars, backupVars, historyVars
<1>3. ASSUME NEW w \in Workers, BeginRotation(w) PROVE Typed'
  <2>1. /\ at' \in [Workers -> 0..BackupCount] /\ at'[w] = BackupCount - 1
        /\ \A v \in Workers \ {w} : at'[v] = at[v]
    BY <1>0, <1>3, <1>c DEF BeginRotation, TypeOK
  <2>2. step' \in [Workers -> Steps] /\ Control'
    <3>1. CASE BackupCount = 1
      BY <1>0, <1>3, <1>c, <2>1, <3>1, GotoControl DEF BeginRotation, Steps
    <3>2. CASE BackupCount # 1
      <4>1. at'[w] \in 1..(BackupCount - 1)
        BY <1>c, <2>1, <3>2
      <4> QED
        BY <1>0, <1>3, <2>1, <3>2, <4>1, GotoControl DEF BeginRotation, Steps
    <3> QED  BY <3>1, <3>2
  <2>3. age' \in [Entries -> 0..(BackupCount + 2)]
    BY <1>0, <1>3, <1>c DEF BeginRotation, TypeOK
  <2>4. /\ stream' \in [Workers -> Inodes \cup {NoFile}]
        /\ causes' \in SUBSET {"died", "full", "overlap"}
        /\ astray' \in SUBSET Entries
    BY <1>0, <1>3 DEF BeginRotation, TypeOK, Written
  <2> QED
    BY <1>0, <1>3, <2>1, <2>2, <2>3, <2>4
    DEF BeginRotation, Typed, TypeOK, Steps, backupVars
<1>4. ASSUME NEW w \in Workers, Shift(w) PROVE Typed'
  <2>0. /\ at[w] \in 1..(BackupCount - 1)
        /\ at[w] \in Backups /\ at[w] + 1 \in Backups
    BY <1>0, <1>4, <1>c DEF Shift, Control, Backups
  <2>1. /\ at' \in [Workers -> 0..BackupCount] /\ at'[w] = at[w] - 1
        /\ \A v \in Workers \ {w} : at'[v] = at[v]
    BY <1>0, <1>4, <1>c, <2>0 DEF Shift, TypeOK
  <2>2. step' \in [Workers -> Steps] /\ Control'
    <3>1. CASE at[w] = 1
      BY <1>0, <1>4, <2>1, <3>1, GotoControl DEF Shift, Steps
    <3>2. CASE at[w] # 1
      <4>1. at'[w] \in 1..(BackupCount - 1)
        BY <1>c, <2>0, <2>1, <3>2
      <4> QED
        BY <1>0, <1>4, <2>1, <3>2, <4>1, GotoControl DEF Shift, Steps
    <3> QED  BY <3>1, <3>2
  <2>3. /\ backup' \in [Backups -> SUBSET Entries]
        /\ broken' \in SUBSET Backups
    BY <1>0, <1>4, <2>0 DEF Shift, TypeOK, backupVars
  <2> QED
    BY <1>0, <1>4, <2>1, <2>2, <2>3
    DEF Shift, Typed, TypeOK, Steps, fileVars, historyVars
<1>5. ASSUME NEW w \in Workers, Compress(w) PROVE Typed'
  <2>1. step' \in [Workers -> Steps] /\ Control'
    BY <1>0, <1>5, GotoControl DEF Compress, Steps, TypeOK
  <2>2. /\ backup' \in [Backups -> SUBSET Entries]
        /\ broken' \in SUBSET Backups
    BY <1>0, <1>5 DEF Compress, TypeOK
  <2> QED
    BY <1>0, <1>5, <2>1, <2>2
    DEF Compress, Typed, TypeOK, Steps, fileVars, historyVars
<1>6. ASSUME NEW w \in Workers, CompressFails(w) PROVE Typed'
  BY <1>0, <1>6, <1>c, <1>d DEF CompressFails, TypeOK, fileVars
<1>7. ASSUME NEW w \in Workers, NothingToRotate(w) PROVE Typed'
  BY <1>0, <1>7, <1>d DEF NothingToRotate, TypeOK, fileVars, backupVars
<1>8. ASSUME NEW w \in Workers, Remove(w) PROVE Typed'
  <2>1. step' \in [Workers -> Steps] /\ Control'
    BY <1>0, <1>8, GotoControl DEF Remove, Steps, TypeOK
  <2> QED
    BY <1>0, <1>8, <2>1
    DEF Remove, Typed, TypeOK, Steps, backupVars, historyVars
<1>9. ASSUME NEW w \in Workers, Reopen(w) PROVE Typed'
  <2>1. step' \in [Workers -> Steps] /\ Control'
    BY <1>0, <1>9, GotoControl DEF Reopen, Steps, TypeOK
  <2> QED
    BY <1>0, <1>9, <1>o, <2>1
    DEF Reopen, Typed, TypeOK, Steps, backupVars, historyVars
<1>10. ASSUME NEW w \in Workers, Write(w) PROVE Typed'
  <2>1. step' \in [Workers -> Steps] /\ Control'
    BY <1>0, <1>10, GotoControl DEF Write, Steps, TypeOK
  <2>2. /\ content' \in [Inodes -> SUBSET Entries]
        /\ age' \in [Entries -> 0..(BackupCount + 2)]
        /\ astray' \in SUBSET Entries
    <3>1. entry[w] \in Entries /\ 1 \in 0..(BackupCount + 2)
      BY <1>0, <1>c DEF TypeOK
    <3>2. content' \in [Inodes -> SUBSET Entries]
      BY <1>0, <1>10, <3>1 DEF Write, TypeOK
    <3>3. age' \in [Entries -> 0..(BackupCount + 2)]
      BY <1>0, <1>10, <3>1 DEF Write, TypeOK
    <3>4. astray' \in SUBSET Entries
      BY <1>0, <1>10, <3>1 DEF Write, TypeOK
    <3> QED  BY <3>2, <3>3, <3>4
  <2> QED
    BY <1>0, <1>10, <2>1, <2>2 DEF Write, Typed, TypeOK, Steps, backupVars
<1>11. ASSUME NEW w \in Workers, WriteFails(w) PROVE Typed'
  BY <1>0, <1>11, <1>d DEF WriteFails, TypeOK, fileVars, backupVars
<1>12. ASSUME NEW w \in Workers, Die(w) PROVE Typed'
  <2>1. step' \in [Workers -> Steps] /\ Control'
    BY <1>0, <1>12, GotoControl DEF Die, Steps, TypeOK
  <2>2. /\ backup' \in [Backups -> SUBSET Entries]
        /\ broken' \in SUBSET Backups
    BY <1>0, <1>12, <1>c DEF Die, TypeOK, backupVars
  <2>3. /\ dropped' \in SUBSET Entries
        /\ causes' \in SUBSET {"died", "full", "overlap"}
    BY <1>0, <1>12 DEF Die, TypeOK
  <2> QED
    BY <1>0, <1>12, <1>o, <2>1, <2>2, <2>3 DEF Die, Typed, TypeOK, Steps
<1>13. CASE UNCHANGED vars
  BY <1>0, <1>13
  DEF vars, fileVars, backupVars, historyVars, Typed, TypeOK, Control
<1> QED
  BY <1>1, <1>2, <1>3, <1>4, <1>5, <1>6, <1>7, <1>8, <1>9, <1>10, <1>11,
     <1>12, <1>13
  DEF Next, Emit

(* Each variable has its values, whatever the workers do and when they     *)
(* die: there is always a number for a new file.                           *)
THEOREM TypeCorrect == Spec => []TypeOK
<1> QED  BY InitTyped, NextTyped, PTL DEF Spec, Typed

--------------------------------------------------------------------------------
(***************************************************************************)
(* What was logged lately is kept                                          *)
(***************************************************************************)

(* An entry that was not written astray has at most one worker rotate.     *)
LEMMA OneRotates ==
    ASSUME KeptInv, NEW w \in Workers, Rotating(w), NEW e \in Written \ astray
    PROVE  /\ age[e] >= 2
           /\ \A v \in Workers \ {w} : ~ Rotating(v)
BY DEF KeptInv

(* Steps outside of rotations, and those that end one, keep what is kept   *)
(* if the file and the backups stay.                                       *)
LEMMA QuietKept ==
    ASSUME KeptInv, UNCHANGED <<at, age, astray, backup>>,
           \A v \in Workers : \/ step'[v] = step[v]
                              \/ step'[v] \in {"idle", "check", "write"},
           \A e : InFile(e)' <=> InFile(e)
    PROVE  KeptInv'
<1>1. \A v \in Workers : Rotating(v)' => Rotating(v) /\ step'[v] = step[v]
  BY DEF Rotating
<1>2. Written' = Written /\ Fresh' = Fresh
  BY DEF Written, Fresh
<1>3. ASSUME NEW e \in Fresh
      PROVE  /\ InFile(e)' \/ Saved(e)'
             /\ \A v \in Workers : SafeFrom(v, e)'
  <2>1. InFile(e) \/ Saved(e)
    BY <1>3 DEF KeptInv
  <2>2. Saved(e)' <=> Saved(e)
    BY DEF Saved
  <2>3. ASSUME NEW v \in Workers PROVE SafeFrom(v, e)'
    <3>1. SafeFrom(v, e)
      BY <1>3 DEF KeptInv
    <3>2. \A b \in Backups : Spared(v, e, b)' <=> Spared(v, e, b)
      BY DEF Spared
    <3> QED  BY <2>2, <3>1, <3>2 DEF SafeFrom
  <2> QED  BY <2>1, <2>2, <2>3
<1> QED  BY <1>1, <1>2, <1>3 DEF KeptInv

(* Nor does it matter that backup 1 is emptied by a compression that does  *)
(* not finish: the file stays, and what it does not hold is further back.  *)
LEMMA CutShortKept ==
    ASSUME Typed, KeptInv, NEW w \in Workers, step[w] = "compress",
           UNCHANGED <<at, age, astray>>,
           backup' = [backup EXCEPT ![1] = {}], step'[w] = "idle",
           \A v \in Workers \ {w} : step'[v] = step[v],
           \A e : InFile(e)' <=> InFile(e)
    PROVE  KeptInv'
<1>1. Rotating(w) /\ at[w] = 0
  BY DEF Rotating, Typed, Control
<1>2. Written' = Written /\ Fresh' = Fresh
  BY DEF Written, Fresh
<1>3. \A v \in Workers : Rotating(v)' => Rotating(v)
  BY DEF Rotating
<1>4. ASSUME NEW e \in Fresh
      PROVE  /\ InFile(e)' \/ Saved(e)'
             /\ \A v \in Workers : SafeFrom(v, e)'
  <2>1. e \in Written \ astray /\ age[e] \in Nat
    BY DEF Fresh, Typed, TypeOK, Written
  <2>2. \A v \in Workers : ~ Rotating(v)'
    BY <1>1, <1>3, <2>1, OneRotates DEF Rotating
  <2>3. InFile(e) \/ \E b \in Backups : e \in backup[b] /\ Spared(w, e, b)
    BY <1>4 DEF KeptInv, SafeFrom
  <2>4. ASSUME NEW b \in Backups, e \in backup[b], Spared(w, e, b)
        PROVE  Saved(e)'
    <3>1. b > 1 /\ b + 1 <= age[e]
      BY <1>1, <2>1, <2>4 DEF Spared, Backups
    <3>2. e \in backup'[b]
      BY <2>4, <3>1 DEF Typed, TypeOK
    <3> QED  BY <3>1, <3>2 DEF Saved
  <2> QED  BY <2>2, <2>3, <2>4 DEF SafeFrom, Rotating
<1> QED  BY <1>2, <1>3, <1>4 DEF KeptInv

(* A rotation begins with every entry in the file or further forward than  *)
(* its new age asks for; an overlapping one spares none.                   *)
LEMMA BeginKept ==
    ASSUME Typed, KeptInv, NEW w \in Workers, BeginRotation(w)
    PROVE  KeptInv'
<1>0. /\ TypeOK /\ BackupCount \in Nat \ {0}
      /\ step[w] = "check" /\ step'[w] \in {"shift", "compress"}
      /\ \A v \in Workers \ {w} : step'[v] = step[v]
      /\ at'[w] = BackupCount - 1
      /\ base' = base /\ content' = content /\ backup' = backup
  BY ConstantsAssumption DEF Typed, TypeOK, BeginRotation, Goto, backupVars
<1>1. \A e \in Entries :
          /\ age[e] \in 0..(BackupCount + 2)
          /\ age'[e] = IF age[e] \in 1..(BackupCount + 1)
                       THEN age[e] + 1 ELSE age[e]
  BY <1>0 DEF BeginRotation, TypeOK
<1>2. Written' = Written /\ \A e \in Written : age'[e] >= 2
  BY <1>0, <1>1 DEF Written, Unwritten
<1>3. CASE OthersRotate(w)
  <2>1. astray' = Written /\ Fresh' = {}
    BY <1>2, <1>3 DEF BeginRotation, Fresh
  <2> QED  BY <1>2, <2>1 DEF KeptInv
<1>4. CASE ~ OthersRotate(w)
  <2>1. astray' = astray /\ \A v \in Workers : Rotating(v)' => v = w
    BY <1>0, <1>4 DEF BeginRotation, OthersRotate, Rotating
  <2>2. ASSUME NEW e \in Fresh'
        PROVE  /\ InFile(e)' \/ Saved(e)'
               /\ \A v \in Workers : SafeFrom(v, e)'
    <3>1. /\ e \in Fresh /\ age[e] \in 1..BackupCount
          /\ age'[e] = age[e] + 1
      BY <1>0, <1>1, <1>2, <2>1, <2>2 DEF Fresh, Written, Unwritten
    <3>2. InFile(e)' <=> InFile(e)
      BY <1>0 DEF InFile
    <3>3. InFile(e) \/ Saved(e)
      BY <3>1 DEF KeptInv
    <3>4. ASSUME NEW b \in Backups, e \in backup[b], b + 1 <= age[e]
          PROVE  b + 1 <= age'[e] /\ Spared(w, e, b)'
      BY <1>0, <3>1, <3>4 DEF Spared, Backups
    <3>5. InFile(e)' \/ Saved(e)'
      BY <1>0, <3>2, <3>3, <3>4 DEF Saved
    <3>6. SafeFrom(w, e)'
      BY <1>0, <3>2, <3>3, <3>4 DEF Saved, SafeFrom
    <3>7. \A v \in Workers \ {w} : SafeFrom(v, e)'
      BY <2>1 DEF SafeFrom, Rotating
    <3> QED  BY <3>5, <3>6, <3>7
  <2> QED  BY <1>2, <2>1, <2>2 DEF KeptInv
<1> QED  BY <1>3, <1>4

(* The rotation of w, alone on the entries that count, takes one more step *)
(* after which they are safe from it.                                      *)
LEMMA RotatedKept ==
    ASSUME Typed, KeptInv, NEW w \in Workers, Rotating(w), Rotating(w)',
           UNCHANGED <<age, astray>>,
           \A v \in Workers \ {w} : step'[v] = step[v],
           \A e \in Fresh : (InFile(e)' \/ Saved(e)') /\ SafeFrom(w, e)'
    PROVE  KeptInv'
<1>1. Written' = Written /\ Fresh' = Fresh
  BY DEF Written, Fresh
<1>2. \A v \in Workers : Rotating(v)' <=> Rotating(v)
  BY DEF Rotating
<1>3. ASSUME NEW e \in Fresh, NEW v \in Workers \ {w}
      PROVE  SafeFrom(v, e)'
  <2>1. ~ Rotating(v)'
    BY <1>2, OneRotates DEF Fresh
  <2> QED  BY <2>1 DEF SafeFrom, Rotating
<1> QED  BY <1>1, <1>2, <1>3 DEF KeptInv

(* What the loop renames is one backup further back, and out of its way.   *)
LEMMA ShiftKept ==
    ASSUME Typed, KeptInv, NEW w \in Workers, Shift(w)
    PROVE  KeptInv'
<1> DEFINE i == at[w]
<1>0. /\ TypeOK /\ i \in 1..(BackupCount - 1) /\ BackupCount \in Nat
      /\ i \in Backups /\ i + 1 \in Backups /\ step[w] = "shift"
  BY ConstantsAssumption DEF Typed, Control, Shift, Backups
<1>1. /\ step'[w] \in {"shift", "compress"} /\ at'[w] = i - 1
      /\ \A v \in Workers \ {w} : step'[v] = step[v]
  BY <1>0 DEF Shift, Goto, TypeOK
<1>2. \A b \in Backups :
          /\ b # i /\ b # i + 1 => backup'[b] = backup[b]
          /\ backup[i] # {} => backup'[i + 1] = backup[i]
          /\ b = i => backup'[b] = {}
  BY <1>0 DEF Shift, TypeOK, backupVars
<1>3. ASSUME NEW e \in Fresh
      PROVE  (InFile(e)' \/ Saved(e)') /\ SafeFrom(w, e)'
  <2>1. InFile(e)' <=> InFile(e)
    BY DEF Shift, InFile, fileVars
  <2>2. age'[e] = age[e] /\ age[e] \in Nat
    BY <1>0 DEF Shift, historyVars, TypeOK, Fresh, Written
  <2>3. InFile(e) \/ \E b \in Backups : e \in backup[b] /\ Spared(w, e, b)
    BY <1>0, <1>3 DEF KeptInv, SafeFrom
  <2>4. ASSUME NEW b \in Backups, e \in backup[b], Spared(w, e, b)
        PROVE  \E c \in Backups : /\ e \in backup'[c] /\ c + 1 <= age'[e]
                                  /\ Spared(w, e, c)'
    <3>1. CASE b = i
      <4>1. e \in backup'[i + 1]
        BY <1>0, <1>2, <2>4, <3>1
      <4>2. i + 2 <= age[e]
        BY <1>0, <2>2, <2>4, <3>1 DEF Spared
      <4>3. i + 1 > at'[w] + 1 /\ (i + 1) + 1 <= age'[e]
        BY <1>0, <1>1, <2>2, <4>2
      <4> QED  BY <1>0, <4>1, <4>3 DEF Spared
    <3>2. CASE b # i
      <4>1. b # i + 1 /\ (b < i \/ b > i + 1)
        BY <1>0, <2>2, <2>4, <3>2 DEF Spared, Backups
      <4>2. e \in backup'[b]
        BY <1>2, <2>4, <3>2, <4>1
      <4>3. b + 1 <= age'[e] /\ Spared(w, e, b)'
        BY <1>0, <1>1, <2>2, <2>4, <4>1 DEF Spared, Backups
      <4> QED  BY <4>2, <4>3
    <3> QED  BY <3>1, <3>2
  <2> QED  BY <1>1, <2>1, <2>3, <2>4 DEF Saved, SafeFrom
<1>4. UNCHANGED <<age, astray>> /\ Rotating(w) /\ Rotating(w)'
  BY <1>0, <1>1 DEF Shift, historyVars, Rotating
<1> QED  BY <1>1, <1>3, <1>4, RotatedKept

(* What the file holds is in backup 1, what was there is in backup 2.      *)
LEMMA CompressKept ==
    ASSUME Typed, KeptInv, NEW w \in Workers, Compress(w)
    PROVE  KeptInv'
<1>0. /\ TypeOK /\ at[w] = 0 /\ step[w] = "compress" /\ base # NoFile
      /\ 1 \in Backups
  BY ConstantsAssumption DEF Typed, Control, Compress, Backups
<1>1. /\ step'[w] = "remove"
      /\ \A v \in Workers \ {w} : step'[v] = step[v]
      /\ UNCHANGED <<age, astray>>
  BY <1>0 DEF Compress, Goto, TypeOK, historyVars
<1>2. Rotating(w) /\ Rotating(w)'
  BY <1>0, <1>1 DEF Rotating
<1>3. ASSUME NEW e \in Fresh PROVE Saved(e)'
  <2>1. age'[e] = age[e] /\ age[e] \in Nat /\ age[e] >= 2
    BY <1>0, <1>1, <1>2, OneRotates DEF TypeOK, Fresh, Written
  <2>2. InFile(e) \/ \E b \in Backups : e \in backup[b] /\ Spared(w, e, b)
    BY <1>0, <1>3 DEF KeptInv, SafeFrom
  <2>3. CASE InFile(e)
    <3>1. e \in backup'[1]
      BY <1>0, <2>3 DEF Compress, InFile, TypeOK
    <3> QED  BY <1>0, <2>1, <3>1 DEF Saved
  <2>4. ASSUME NEW b \in Backups, e \in backup[b], Spared(w, e, b)
        PROVE  Saved(e)'
    <3>1. b > 1 /\ b + 1 <= age'[e]
      BY <1>0, <2>1, <2>4 DEF Spared, Backups
    <3>2. e \in backup'[b]
      BY <1>0, <2>4, <3>1 DEF Compress, TypeOK
    <3> QED  BY <3>1, <3>2 DEF Saved
  <2> QED  BY <2>2, <2>3, <2>4
<1>4. \A e \in Fresh : SafeFrom(w, e)'
  BY <1>1, <1>3 DEF SafeFrom
<1> QED  BY <1>1, <1>2, <1>3, <1>4, RotatedKept

(* Nothing that counts is in the file alone when it is removed.            *)
LEMMA RemoveKept ==
    ASSUME Typed, KeptInv, NEW w \in Workers, Remove(w)
    PROVE  KeptInv'
<1>0. TypeOK /\ step[w] = "remove"
  BY DEF Typed, Remove
<1>1. /\ step'[w] = "reopen"
      /\ \A v \in Workers \ {w} : step'[v] = step[v]
      /\ UNCHANGED <<age, astray, backup>>
  BY <1>0 DEF Remove, Goto, TypeOK, historyVars, backupVars
<1>2. Rotating(w) /\ Rotating(w)'
  BY <1>0, <1>1 DEF Rotating
<1>3. ASSUME NEW e \in Fresh PROVE Saved(e)'
  <2>1. Saved(e)
    BY <1>0 DEF KeptInv, SafeFrom
  <2> QED  BY <1>1, <2>1 DEF Saved
<1>4. \A e \in Fresh : SafeFrom(w, e)'
  BY <1>1, <1>3 DEF SafeFrom
<1> QED  BY <1>1, <1>2, <1>3, <1>4, RotatedKept

(* A written entry is in the file, and the file is not being rotated, or   *)
(* the entry is astray.                                                    *)
LEMMA WriteKept ==
    ASSUME Typed, Streaming, KeptInv, NEW w \in Workers, Write(w)
    PROVE  KeptInv'
<1> DEFINE n == entry[w]
<1>0. /\ TypeOK /\ n \in Entries /\ step[w] = "write"
      /\ stream[w] \in Inodes /\ stream[w] # NoFile
  BY DEF Typed, TypeOK, Write, Streaming
<1>1. /\ step'[w] = "idle" /\ \A v \in Workers \ {w} : step'[v] = step[v]
      /\ UNCHANGED <<at, base, backup>>
  BY <1>0 DEF Write, Goto, TypeOK, backupVars
<1>2. /\ age'[n] = 1 /\ \A e \in Entries \ {n} : age'[e] = age[e]
      /\ n \in content'[stream[w]]
      /\ \A i \in Inodes : content[i] \subseteq content'[i]
  BY <1>0 DEF Write, TypeOK
<1>3. /\ astray \subseteq astray' /\ astray' \subseteq astray \cup {n}
      /\ stream[w] # base \/ OthersRotate(w) => n \in astray'
  BY DEF Write
<1>4. /\ Written' = Written \cup {n}
      /\ \A e \in Fresh' : e = n \/ (e \in Fresh /\ age'[e] = age[e])
  BY <1>0, <1>2, <1>3 DEF Written, Unwritten, Fresh
<1>5. \A v \in Workers : Rotating(v)' => Rotating(v) /\ v # w
  BY <1>1 DEF Rotating
<1>6. \A v \in Workers : Rotating(v)' => n \in astray'
  BY <1>3, <1>5 DEF OthersRotate
<1>7. \A v, u \in Workers :
          Rotating(v)' /\ Rotating(u)' /\ v # u => Written' \subseteq astray'
  BY <1>3, <1>4, <1>5, <1>6 DEF KeptInv
<1>8. ASSUME NEW v \in Workers, Rotating(v)', NEW e \in (Written \ astray)'
      PROVE  age'[e] >= 2
  <2>1. e \in Written \ astray /\ e # n
    BY <1>3, <1>4, <1>6, <1>8
  <2> QED  BY <1>2, <1>5, <1>8, <2>1, OneRotates DEF Written
<1>9. ASSUME NEW e \in Fresh'
      PROVE  /\ InFile(e)' \/ Saved(e)'
             /\ \A v \in Workers : SafeFrom(v, e)'
  <2>1. CASE e = n
    <3>1. n \notin astray'
      BY <1>9, <2>1 DEF Fresh
    <3>2. InFile(e)'
      BY <1>0, <1>1, <1>2, <1>3, <2>1, <3>1 DEF InFile
    <3>3. \A v \in Workers : ~ Rotating(v)'
      BY <1>6, <3>1
    <3> QED  BY <3>2, <3>3 DEF SafeFrom, Rotating
  <2>2. CASE e # n
    <3>1. e \in Fresh /\ age'[e] = age[e]
      BY <1>4, <1>9, <2>2
    <3>2. InFile(e) => InFile(e)'
      BY <1>0, <1>1, <1>2 DEF InFile, TypeOK
    <3>3. /\ Saved(e)' <=> Saved(e)
          /\ \A v \in Workers, b \in Backups :
                 Spared(v, e, b)' <=> Spared(v, e, b)
      BY <1>1, <3>1 DEF Saved, Spared
    <3>4. ASSUME NEW v \in Workers PROVE SafeFrom(v, e)'
      <4>1. CASE v = w
        BY <1>1, <4>1 DEF SafeFrom
      <4>2. CASE v # w
        <5>1. SafeFrom(v, e) /\ step'[v] = step[v]
          BY <1>1, <3>1, <4>2 DEF KeptInv
        <5> QED  BY <1>1, <3>2, <3>3, <5>1 DEF SafeFrom
      <4> QED  BY <4>1, <4>2
    <3>5. InFile(e) \/ Saved(e)
      BY <3>1 DEF KeptInv
    <3> QED  BY <3>2, <3>3, <3>4, <3>5
  <2> QED  BY <2>1, <2>2
<1> QED  BY <1>7, <1>8, <1>9 DEF KeptInv

(* A handler has a stream from when it asks for the size of its file, and  *)
(* again from when it reopened the file.                                   *)
LEMMA NextStreaming ==
    ASSUME Typed, Streaming, NEW w \in Workers, Emit(w) \/ Die(w)
    PROVE  Streaming'
<1>0. TypeOK
  BY DEF Typed
<1>1. SUFFICES ASSUME NEW v \in Workers, step'[v] \in {"check", "write"}
               PROVE  stream'[v] # NoFile
  BY DEF Streaming
<1>o. Open(w) =>
          /\ stream'[w] # NoFile
          /\ \A u \in Workers \ {w} : stream'[u] = stream[u]
  <2> SUFFICES ASSUME Open(w)
               PROVE  /\ stream'[w] # NoFile
                      /\ \A u \in Workers \ {w} : stream'[u] = stream[u]
    OBVIOUS
  <2> QED  BY <1>0, Opened DEF TypeOK
<1>2. CASE v # w
  <2>1. step'[v] = step[v]
    BY <1>0, <1>2 DEF Emit, Log, RoomLeft, BeginRotation, Shift, Compress,
       CompressFails, NothingToRotate, Remove, Reopen, Write, WriteFails, Die,
       Drop, Goto, TypeOK
  <2>2. stream'[v] = stream[v]
    BY <1>0, <1>2, <1>o DEF Emit, Log, RoomLeft, BeginRotation, Shift,
       Compress, CompressFails, NothingToRotate, Remove, Reopen, Write,
       WriteFails, Die, fileVars, TypeOK
  <2> QED  BY <1>1, <2>1, <2>2 DEF Streaming
<1>3. CASE v = w
  <2>1. Log(w) \/ RoomLeft(w) \/ Reopen(w)
    BY <1>0, <1>1, <1>3 DEF Emit, BeginRotation, Shift, Compress,
       CompressFails, NothingToRotate, Remove, Write, WriteFails, Die, Drop,
       Goto, TypeOK
  <2>2. CASE Log(w) \/ Reopen(w)
    BY <1>3, <1>o, <2>2 DEF Log, Reopen, fileVars
  <2>3. CASE RoomLeft(w)
    BY <1>3, <2>3 DEF RoomLeft, fileVars, Streaming
  <2> QED  BY <2>1, <2>2, <2>3
<1> QED  BY <1>2, <1>3

(* What is kept is kept by every step of a worker.                         *)
LEMMA StepKept ==
    ASSUME Typed, Streaming, KeptInv, NEW w \in Workers, Emit(w) \/ Die(w)
    PROVE  KeptInv'
<1>0. TypeOK
  BY DEF Typed
<1>o. Open(w) => \A e : InFile(e)' <=> InFile(e)
  BY <1>0, Opened
<1>f. UNCHANGED fileVars => \A e : InFile(e)' <=> InFile(e)
  BY DEF InFile, fileVars
<1>1. CASE Log(w)
  <2>1. \A v \in Workers : step'[v] = step[v] \/ step'[v] = "check"
    BY <1>0, <1>1 DEF Log, Goto, TypeOK
  <2>2. \A e : InFile(e)' <=> InFile(e)
    BY <1>1, <1>o, <1>f DEF Log
  <2> QED  BY <1>1, <2>1, <2>2, QuietKept DEF Log, backupVars, historyVars
<1>2. CASE RoomLeft(w)
  <2>1. \A v \in Workers : step'[v] = step[v] \/ step'[v] = "write"
    BY <1>0, <1>2 DEF RoomLeft, Goto, TypeOK
  <2> QED
    BY <1>2, <1>f, <2>1, QuietKept DEF RoomLeft, backupVars, historyVars
<1>3. CASE Reopen(w)
  <2>1. \A v \in Workers : step'[v] = step[v] \/ step'[v] = "write"
    BY <1>0, <1>3 DEF Reopen, Goto, TypeOK
  <2> QED
    BY <1>3, <1>o, <2>1, QuietKept DEF Reopen, backupVars, historyVars
<1>d. Goto(w, "idle") => /\ step'[w] = "idle"
                         /\ \A v \in Workers \ {w} : step'[v] = step[v]
  BY <1>0 DEF Goto, TypeOK
<1>4. CASE WriteFails(w)
  BY <1>4, <1>d, <1>f, QuietKept DEF WriteFails, Drop, backupVars
<1>5. CASE CompressFails(w)
  BY <1>5, <1>d, <1>f, CutShortKept DEF CompressFails, Drop
<1>6. CASE NothingToRotate(w)
  <2>1. CASE step[w] = "compress"
    BY <1>6, <1>d, <1>f, <2>1, CutShortKept DEF NothingToRotate, Drop
  <2>2. CASE step[w] # "compress"
    BY <1>6, <1>d, <1>f, <2>2, QuietKept
    DEF NothingToRotate, Drop, backupVars
  <2> QED  BY <2>1, <2>2
<1>7. CASE Die(w)
  <2>1. CASE UNCHANGED backupVars
    BY <1>7, <1>d, <1>o, <2>1, QuietKept DEF Die, backupVars
  <2>2. CASE step[w] = "compress" /\ backup' = [backup EXCEPT ![1] = {}]
    BY <1>7, <1>d, <1>o, <2>2, CutShortKept DEF Die
  <2> QED  BY <1>7, <2>1, <2>2 DEF Die
<1>8. CASE BeginRotation(w)
  BY <1>8, BeginKept
<1>9. CASE Shift(w)
  BY <1>9, ShiftKept
<1>10. CASE Compress(w)
  BY <1>10, CompressKept
<1>11. CASE Remove(w)
  BY <1>11, RemoveKept
<1>12. CASE Write(w)
  BY <1>12, WriteKept
<1> QED
  BY <1>1, <1>2, <1>3, <1>4, <1>5, <1>6, <1>7, <1>8, <1>9, <1>10, <1>11,
     <1>12
  DEF Emit

(* The invariant of what is kept implies the property.                     *)
LEMMA KeptImplies == KeptInv => KeptWhileRecent
BY DEF KeptInv, KeptWhileRecent, Fresh, Saved

(* At first nothing is written and nobody rotates.                         *)
LEMMA InitKept == Init => Streaming /\ KeptInv
<1> SUFFICES ASSUME Init PROVE Streaming /\ KeptInv
  OBVIOUS
<1>1. Written = {} /\ Fresh = {}
  BY DEF Init, Written, Fresh
<1>2. \A w \in Workers : step[w] = "idle"
  BY DEF Init
<1> QED  BY <1>1, <1>2 DEF Streaming, KeptInv, Rotating

--------------------------------------------------------------------------------
(***************************************************************************)
(* As long as nothing fails, the log is exact                              *)
(***************************************************************************)

(* The steps of w that leave causes empty.                                 *)
Calm(w) ==
    \/ Log(w) /\ UNCHANGED fileVars
    \/ RoomLeft(w)
    \/ BeginRotation(w) /\ ~ OthersRotate(w) /\ UNCHANGED <<causes, astray>>
    \/ Shift(w) \/ Compress(w) \/ Remove(w) \/ Reopen(w) \/ Write(w)

(* A step without a cause to blame drops nothing: whoever rotates alone    *)
(* finds the file, and a handler outside of a rotation has a stream.       *)
LEMMA CalmSteps ==
    ASSUME Typed, ExactInv, NEW w \in Workers, Emit(w) \/ Die(w), causes' = {}
    PROVE  /\ causes = {} /\ Calm(w) /\ Alone /\ Numbered /\ Single
           /\ UNCHANGED dropped
<1>1. causes = {}
  BY DEF Emit, Log, RoomLeft, BeginRotation, Shift, Compress, CompressFails,
     NothingToRotate, Remove, Reopen, Write, WriteFails, Die, historyVars
<1>2. Alone /\ Numbered /\ Single
  BY <1>1 DEF ExactInv
<1>3. ~ NothingToRotate(w)
  <2> SUFFICES ASSUME NothingToRotate(w) PROVE FALSE
    OBVIOUS
  <2>1. Rotating(w) /\ step[w] # "reopen" /\ base = NoFile
    BY DEF NothingToRotate, Rotating
  <2>2. PICK v \in Workers : step[v] = "reopen"
    BY <1>2, <2>1 DEF Alone
  <2> QED  BY <1>2, <2>1, <2>2 DEF Alone, Rotating
<1>4. ~ CompressFails(w) /\ ~ WriteFails(w) /\ ~ Die(w)
  BY DEF CompressFails, WriteFails, Die
<1>5. Log(w) => UNCHANGED fileVars
  BY <1>2 DEF Log, Alone, Rotating
<1>6. BeginRotation(w) => ~ OthersRotate(w) /\ UNCHANGED <<causes, astray>>
  BY DEF BeginRotation
<1>7. Calm(w)
  BY <1>3, <1>4, <1>5, <1>6 DEF Calm, Emit
<1>8. UNCHANGED dropped
  BY <1>7 DEF Calm, Log, RoomLeft, BeginRotation, Shift, Compress, Remove,
     Reopen, Write, historyVars
<1> QED  BY <1>1, <1>2, <1>7, <1>8

(* The step of w, by the step it was at.                                   *)
LEMMA CalmGoto ==
    ASSUME Typed, NEW w \in Workers, Calm(w)
    PROVE  /\ \A v \in Workers \ {w} : step'[v] = step[v]
           /\ Log(w) => step[w] = "idle" /\ step'[w] = "check"
           /\ RoomLeft(w) => step[w] = "check" /\ step'[w] = "write"
           /\ BeginRotation(w) =>
                  step[w] = "check" /\ step'[w] \in {"shift", "compress"}
           /\ Shift(w) =>
                  step[w] = "shift" /\ step'[w] \in {"shift", "compress"}
           /\ Compress(w) => step[w] = "compress" /\ step'[w] = "remove"
           /\ Remove(w) => step[w] = "remove" /\ step'[w] = "reopen"
           /\ Reopen(w) => step[w] = "reopen" /\ step'[w] = "write"
           /\ Write(w) => step[w] = "write" /\ step'[w] = "idle"
BY DEF Typed, TypeOK, Calm, Log, RoomLeft, BeginRotation, Shift, Compress,
   Remove, Reopen, Write, Goto

(* A calm step leaves one worker at most that rotates, and the file where  *)
(* it is expected.                                                         *)
LEMMA AloneKept ==
    ASSUME Typed, Alone, NEW w \in Workers, Calm(w)
    PROVE  Alone'
<1>0. TypeOK
  BY DEF Typed
<1>g. \A v \in Workers \ {w} : step'[v] = step[v]
  BY CalmGoto
<1>1. ASSUME Rotating(w)' <=> Rotating(w), step[w] # "reopen",
             UNCHANGED <<base, stream>>
      PROVE  Alone'
  <2>1. \A v \in Workers : Rotating(v)' <=> Rotating(v)
    BY <1>g, <1>1 DEF Rotating
  <2> QED  BY <1>g, <1>1, <2>1 DEF Alone
<1>2. CASE \/ Log(w) /\ UNCHANGED fileVars
           \/ RoomLeft(w) \/ Shift(w) \/ Compress(w) \/ Write(w)
  <2>1. /\ Rotating(w)' <=> Rotating(w)
        /\ step[w] # "reopen" /\ UNCHANGED <<base, stream>>
    BY <1>2, CalmGoto
    DEF RoomLeft, Shift, Compress, Write, Rotating, fileVars
  <2> QED  BY <1>1, <2>1
<1>3. CASE BeginRotation(w) /\ ~ OthersRotate(w)
  <2>1. \A v \in Workers : Rotating(v)' <=> v = w
    BY <1>3, CalmGoto DEF OthersRotate, Rotating
  <2>2. base # NoFile
    BY <1>3 DEF Alone, BeginRotation, OthersRotate, Rotating
  <2>3. /\ base' = base
        /\ \A v \in Workers \ {w} : stream'[v] = stream[v] /\ ~ Rotating(v)
    BY <1>0, <1>3 DEF BeginRotation, OthersRotate, TypeOK
  <2> QED  BY <2>1, <2>2, <2>3 DEF Alone
<1>4. CASE Remove(w)
  <2>1. step'[w] = "reopen" /\ \A v \in Workers : Rotating(v)' <=> Rotating(v)
    BY <1>4, <1>g, CalmGoto DEF Rotating
  <2> QED  BY <1>4, <2>1 DEF Alone, Remove
<1>5. CASE Reopen(w)
  <2>1. \A v \in Workers : Rotating(v)' <=> Rotating(v) /\ v # w
    BY <1>5, CalmGoto DEF Rotating
  <2>2. /\ base' # NoFile /\ stream'[w] # NoFile
        /\ \A v \in Workers \ {w} : stream'[v] = stream[v]
    BY <1>0, <1>5, Opened DEF Reopen, TypeOK
  <2> QED  BY <2>1, <2>2 DEF Alone
<1> QED  BY <1>2, <1>3, <1>4, <1>5 DEF Calm

(* In no file, with or without a name, and in no backup.                   *)
Nowhere(e) ==
    /\ \A i \in Inodes : e \notin content[i]
    /\ \A b \in Backups : e \notin backup[b]

(* A step that begins or writes no entry, and copies only what is in some  *)
(* file or backup, leaves the numbers as they are.                         *)
LEMMA NumbersKept ==
    ASSUME Numbered, NEW w \in Workers, UNCHANGED <<entry, logged>>,
           \A v \in Workers \ {w} : step'[v] = step[v], step[w] # "idle",
           \A e \in Entries : age'[e] = Unwritten <=> age[e] = Unwritten,
           \A v \in Workers : entry[v] \in Entries,
           \A e \in Entries : Nowhere(e) => Nowhere(e)'
    PROVE  Numbered'
<1>1. Written' = Written
  BY DEF Written
<1>2. \A e \in Entries : age'[e] = Unwritten => Nowhere(e)'
  BY DEF Numbered, Nowhere
<1>3. \A v \in Workers : step'[v] # "idle" => step[v] # "idle"
  OBVIOUS
<1> QED  BY <1>1, <1>2, <1>3 DEF Numbered, Nowhere

(* A calm step leaves the number of an entry to the worker that logs it.   *)
LEMMA NumberedKept ==
    ASSUME Typed, Streaming, Numbered, NEW w \in Workers, Calm(w)
    PROVE  Numbered'
<1>0. /\ TypeOK /\ logged \in Nat /\ entry[w] \in Entries
      /\ \A v \in Workers : entry[v] \in Entries /\ entry[v] \in Nat
      /\ \A e \in Entries : e \in Nat
  BY ConstantsAssumption DEF Typed, TypeOK, Entries
<1>g. \A v \in Workers \ {w} : step'[v] = step[v]
  BY CalmGoto
<1>1. CASE Log(w) /\ UNCHANGED fileVars
  <2>1. /\ logged' = logged + 1 /\ logged + 1 \in Entries
        /\ entry'[w] = logged + 1
        /\ \A v \in Workers \ {w} : entry'[v] = entry[v]
        /\ step[w] = "idle"
        /\ UNCHANGED <<age, content, backup>>
    BY <1>0, <1>1, ConstantsAssumption
    DEF Log, TypeOK, Entries, fileVars, backupVars, historyVars
  <2>2. age[logged + 1] = Unwritten
    BY <1>0, <2>1 DEF Numbered, Written
  <2>3. Written' = Written /\ \A e \in Written : e <= logged + 1
    BY <1>0, <2>1 DEF Numbered, Written
  <2>4. \A v \in Workers : step'[v] # "idle" =>
            /\ age'[entry'[v]] = Unwritten /\ entry'[v] <= logged'
            /\ v # w => entry'[v] <= logged /\ step[v] # "idle"
    BY <1>0, <1>g, <2>1, <2>2 DEF Numbered
  <2>5. \A v, u \in Workers :
            step'[v] # "idle" /\ step'[u] # "idle" /\ entry'[v] = entry'[u]
                => v = u
    BY <1>0, <2>1, <2>4 DEF Numbered
  <2> QED  BY <2>1, <2>3, <2>4, <2>5 DEF Numbered
<1>2. CASE RoomLeft(w)
  <2>1. \A e : Nowhere(e)' <=> Nowhere(e)
    BY <1>2 DEF RoomLeft, fileVars, backupVars, Nowhere
  <2> QED
    BY <1>0, <1>2, <1>g, <2>1, NumbersKept DEF RoomLeft, historyVars
<1>3. CASE BeginRotation(w)
  <2>1. \A e : Nowhere(e)' <=> Nowhere(e)
    BY <1>3 DEF BeginRotation, backupVars, Nowhere
  <2>2. \A e \in Entries : age'[e] = Unwritten <=> age[e] = Unwritten
    <3>1. \A e \in Entries : age[e] \in Nat
      BY <1>0 DEF TypeOK
    <3> QED  BY <1>3, <3>1 DEF BeginRotation, Unwritten
  <2> QED
    BY <1>0, <1>3, <1>g, <2>1, <2>2, NumbersKept DEF BeginRotation
<1>4. CASE Shift(w)
  <2>1. at[w] \in Backups /\ at[w] + 1 \in Backups
    BY <1>4, ConstantsAssumption DEF Typed, Control, Shift, Backups
  <2>2. \A b \in Backups : \E c \in Backups :
            backup'[b] = backup[c] \/ backup'[b] = {}
    BY <1>0, <1>4, <2>1 DEF Shift, TypeOK, backupVars
  <2>3. \A e : Nowhere(e) => Nowhere(e)'
    BY <1>4, <2>2 DEF Shift, fileVars, Nowhere
  <2> QED
    BY <1>0, <1>4, <1>g, <2>3, NumbersKept DEF Shift, historyVars
<1>5. CASE Compress(w)
  <2>1. base \in Inodes
    BY <1>0, <1>5 DEF Compress, TypeOK
  <2>2. \A b \in Backups : backup'[b] = content[base] \/ backup'[b] = backup[b]
    BY <1>0, <1>5 DEF Compress, TypeOK
  <2>3. \A e : Nowhere(e) => Nowhere(e)'
    BY <1>5, <2>1, <2>2 DEF Compress, fileVars, Nowhere
  <2> QED
    BY <1>0, <1>5, <1>g, <2>3, NumbersKept DEF Compress, historyVars
<1>6. CASE Remove(w)
  <2>1. \A e : Nowhere(e)' <=> Nowhere(e)
    BY <1>6 DEF Remove, backupVars, Nowhere
  <2> QED
    BY <1>0, <1>6, <1>g, <2>1, NumbersKept DEF Remove, historyVars
<1>7. CASE Reopen(w)
  <2>1. \A i \in Inodes : content'[i] \subseteq content[i]
    BY <1>0, <1>7, Opened DEF Reopen
  <2>2. \A e : Nowhere(e) => Nowhere(e)'
    BY <1>7, <2>1 DEF Reopen, backupVars, Nowhere
  <2> QED
    BY <1>0, <1>7, <1>g, <2>2, NumbersKept DEF Reopen, historyVars
<1>8. CASE Write(w)
  <2>1. /\ age' = [age EXCEPT ![entry[w]] = 1]
        /\ content' = [content EXCEPT ![stream[w]] = @ \cup {entry[w]}]
        /\ UNCHANGED <<entry, logged, backup>>
        /\ step[w] = "write" /\ step'[w] = "idle"
    BY <1>8, CalmGoto DEF Write, backupVars
  <2>2. /\ age'[entry[w]] # Unwritten
        /\ \A e \in Entries \ {entry[w]} : age'[e] = age[e]
    BY <1>0, <2>1 DEF TypeOK, Unwritten
  <2>3. \A i \in Inodes : content'[i] \subseteq content[i] \cup {entry[w]}
    BY <1>0, <2>1 DEF TypeOK
  <2>4. \A e \in Entries : age'[e] = Unwritten => Nowhere(e)'
    BY <2>1, <2>2, <2>3 DEF Numbered, Nowhere
  <2>5. \A e \in Written' : e <= logged
    BY <2>1, <2>2 DEF Numbered, Written
  <2>6. \A v \in Workers : step'[v] # "idle" =>
            step[v] # "idle" /\ entry[v] # entry[w]
    BY <1>g, <2>1 DEF Numbered
  <2> QED  BY <1>0, <2>1, <2>2, <2>4, <2>5, <2>6 DEF Numbered, Nowhere
<1> QED
  BY <1>1, <1>2, <1>3, <1>4, <1>5, <1>6, <1>7, <1>8 DEF Calm

(* A calm step moves what a backup holds, or copies the file into one that *)
(* then is the only one, until the file is removed.                        *)
LEMMA SingleKept ==
    ASSUME Typed, Streaming, Alone, Numbered, Single, NEW w \in Workers,
           Calm(w)
    PROVE  Single'
<1>0. TypeOK
  BY DEF Typed
<1>g. \A v \in Workers \ {w} : step'[v] = step[v]
  BY CalmGoto
<1>s. ASSUME UNCHANGED backup, (Written \ astray)' = Written \ astray,
             \A e : InFile(e)' => InFile(e),
             step[w] = "remove" => \A e : ~ InFile(e)'
      PROVE  Single'
  <2>1. ASSUME NEW e \in (Written \ astray)', InFile(e)',
               \E b \in Backups : e \in backup'[b]
        PROVE  \E v \in Workers : step'[v] = "remove"
    BY <1>g, <1>s, <2>1 DEF Single
  <2> QED  BY <1>s, <2>1 DEF Single
<1>1. CASE Log(w) /\ UNCHANGED fileVars
  <2>1. /\ UNCHANGED <<age, astray, backup, base, content>>
        /\ step[w] = "idle"
    BY <1>1 DEF Log, fileVars, backupVars, historyVars
  <2> QED  BY <1>s, <2>1 DEF InFile, Written
<1>2. CASE RoomLeft(w)
  <2>1. /\ UNCHANGED <<age, astray, backup, base, content>>
        /\ step[w] = "check"
    BY <1>2 DEF RoomLeft, fileVars, backupVars, historyVars
  <2> QED  BY <1>s, <2>1 DEF InFile, Written
<1>3. CASE BeginRotation(w) /\ UNCHANGED <<causes, astray>>
  <2>1. UNCHANGED <<astray, backup, base, content>> /\ step[w] = "check"
    BY <1>3 DEF BeginRotation, backupVars
  <2>2. Written' = Written
    <3>1. \A e \in Entries : age[e] \in Nat
      BY <1>0 DEF TypeOK
    <3> QED  BY <1>3, <3>1 DEF BeginRotation, Written, Unwritten
  <2> QED  BY <1>s, <2>1, <2>2 DEF InFile
<1>n. \A e \in Written \ astray :
          Rotating(w) /\ step[w] # "remove" /\ InFile(e) =>
              \A b \in Backups : e \notin backup[b]
  BY DEF Alone, Single, Rotating
<1>4. CASE Shift(w)
  <2> DEFINE i == at[w]
  <2>0. /\ i \in Backups /\ i + 1 \in Backups /\ i # i + 1
        /\ step[w] = "shift"
    BY <1>4, ConstantsAssumption DEF Typed, Control, Shift, Backups
  <2>1. /\ UNCHANGED <<age, astray, base, content>>
        /\ backup' = [backup EXCEPT ![i] = {}, ![i + 1] = backup[i]]
           \/ backup' = backup
    BY <1>4 DEF Shift, fileVars, backupVars, historyVars
  <2>2. (Written \ astray)' = Written \ astray
    BY <2>1 DEF Written
  <2>3. CASE backup' = backup
    BY <1>s, <2>0, <2>1, <2>2, <2>3 DEF InFile
  <2>4. CASE backup' = [backup EXCEPT ![i] = {}, ![i + 1] = backup[i]]
    <3>1. \A b \in Backups :
              backup'[b] = IF b = i THEN {}
                           ELSE IF b = i + 1 THEN backup[i] ELSE backup[b]
      BY <1>0, <2>0, <2>4 DEF TypeOK
    <3>2. ASSUME NEW e \in Written \ astray, NEW b \in Backups,
                 NEW c \in Backups, e \in backup'[b], e \in backup'[c]
          PROVE  b = c
      BY <2>0, <3>1, <3>2 DEF Single
    <3>3. ASSUME NEW e \in Written \ astray, NEW b \in Backups,
                 e \in backup'[b], InFile(e)'
          PROVE  FALSE
      <4>1. InFile(e) /\ Rotating(w)
        BY <2>0, <2>1, <3>3 DEF InFile, Rotating
      <4>2. e \in backup[b] \/ e \in backup[i]
        BY <3>1, <3>3
      <4> QED  BY <1>n, <2>0, <3>3, <4>1, <4>2
    <3> QED  BY <2>2, <3>2, <3>3 DEF Single
  <2> QED  BY <2>1, <2>3, <2>4
<1>5. CASE Compress(w)
  <2>1. /\ UNCHANGED <<age, astray, base, content>> /\ base # NoFile
        /\ step[w] = "compress" /\ step'[w] = "remove"
    BY <1>5, CalmGoto DEF Compress, fileVars, historyVars
  <2>2. (Written \ astray)' = Written \ astray
    BY <2>1 DEF Written
  <2>3. \A b \in Backups :
            backup'[b] = IF b = 1 THEN content[base] ELSE backup[b]
    BY <1>0, <1>5 DEF Compress, TypeOK
  <2>4. ASSUME NEW e \in Written \ astray, NEW b \in Backups,
               NEW c \in Backups, e \in backup'[b], e \in backup'[c]
        PROVE  b = c
    <3>1. InFile(e) => \A d \in Backups : e \notin backup[d]
      BY <1>n, <2>1, <2>4 DEF Rotating
    <3>2. e \in content[base] => InFile(e)
      BY <2>1 DEF InFile
    <3> QED  BY <2>3, <2>4, <3>1, <3>2 DEF Single
  <2> QED  BY <2>1, <2>2, <2>4 DEF Single
<1>6. CASE Remove(w)
  <2>1. UNCHANGED <<age, astray, backup>> /\ base' = NoFile
    BY <1>6 DEF Remove, backupVars, historyVars
  <2> QED  BY <1>s, <2>1 DEF InFile, Written
<1>7. CASE Reopen(w)
  <2>1. UNCHANGED <<age, astray, backup>> /\ step[w] = "reopen"
    BY <1>7 DEF Reopen, backupVars, historyVars
  <2>2. \A e : InFile(e)' <=> InFile(e)
    BY <1>0, <1>7, Opened DEF Reopen
  <2> QED  BY <1>s, <2>1, <2>2 DEF Written
<1>8. CASE Write(w)
  <2> DEFINE n == entry[w]
  <2>1. /\ age' = [age EXCEPT ![n] = 1] /\ n \in Entries
        /\ content' = [content EXCEPT ![stream[w]] = @ \cup {n}]
        /\ UNCHANGED <<base, backup>> /\ astray \subseteq astray'
        /\ step[w] = "write"
    BY <1>0, <1>8 DEF Write, TypeOK, backupVars
  <2>2. \A b \in Backups : n \notin backup[b]
    BY <2>1 DEF Numbered
  <2>3. ASSUME NEW e \in (Written \ astray)', e # n
        PROVE  e \in Written \ astray /\ (InFile(e)' => InFile(e))
    <3>1. e \in Written \ astray
      BY <1>0, <2>1, <2>3 DEF Written, TypeOK
    <3>2. \A j \in Inodes : e \in content'[j] => e \in content[j]
      BY <1>0, <2>1, <2>3 DEF TypeOK
    <3> QED  BY <1>0, <2>1, <3>1, <3>2 DEF InFile, TypeOK
  <2>4. ASSUME NEW e \in (Written \ astray)'
        PROVE  /\ \A b, c \in Backups :
                      e \in backup'[b] /\ e \in backup'[c] => b = c
               /\ InFile(e)' /\ (\E b \in Backups : e \in backup'[b]) =>
                      \E v \in Workers : step'[v] = "remove"
    <3>1. CASE e = n
      BY <2>1, <2>2, <3>1
    <3>2. CASE e # n
      BY <1>g, <2>1, <2>3, <2>4, <3>2 DEF Single
    <3> QED  BY <3>1, <3>2
  <2> QED  BY <2>4 DEF Single
<1> QED
  BY <1>1, <1>2, <1>3, <1>4, <1>5, <1>6, <1>7, <1>8 DEF Calm

--------------------------------------------------------------------------------
(***************************************************************************)
(* The theorems                                                            *)
(***************************************************************************)

(* The first state is exact: there is nothing in the log.                  *)
LEMMA InitInv == Init => Inv
<1> SUFFICES ASSUME Init PROVE Inv
  OBVIOUS
<1>1. Typed /\ Streaming /\ KeptInv
  BY InitTyped, InitKept
<1>2. 1 \in Inodes /\ 1 # NoFile
  BY ConstantsAssumption, FS_CardinalityType DEF Inodes
<1>3. Alone
  BY <1>2 DEF Init, Alone, Rotating
<1>4. Written = {}
  BY DEF Init, Written
<1>5. Numbered /\ Single
  BY <1>4 DEF Init, Numbered, Single
<1> QED  BY <1>1, <1>3, <1>5 DEF Init, Inv, ExactInv

(* Every step keeps all of it.                                             *)
LEMMA NextInv == Inv /\ [Next]_vars => Inv'
<1> SUFFICES ASSUME Inv, [Next]_vars PROVE Inv'
  OBVIOUS
<1>1. Typed'
  BY NextTyped DEF Inv
<1>2. ASSUME NEW w \in Workers, Emit(w) \/ Die(w) PROVE Inv'
  <2>1. Streaming' /\ KeptInv'
    BY <1>2, NextStreaming, StepKept DEF Inv
  <2>2. ExactInv'
    <3> SUFFICES ASSUME causes' = {} PROVE ExactInv'
      BY DEF ExactInv
    <3>1. /\ causes = {} /\ Calm(w) /\ Alone /\ Numbered /\ Single
          /\ UNCHANGED dropped
      BY <1>2, CalmSteps DEF Inv
    <3>2. Alone' /\ Numbered' /\ Single'
      BY <3>1, AloneKept, NumberedKept, SingleKept DEF Inv
    <3>3. broken' = {}
      <4>1. dropped = {} /\ broken = {}
        BY <3>1 DEF Inv, ExactInv
      <4> QED
        BY <3>1, <4>1 DEF Calm, Log, RoomLeft, BeginRotation, Shift, Compress,
           Remove, Reopen, Write, backupVars
    <3> QED  BY <3>1, <3>2, <3>3 DEF Inv, ExactInv
  <2> QED  BY <1>1, <2>1, <2>2 DEF Inv
<1>3. CASE UNCHANGED vars
  <2>1. UNCHANGED <<base, content, stream, step, at, entry, backup, broken,
                    logged, age, dropped, astray, causes>>
    BY <1>3 DEF vars, fileVars, backupVars, historyVars
  <2>2. Streaming'
    BY <2>1 DEF Inv, Streaming
  <2>3. KeptInv'
    BY <2>1, QuietKept DEF Inv, InFile
  <2>4. Alone' <=> Alone
    BY <2>1 DEF Alone, Rotating
  <2>5. Numbered' <=> Numbered
    BY <2>1 DEF Numbered, Written
  <2>6. Single' <=> Single
    BY <2>1 DEF Single, Written, InFile
  <2> QED
    BY <1>1, <2>1, <2>2, <2>3, <2>4, <2>5, <2>6 DEF Inv, ExactInv
<1> QED  BY <1>2, <1>3 DEF Next

(* What is kept and where gives the number of copies.                      *)
LEMMA ExactImplies == Inv => UndisturbedLogIsExact
<1> SUFFICES ASSUME Inv, causes = {}
             PROVE  /\ dropped = {} /\ broken = {}
                    /\ (\A w \in Workers : ~ Rotating(w)) =>
                           \A e \in Written \ astray :
                               /\ Cardinality(Copies(e)) <= 1
                               /\ age[e] <= BackupCount + 1 => Copies(e) # {}
  BY DEF UndisturbedLogIsExact
<1>1. dropped = {} /\ broken = {} /\ Single
  BY DEF Inv, ExactInv
<1>2. ASSUME \A w \in Workers : ~ Rotating(w), NEW e \in Written \ astray
      PROVE  Cardinality(Copies(e)) <= 1
  <2>1. InFile(e) => \A b \in Backups : e \notin backup[b]
    BY <1>1, <1>2 DEF Single, Rotating
  <2>2. \A b, c \in Copies(e) : b = c
    BY <1>1, <2>1 DEF Single, Copies
  <2>3. CASE Copies(e) = {}
    BY <2>3, FS_EmptySet
  <2>4. CASE Copies(e) # {}
    <3>1. PICK b : b \in Copies(e)
      BY <2>4
    <3>2. Copies(e) = {b}
      BY <2>2, <3>1
    <3>3. Cardinality({b}) = 1
      BY FS_Singleton
    <3> QED  BY <3>2, <3>3
  <2> QED  BY <2>3, <2>4
<1>3. ASSUME NEW e \in Written \ astray, age[e] <= BackupCount + 1
      PROVE  Copies(e) # {}
  <2>1. InFile(e) \/ \E b \in Backups : e \in backup[b]
    BY <1>3, KeptImplies DEF Inv, KeptWhileRecent
  <2> QED  BY <2>1 DEF Copies
<1> QED  BY <1>1, <1>2, <1>3

(* An entry that was written can be read, in the file or a backup, until   *)
(* backupCount further rotations have begun, for any number of workers     *)
(* and whatever fails or dies; entries written by one worker while another *)
(* rotated the file are the exception.                                     *)
THEOREM RecentKept == Spec => []KeptWhileRecent
<1>1. Inv => KeptWhileRecent
  BY KeptImplies DEF Inv
<1> QED  BY <1>1, InitInv, NextInv, PTL DEF Spec

(* As long as no worker dies, no disk is full and no two rotations overlap *)
(* no entry is dropped, every backup can be read, and between rotations    *)
(* each entry that counts is in one place.                                 *)
THEOREM UndisturbedExact == Spec => []UndisturbedLogIsExact
<1> QED  BY InitInv, NextInv, ExactImplies, PTL DEF Spec
================================================================================
