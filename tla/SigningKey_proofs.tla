--------------------------- MODULE SigningKey_proofs ---------------------------
(***************************************************************************)
(* Proofs about SigningKey: types, one key per process, and the key in the *)
(* files that local processes share.                                       *)
(***************************************************************************)
EXTENDS SigningKey, TLAPS

(* What has been generated: a key is in use only after it was, a request   *)
(* that loads found both files, which are never deleted.                   *)
Generated ==
    /\ {priv, pub} \subseteq used \cup {NoKey, Empty}
    /\ \A w \in Workers : instance[w] \in used \cup {NoKey}
    /\ \A r \in Requests :
          /\ pc[r] \in Loading => FilesExist
          /\ pc[r] \in {"writePrivate", "openPublic", "writePublic",
                        "loadPublic", "assign"} => made[r] \in used
          /\ pc[r] \in {"take", "ready"} => instance[worker[r]] # NoKey
          /\ pc[r] = "ready" => client[r] \in used

TypedAndGenerated == TypeOK /\ Generated

(* It holds at first, *)
LEMMA InitGenerated == Init => TypedAndGenerated
BY ConstantsAssumption
   DEF Init, TypedAndGenerated, TypeOK, Generated, Steps, Loading, Writing

(* and every step keeps it. *)
LEMMA NextGenerated == TypedAndGenerated /\ [Next]_vars => TypedAndGenerated'
<1> SUFFICES ASSUME TypedAndGenerated, [Next]_vars
             PROVE  TypedAndGenerated'
    OBVIOUS
<1> USE ConstantsAssumption
    DEF TypedAndGenerated, TypeOK, Generated, Goto, files, history, FilesExist,
        Steps, Loading, Writing
<1>1. ASSUME NEW r \in Requests, Begin(r) PROVE TypedAndGenerated'
    BY <1>1 DEF Begin, Constructing
<1>2. ASSUME NEW r \in Requests, Assign(r) PROVE TypedAndGenerated'
    BY <1>2 DEF Assign
<1>3. ASSUME NEW r \in Requests, Take(r) PROVE TypedAndGenerated'
    BY <1>3 DEF Take
<1>4. ASSUME NEW r \in Requests, Use(r) PROVE TypedAndGenerated'
    BY <1>4 DEF Use
<1>5. ASSUME NEW r \in Requests, ConstructInMemory(r)
      PROVE  TypedAndGenerated'
    BY <1>5 DEF ConstructInMemory, Generate
<1>6. ASSUME NEW r \in Requests, ConstructLocal(r) PROVE TypedAndGenerated'
    BY <1>6 DEF ConstructLocal
<1>7. ASSUME NEW r \in Requests, LoadPrivate(r) PROVE TypedAndGenerated'
    BY <1>7 DEF LoadPrivate
<1>8. ASSUME NEW r \in Requests, LoadPublic(r) PROVE TypedAndGenerated'
    BY <1>8 DEF LoadPublic
<1>9. ASSUME NEW r \in Requests, OpenPrivate(r) PROVE TypedAndGenerated'
    BY <1>9 DEF OpenPrivate, Generate
<1>10. ASSUME NEW r \in Requests, WritePrivate(r) PROVE TypedAndGenerated'
    BY <1>10 DEF WritePrivate
<1>11. ASSUME NEW r \in Requests, OpenPublic(r) PROVE TypedAndGenerated'
    BY <1>11 DEF OpenPublic
<1>12. ASSUME NEW r \in Requests, WritePublic(r) PROVE TypedAndGenerated'
    BY <1>12 DEF WritePublic
<1>13. ASSUME NEW w \in Workers, Restart(w) PROVE TypedAndGenerated'
    BY <1>13 DEF Restart, Live
<1>14. CASE UNCHANGED vars
    BY <1>14 DEF vars
<1> QED
    BY <1>1, <1>2, <1>3, <1>4, <1>5, <1>6, <1>7, <1>8, <1>9, <1>10, <1>11,
       <1>12, <1>13, <1>14 DEF Next, Client, Signer

(* The state is well-typed, and no client signs with a key that was not    *)
(* completely written when it was read.                                    *)
THEOREM TypeCorrect == Spec => [](TypeOK /\ ClientsHaveKeys)
<1>1. TypedAndGenerated => TypeOK /\ ClientsHaveKeys
    BY DEF TypedAndGenerated, Generated, ClientsHaveKeys
<1> QED
    BY InitGenerated, NextGenerated, <1>1, PTL DEF Spec

--------------------------------------------------------------------------------
(* Once a client was made that nobody's construction overtook, nobody      *)
(* constructs in its process any more: a signer is there.                  *)
NoneConstructs ==
    \A r \in Requests \ overtaken : pc[r] = "ready" =>
        \A s \in Requests : worker[s] = worker[r] => ~ Constructing(s)

KeyInv == NoneConstructs /\ OneKeyPerProcess

(* It holds at first, *)
LEMMA InitKey == Init => KeyInv
BY DEF Init, KeyInv, NoneConstructs, OneKeyPerProcess

(* and every step keeps it. *)
LEMMA NextKey ==
    TypedAndGenerated /\ KeyInv /\ [Next]_vars => KeyInv'
<1> SUFFICES ASSUME TypedAndGenerated, KeyInv, [Next]_vars
             PROVE  KeyInv'
    OBVIOUS
<1> USE DEF TypedAndGenerated, TypeOK, Generated, KeyInv, NoneConstructs,
            OneKeyPerProcess, Goto, files, history, Constructing,
            Steps, Loading, Writing
<1>1. ASSUME NEW r \in Requests, Begin(r) PROVE KeyInv'
    BY <1>1 DEF Begin
<1>2. ASSUME NEW r \in Requests, Assign(r) PROVE KeyInv'
    BY <1>2 DEF Assign
<1>3. ASSUME NEW r \in Requests, Take(r) PROVE KeyInv'
    BY <1>3 DEF Take
<1>4. ASSUME NEW r \in Requests, Use(r) PROVE KeyInv'
    BY <1>4 DEF Use
<1>5. ASSUME NEW r \in Requests, ConstructInMemory(r) PROVE KeyInv'
    BY <1>5 DEF ConstructInMemory, Generate
<1>6. ASSUME NEW r \in Requests, ConstructLocal(r) PROVE KeyInv'
    BY <1>6 DEF ConstructLocal
<1>7. ASSUME NEW r \in Requests, LoadPrivate(r) PROVE KeyInv'
    BY <1>7 DEF LoadPrivate
<1>8. ASSUME NEW r \in Requests, LoadPublic(r) PROVE KeyInv'
    BY <1>8 DEF LoadPublic
<1>9. ASSUME NEW r \in Requests, OpenPrivate(r) PROVE KeyInv'
    BY <1>9 DEF OpenPrivate, Generate
<1>10. ASSUME NEW r \in Requests, WritePrivate(r) PROVE KeyInv'
    BY <1>10 DEF WritePrivate
<1>11. ASSUME NEW r \in Requests, OpenPublic(r) PROVE KeyInv'
    BY <1>11 DEF OpenPublic
<1>12. ASSUME NEW r \in Requests, WritePublic(r) PROVE KeyInv'
    BY <1>12 DEF WritePublic
<1>13. ASSUME NEW w \in Workers, Restart(w) PROVE KeyInv'
    BY <1>13 DEF Restart, Live
<1>14. CASE UNCHANGED vars
    BY <1>14 DEF vars
<1> QED
    BY <1>1, <1>2, <1>3, <1>4, <1>5, <1>6, <1>7, <1>8, <1>9, <1>10, <1>11,
       <1>12, <1>13, <1>14 DEF Next, Client, Signer

(* A client signs with the one key its process shows, unless it was made   *)
(* while another request constructed a signer.                             *)
THEOREM KeyCorrect == Spec => []OneKeyPerProcess
<1>1. KeyInv => OneKeyPerProcess
    BY DEF KeyInv
<1> QED
    BY InitGenerated, NextGenerated, InitKey, NextKey, <1>1, PTL DEF Spec

--------------------------------------------------------------------------------
(* Whoever emptied a file is about to write it, unless it was killed.      *)
EmptyIsBeingWritten ==
    local /\ ~ cut =>
        /\ priv = Empty => \E r \in Requests : pc[r] = "writePrivate"
        /\ pub = Empty => \E r \in Requests : pc[r] = "writePublic"

(* Every step keeps that.                                                  *)
LEMMA NextEmpty ==
    TypedAndGenerated /\ EmptyIsBeingWritten /\ [Next]_vars
    => EmptyIsBeingWritten'
<1> SUFFICES ASSUME TypedAndGenerated, EmptyIsBeingWritten, [Next]_vars,
                    local', ~ cut'
             PROVE  /\ priv' = Empty => \E r \in Requests : pc'[r] = "writePrivate"
                    /\ pub' = Empty => \E r \in Requests : pc'[r] = "writePublic"
    BY DEF EmptyIsBeingWritten
<1> DEFINE Goal ==
        /\ priv' = Empty => \E r \in Requests : pc'[r] = "writePrivate"
        /\ pub' = Empty => \E r \in Requests : pc'[r] = "writePublic"
<1>1. /\ priv = Empty => \E r \in Requests : pc[r] = "writePrivate"
      /\ pub = Empty => \E r \in Requests : pc[r] = "writePublic"
    BY DEF EmptyIsBeingWritten, Next, Client, Signer, Begin, Assign, Take, Use,
       ConstructInMemory, ConstructLocal, LoadPrivate, LoadPublic, OpenPrivate,
       WritePrivate, OpenPublic, WritePublic, Restart, history, vars
<1>2. ASSUME NEW r \in Requests, UNCHANGED files, NEW l, Goto(r, l),
             pc[r] \notin {"writePrivate", "writePublic"}
      PROVE  Goal
    BY <1>1, <1>2 DEF Goto, files, TypedAndGenerated, TypeOK
<1>3. ASSUME NEW r \in Requests, Client(r) PROVE Goal
    BY <1>2, <1>3 DEF Client, Begin, Assign, Take, Use, files
<1>4. ASSUME NEW r \in Requests,
             \/ ConstructInMemory(r) \/ ConstructLocal(r)
             \/ LoadPrivate(r) \/ LoadPublic(r)
      PROVE  Goal
    BY <1>2, <1>4
    DEF ConstructInMemory, ConstructLocal, LoadPrivate, LoadPublic, files
<1>5. ASSUME NEW r \in Requests, OpenPrivate(r) PROVE Goal
    BY <1>1, <1>5 DEF OpenPrivate, Goto, TypedAndGenerated, TypeOK
<1>6. ASSUME NEW r \in Requests, WritePrivate(r) PROVE Goal
    BY <1>1, <1>6, ConstantsAssumption
    DEF WritePrivate, Goto, TypedAndGenerated, TypeOK, Generated
<1>7. ASSUME NEW r \in Requests, OpenPublic(r) PROVE Goal
    BY <1>1, <1>7 DEF OpenPublic, Goto, TypedAndGenerated, TypeOK
<1>8. ASSUME NEW r \in Requests, WritePublic(r) PROVE Goal
    BY <1>1, <1>8, ConstantsAssumption
    DEF WritePublic, Goto, TypedAndGenerated, TypeOK, Generated
<1>9. ASSUME NEW w \in Workers, Restart(w) PROVE Goal
  <2>1. \A r \in Requests : worker[r] = w => pc[r] \notin Writing
    BY <1>9 DEF Restart
  <2> QED
    BY <1>1, <1>9, <2>1 DEF Restart, files, Writing, TypedAndGenerated, TypeOK
<1>10. CASE UNCHANGED vars
    BY <1>1, <1>10 DEF vars
<1> QED
    BY <1>3, <1>4, <1>5, <1>6, <1>7, <1>8, <1>9, <1>10 DEF Next, Signer

(* The files while nobody tore them: one request writes, private file      *)
(* first, and whoever got a key got the one in both files.                 *)
FilesOf(r) ==
    /\ pc[r] = "openPrivate" => priv = NoKey /\ pub = NoKey
    /\ pc[r] = "writePrivate" => priv = Empty /\ pub = NoKey
    /\ pc[r] = "openPublic" => priv = made[r] /\ pub = NoKey
    /\ pc[r] = "writePublic" => priv = made[r] /\ pub = Empty
    /\ pc[r] = "loadPublic" => priv = made[r]
    /\ pc[r] = "assign" => priv = made[r] /\ pub = priv

FilesWhole ==
    /\ \A r, s \in Requests : pc[r] \in Writing /\ pc[s] \in Writing => r = s
    /\ (\A r \in Requests : pc[r] \notin Writing) => priv = pub /\ priv # Empty
    /\ \A r \in Requests : FilesOf(r)
    /\ \A w \in Workers :
          instance[w] # NoKey => instance[w] = priv /\ pub = priv

FileInv == local /\ ~ torn /\ ~ cut => FilesWhole

(* It holds at first, *)
LEMMA InitFiles == Init => FileInv
BY ConstantsAssumption DEF Init, FileInv, FilesWhole, FilesOf, Writing

(* and every step keeps it. *)
LEMMA NextFiles ==
    TypedAndGenerated /\ FileInv /\ [Next]_vars => FileInv'
<1> SUFFICES ASSUME TypedAndGenerated, FileInv, [Next]_vars, local', ~ torn',
                    ~ cut'
             PROVE  FilesWhole'
    BY DEF FileInv
<1>a. local
    BY DEF Next, Client, Signer, Begin, Assign, Take, Use, ConstructInMemory,
           ConstructLocal, LoadPrivate, LoadPublic, OpenPrivate, WritePrivate,
           OpenPublic, WritePublic, Restart, vars
<1> USE ConstantsAssumption
    DEF TypedAndGenerated, TypeOK, Generated, FileInv, FilesWhole, FilesOf,
        Goto, files, history, FilesExist, Steps, Loading, Writing
<1>1. ASSUME NEW r \in Requests, Begin(r) PROVE FilesWhole'
    BY <1>a, <1>1 DEF Begin, Constructing
<1>2. ASSUME NEW r \in Requests, Assign(r) PROVE FilesWhole'
    BY <1>a, <1>2 DEF Assign
<1>3. ASSUME NEW r \in Requests, Take(r) PROVE FilesWhole'
    BY <1>a, <1>3 DEF Take
<1>4. ASSUME NEW r \in Requests, Use(r) PROVE FilesWhole'
    BY <1>a, <1>4 DEF Use
<1>5. ASSUME NEW r \in Requests, ConstructInMemory(r) PROVE FilesWhole'
    BY <1>a, <1>5 DEF ConstructInMemory
<1>6. ASSUME NEW r \in Requests, ConstructLocal(r) PROVE FilesWhole'
  <2>1. FilesWhole /\ UNCHANGED <<files, made, instance>>
    BY <1>a, <1>6 DEF ConstructLocal
  <2>2. CASE FilesExist
    <3>1. pc' = [pc EXCEPT ![r] = "loadPrivate"] /\ pc[r] = "construct"
      BY <1>6, <2>2 DEF ConstructLocal
    <3>2. \A s \in Requests : pc'[s] \in Writing <=> pc[s] \in Writing
      BY <3>1
    <3> QED
      BY <2>1, <3>1, <3>2
  <2>3. CASE ~ FilesExist
    <3>1. \A s \in Requests : pc[s] \notin Writing
      BY <1>6, <2>3 DEF ConstructLocal
    <3>2. pc' = [pc EXCEPT ![r] = "openPrivate"]
      BY <1>6, <2>3 DEF ConstructLocal
    <3>3. priv = NoKey /\ pub = NoKey
      BY <2>1, <2>3, <3>1
    <3>4. pc'[r] = "openPrivate" /\
          \A s \in Requests : pc'[s] \in Writing => s = r
      BY <3>1, <3>2
    <3> QED
      BY <2>1, <3>2, <3>3, <3>4
  <2> QED
    BY <2>2, <2>3
<1>7. ASSUME NEW r \in Requests, LoadPrivate(r) PROVE FilesWhole'
    BY <1>a, <1>7 DEF LoadPrivate
<1>8. ASSUME NEW r \in Requests, LoadPublic(r) PROVE FilesWhole'
    BY <1>a, <1>8 DEF LoadPublic
<1>9. ASSUME NEW r \in Requests, OpenPrivate(r) PROVE FilesWhole'
  <2>1. priv = NoKey /\ pub = NoKey
    BY <1>a, <1>9 DEF OpenPrivate
  <2>2. \A w \in Workers : instance[w] = NoKey
    BY <1>a, <1>9, <2>1 DEF OpenPrivate
  <2>3. \A s \in Requests : pc[s] \in Writing => s = r
    BY <1>a, <1>9 DEF OpenPrivate
  <2>4. \A s \in Requests : pc[s] \notin Loading \cup {"assign"}
    BY <1>a, <1>9, <2>1 DEF OpenPrivate
  <2>5. /\ pc' = [pc EXCEPT ![r] = "writePrivate"] /\ priv' = Empty
        /\ pub' = NoKey /\ instance' = instance
    BY <1>9, <2>1 DEF OpenPrivate
  <2>6. \A s \in Requests : s # r => pc'[s] = pc[s] /\ pc[s] \notin Writing
    BY <2>3, <2>5
  <2>7. pc'[r] = "writePrivate"
    BY <2>5
  <2>8. \A s \in Requests : FilesOf(s)'
    BY <2>4, <2>5, <2>6, <2>7
  <2>9. \A s, u \in Requests : pc'[s] \in Writing /\ pc'[u] \in Writing => s = u
    BY <2>6
  <2> QED
  <3>1. \A s, u \in Requests :
           (pc[s] \in Writing /\ pc[u] \in Writing => s = u)'
    BY <2>9
  <3>2. ((\A s \in Requests : pc[s] \notin Writing) => priv = pub /\ priv # Empty)'
    BY <2>7
  <3>3. (\A w \in Workers : instance[w] # NoKey => instance[w] = priv /\ pub = priv)'
    BY <2>2, <2>5
  <3> QED
    BY <2>8, <3>1, <3>2, <3>3
<1>10. ASSUME NEW r \in Requests, WritePrivate(r) PROVE FilesWhole'
    BY <1>a, <1>10 DEF WritePrivate
<1>11. ASSUME NEW r \in Requests, OpenPublic(r) PROVE FilesWhole'
    BY <1>a, <1>11 DEF OpenPublic
<1>12. ASSUME NEW r \in Requests, WritePublic(r) PROVE FilesWhole'
    BY <1>a, <1>12 DEF WritePublic
<1>13. ASSUME NEW w \in Workers, Restart(w) PROVE FilesWhole'
  <2>1. UNCHANGED <<files, made>>
    BY <1>13 DEF Restart
  <2>2. \A s \in Requests : pc'[s] = pc[s] \/ pc'[s] = "killed"
    BY <1>13 DEF Restart
  <2>3. \A s \in Requests : pc[s] \in Writing => pc'[s] = pc[s]
    BY <1>13 DEF Restart, Live
  <2>4. \A v \in Workers : instance'[v] \in {NoKey, instance[v]}
    BY <1>13 DEF Restart
  <2>5. FilesWhole
    BY <1>a, <1>13 DEF Restart
  <2>6. (\A s \in Requests : pc'[s] \notin Writing)
            => priv' = pub' /\ priv' # Empty
    BY <2>1, <2>3, <2>5
  <2> QED
    BY <2>1, <2>2, <2>4, <2>5, <2>6
<1>14. CASE UNCHANGED vars
    BY <1>a, <1>14 DEF vars
<1> QED
    BY <1>1, <1>2, <1>3, <1>4, <1>5, <1>6, <1>7, <1>8, <1>9, <1>10, <1>11,
       <1>12, <1>13, <1>14 DEF Next, Client, Signer

(* Local processes sign with the key in the files across restarts, unless  *)
(* two wrote them at once, which leaves a key in both, or one was killed.  *)
THEOREM FilesCorrect == Spec => []LocalKeyIsShared
<1>1. FileInv /\ EmptyIsBeingWritten => LocalKeyIsShared
    BY DEF FileInv, FilesWhole, EmptyIsBeingWritten, LocalKeyIsShared, Wedged,
           Writing
<1>2. Init => EmptyIsBeingWritten
    BY ConstantsAssumption DEF Init, EmptyIsBeingWritten
<1> QED
    BY InitGenerated, NextGenerated, InitFiles, NextFiles, NextEmpty,
       <1>1, <1>2, PTL DEF Spec

--------------------------------------------------------------------------------
(* Key files left without a key in them stay so: a request only begins to  *)
(* write them when one is missing.                                         *)
THEOREM WedgedForGood == Spec => WedgedStays
<1>1. ASSUME TypedAndGenerated, [Next]_vars, Wedged PROVE Wedged'
  <2> USE DEF TypedAndGenerated, TypeOK, Wedged, FilesExist, Goto, files
  <2>1. CASE \E r \in Requests : Client(r)
    BY <1>1, <2>1 DEF Client, Begin, Assign, Take, Use, Writing
  <2>2. CASE \E r \in Requests : Signer(r)
    BY <1>1, <2>2
    DEF Signer, ConstructInMemory, ConstructLocal, LoadPrivate, LoadPublic,
        OpenPrivate, WritePrivate, OpenPublic, WritePublic, Writing
  <2>3. CASE \E w \in Workers : Restart(w)
    BY <1>1, <2>3 DEF Restart, Writing
  <2>4. CASE UNCHANGED vars
    BY <1>1, <2>4 DEF vars
  <2> QED  BY <1>1, <2>1, <2>2, <2>3, <2>4 DEF Next
<1> QED
    BY <1>1, InitGenerated, NextGenerated, PTL DEF Spec, WedgedStays
================================================================================
