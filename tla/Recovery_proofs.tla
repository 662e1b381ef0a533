--------------------------- MODULE Recovery_proofs ---------------------------
(***************************************************************************)
(* For any group, any number of recovery flows, tools that die and servers *)
(* that crash: types and the registry, whatever overlaps; and, when one    *)
(* recovery runs at a time, what the share files are worth.                *)
(***************************************************************************)
EXTENDS Recovery, SignerRegistry_proofs, WellFoundedInduction

-----------------------------------------------------------------------------
\* The order of the configs on the command line.

\* FirstOf is the least of a set of identifiers.
LEMMA FirstIsLeast ==
  ASSUME NEW S \in SUBSET Nat, S # {}
  PROVE  FirstOf(S) \in S /\ \A t \in S : FirstOf(S) <= t
<1> DEFINE less == {p \in Nat \X Nat : p[1] < p[2]}
<1>1. IsWellFoundedOn(less, Nat)
  BY NatLessThanWellFounded DEF OpToRel
<1>2. \A x, y \in Nat : x < y => <<x, y>> \in less
  OBVIOUS
<1> HIDE DEF less
<1>3. PICK x \in S : \A y \in S : <<y, x>> \notin less
  BY <1>1, WFMin, Zenon
<1>4. \A y \in S : x <= y
  <2> TAKE y \in S
  <2>1. x \in Nat /\ y \in Nat /\ ~(y < x)
    BY <1>2, <1>3
  <2> QED
    BY <2>1
<1> QED
  BY <1>4 DEF FirstOf

LEMMA SignersAreNumbers == Signer \in SUBSET Nat /\ 1 \in Signer
<1>1. Cardinality(Signer) \in Nat
  BY GroupAssumption, FS_CardinalityType
<1>2. Cardinality(Signer) >= 2
  BY <1>1, StoreAssumption
<1>3. 1 \in 1..Cardinality(Signer) /\ 1..Cardinality(Signer) \in SUBSET Nat
  BY <1>1, <1>2
<1> QED
  BY <1>3, StoreAssumption

\* Every command line names a config: a lost signer has a helper.
LEMMA ConfigsNamed ==
  ASSUME NEW m, NEW id \in Signer
  PROVE  Configs(m, id) \in SUBSET Nat /\ Configs(m, id) # {} /\ Configs(m, id) \subseteq Signer
<1>1. Signer \ {id} # {}
  <2> SUFFICES ASSUME Signer = {id} PROVE FALSE
    OBVIOUS
  <2>1. Cardinality(Signer) = 1
    BY FS_Singleton
  <2> QED
    BY <2>1, StoreAssumption
<1> QED
  BY <1>1, SignersAreNumbers DEF Configs

LEMMA FirstConfig ==
  ASSUME NEW m, NEW id \in Signer
  PROVE  /\ FirstOf(Configs(m, id)) \in Configs(m, id) /\ FirstOf(Configs(m, id)) \in Signer
         /\ \A s \in Configs(m, id) : FirstOf(Configs(m, id)) <= s
BY ConfigsNamed, FirstIsLeast

LEMMA NextConfig ==
  ASSUME NEW S \in SUBSET Signer, NEW s, After(S, s) # {}
  PROVE  /\ FirstOf(After(S, s)) \in S /\ FirstOf(After(S, s)) > s
         /\ \A t \in S : t > s => FirstOf(After(S, s)) <= t
<1>1. After(S, s) \in SUBSET Nat
  BY SignersAreNumbers DEF After
<1> QED
  BY <1>1, FirstIsLeast DEF After

-----------------------------------------------------------------------------
\* Types.

LEMMA BlankType == \A state \in {"whole", "torn", "absent"} : Blank(state) \in File
BY DEF Blank, File, Generation

LEMMA NewValueType ==
  ASSUME StoreTypeOK, NEW j \in Job
  PROVE  NewValue(j) \in Generation
<1>1. /\ mode[j] \in {"repair", "refresh"} /\ field[j] \in {"key_package", "public_key_package"}
      /\ read[j][at[j]] \in Generation /\ pub[j] \in Generation
  BY DEF StoreTypeOK, Mode
<1> QED
  BY <1>1 DEF NewValue, Generation

\* The document a process writes.
Edited(j) == [config[at[j]] EXCEPT ![field[j]] = NewValue(j)]

LEMMA EditedIs ==
  ASSUME StoreTypeOK, NEW j \in Job
  PROVE  /\ Edited(j) \in File
         /\ Edited(j).state = config[at[j]].state
         /\ field[j] = "key_package" =>
              /\ Edited(j).key_package = NewValue(j)
              /\ Edited(j).public_key_package = config[at[j]].public_key_package
         /\ field[j] = "public_key_package" =>
              /\ Edited(j).key_package = config[at[j]].key_package
              /\ Edited(j).public_key_package = NewValue(j)
<1> DEFINE v == NewValue(j)
<1>1. v \in Generation /\ config[at[j]] \in File
        /\ field[j] \in {"key_package", "public_key_package"}
  BY NewValueType DEF StoreTypeOK
<1> HIDE DEF v
<1>2. CASE field[j] = "key_package"
  <2>1. Edited(j) = [config[at[j]] EXCEPT !.key_package = v]
    BY <1>2 DEF Edited, v
  <2> QED
    BY <1>1, <1>2, <2>1 DEF File, v
<1>3. CASE field[j] = "public_key_package"
  <2>1. Edited(j) = [config[at[j]] EXCEPT !.public_key_package = v]
    BY <1>3 DEF Edited, v
  <2> QED
    BY <1>1, <1>3, <2>1 DEF File, v
<1> QED
  BY <1>1, <1>2, <1>3

LEMMA StartType ==
  ASSUME StoreTypeOK, NEW j \in Job, NEW m \in Mode, NEW id \in Signer, Start(j, m, id)
  PROVE  StoreTypeOK'
<1>1. FirstOf(Configs(m, id)) \in Signer
  BY FirstConfig
<1>2. /\ mode' \in [Job -> Mode] /\ lost' \in [Job -> Signer] /\ pc' \in [Job -> Pc]
      /\ field' \in [Job -> {"key_package", "public_key_package"}]
  BY DEF Start, StoreTypeOK, Pc
<1>3. at' \in [Job -> Signer]
  BY <1>1 DEF Start, StoreTypeOK
<1>4. read' \in [Job -> [Signer -> Generation]]
  BY DEF Start, StoreTypeOK, Generation
<1> QED
  BY <1>2, <1>3, <1>4 DEF Start, StoreTypeOK

LEMMA ExitType ==
  ASSUME StoreTypeOK, NEW j, NEW code \in {"exit0", "exit1"}, Exit(j, code),
         UNCHANGED <<config, tmp, mode, lost, at, field, read, pub, doc>>
  PROVE  StoreTypeOK'
<1>1. pc' \in [Job -> Pc]
  BY DEF Exit, StoreTypeOK, Pc
<1>2. fd' \in [Job -> {"closed", "tmp", "path", "unlinked"}]
  BY DEF Exit, StoreTypeOK
<1> QED
  BY <1>1, <1>2 DEF StoreTypeOK

LEMMA ToolStepType ==
  ASSUME StoreTypeOK, NEW j \in Job, ToolStep(j)
  PROVE  StoreTypeOK'
<1>1. CASE ReadTorn(j)
  BY <1>1, ExitType DEF ReadTorn
<1>2. CASE ReadKey(j)
  <2> DEFINE rest == After(Configs(mode[j], lost[j]), at[j])
  <2>1. lost[j] \in Signer
    BY DEF StoreTypeOK
  <2>2. rest # {} => FirstOf(rest) \in Signer
    BY <2>1, ConfigsNamed, NextConfig
  <2>3. at' \in [Job -> Signer] /\ pc' \in [Job -> Pc]
    BY <1>2, <2>2 DEF ReadKey, StoreTypeOK, Pc
  <2>4. config[at[j]].key_package \in Generation
    BY DEF StoreTypeOK, File
  <2>5. read' \in [Job -> [Signer -> Generation]]
    BY <1>2, <2>4 DEF ReadKey, StoreTypeOK
  <2> QED
    BY <1>2, <2>3, <2>5 DEF ReadKey, StoreTypeOK
<1>3. CASE ReadPub(j)
  <2> DEFINE S == Configs(mode[j], lost[j])
             verified == mode[j] = "refresh" \/
                         \A s \in S : read[j][s] = config[FirstOf(S)].public_key_package
  <2>1. lost[j] \in Signer /\ FirstOf(S) \in Signer
    BY FirstConfig DEF StoreTypeOK
  <2>2. config[FirstOf(S)].public_key_package \in Generation
    BY <2>1 DEF StoreTypeOK, File
  <2>3. pub' \in [Job -> Generation]
    BY <1>3, <2>2 DEF ReadPub, StoreTypeOK
  <2>4. at' \in [Job -> Signer]
    BY <1>3, <2>1 DEF ReadPub, StoreTypeOK
  <2>5. pc' = [pc EXCEPT ![j] = IF verified THEN "load" ELSE "exit1"]
    BY <1>3 DEF ReadPub
  <2> HIDE DEF verified
  <2>6. pc' \in [Job -> Pc]
    BY <2>5 DEF StoreTypeOK, Pc
  <2> QED
    BY <1>3, <2>3, <2>4, <2>6 DEF ReadPub, StoreTypeOK
<1>4. CASE Load(j)
  <2>1. doc' = [doc EXCEPT ![j] = Edited(j)] /\ pc' = [pc EXCEPT ![j] = "open"]
    BY <1>4 DEF Load, Edited
  <2>2. Edited(j) \in File
    BY EditedIs
  <2>3. doc' \in [Job -> File] /\ pc' \in [Job -> Pc]
    BY <2>1, <2>2 DEF StoreTypeOK, Pc
  <2> QED
    BY <1>4, <2>3 DEF Load, StoreTypeOK
<1>5. CASE Open(j)
  <2>1. tmp' \in [Signer -> File]
    BY <1>5, BlankType DEF Open, StoreTypeOK
  <2>2. /\ fd' \in [Job -> {"closed", "tmp", "path", "unlinked"}]
        /\ pc' \in [Job -> Pc]
    BY <1>5 DEF Open, StoreTypeOK, Pc
  <2> QED
    BY <1>5, <2>1, <2>2 DEF Open, StoreTypeOK
<1>6. CASE Write(j)
  <2>1. doc[j] \in File
    BY DEF StoreTypeOK
  <2>2. tmp' \in [Signer -> File] /\ config' \in [Signer -> File] /\ pc' \in [Job -> Pc]
    BY <1>6, <2>1 DEF Write, StoreTypeOK, Pc
  <2> QED
    BY <1>6, <2>2 DEF Write, StoreTypeOK
<1>7. CASE Rename(j)
  <2> DEFINE rest == After(Signer, at[j])
             more == mode[j] = "refresh" /\ (field[j] = "key_package" \/ rest # {})
  <2>1. rest # {} => FirstOf(rest) \in Signer
    BY NextConfig
  <2>2. at' = [at EXCEPT ![j] =
                 IF more /\ field[j] = "public_key_package" THEN FirstOf(rest) ELSE @]
    BY <1>7 DEF Rename
  <2>3. at' \in [Job -> Signer]
    BY <2>1, <2>2 DEF StoreTypeOK
  <2>4. /\ pc' = [pc EXCEPT ![j] = IF more THEN "load" ELSE "exit0"]
        /\ field' = [field EXCEPT ![j] =
             IF more /\ @ = "key_package" THEN "public_key_package" ELSE "key_package"]
    BY <1>7 DEF Rename
  <2> HIDE DEF more
  <2>5. /\ pc' \in [Job -> Pc]
        /\ field' \in [Job -> {"key_package", "public_key_package"}]
    BY <2>4 DEF StoreTypeOK, Pc
  <2>6. config' \in [Signer -> File] /\ tmp' \in [Signer -> File]
    BY <1>7, BlankType DEF Rename, StoreTypeOK
  <2>7. fd' \in [Job -> {"closed", "tmp", "path", "unlinked"}]
    BY <1>7 DEF Rename, Moved, StoreTypeOK
  <2> QED
    BY <1>7, <2>3, <2>5, <2>6, <2>7 DEF Rename, StoreTypeOK
<1>8. CASE RenameFails(j)
  BY <1>8, ExitType DEF RenameFails
<1> QED
  BY <1>1, <1>2, <1>3, <1>4, <1>5, <1>6, <1>7, <1>8 DEF ToolStep

LEMMA InitType == Init => TypeOK
<1> SUFFICES ASSUME Init PROVE TypeOK
  OBVIOUS
<1>1. RegistryTypeOK
  BY DEF Init, RegistryInit, RegistryTypeOK, SignerStatus
<1>2. 1 \in Signer /\ Blank("whole") \in File /\ Blank("absent") \in File
  BY SignersAreNumbers, BlankType
<1>3. StoreTypeOK
  BY <1>2 DEF Init, StoreInit, StoreTypeOK, Mode, Pc, Generation
<1>4. up \in BOOLEAN
  BY DEF Init
<1>5. task \in [Job -> Task] /\ lostShares \in [Signer -> SUBSET Generation]
  BY DEF Init, Task
<1> QED
  BY <1>1, <1>3, <1>4, <1>5 DEF TypeOK

LEMMA StoreKept == StoreTypeOK /\ UNCHANGED storeVars => StoreTypeOK'
BY DEF StoreTypeOK, storeVars

LEMMA TypeNext == TypeOK /\ [Next]_vars => TypeOK'
<1> SUFFICES ASSUME TypeOK, [Next]_vars PROVE TypeOK'
  OBVIOUS
<1>t. /\ signers \in [Signer -> SignerStatus] /\ StoreTypeOK /\ up \in BOOLEAN
      /\ task \in [Job -> Task] /\ lostShares \in [Signer -> SUBSET Generation]
  BY DEF TypeOK, RegistryTypeOK
<1>q. ASSUME signers' \in [Signer -> SignerStatus], StoreTypeOK', up' \in BOOLEAN,
             task' \in [Job -> Task], lostShares' \in [Signer -> SUBSET Generation]
      PROVE  TypeOK'
  BY <1>q DEF TypeOK, RegistryTypeOK
<1>1. CASE UNCHANGED vars
  <2>1. StoreTypeOK'
    BY <1>1, <1>t, StoreKept DEF vars, storeVars
  <2> QED
    BY <1>1, <1>t, <1>q, <2>1 DEF vars
<1>2. ASSUME NEW actor \in Signer, NEW id \in Signer, LoseSigner(actor, id) PROVE TypeOK'
  <2>1. signers' \in [Signer -> SignerStatus]
    BY <1>2, <1>t DEF LoseSigner, MarkLost, SignerStatus
  <2>2. {config[id].key_package : k \in {config[id].state} \cap {"whole"}} \subseteq Generation
    BY <1>t DEF StoreTypeOK, File
  <2>3. lostShares' \in [Signer -> SUBSET Generation]
    BY <1>2, <1>t, <2>2 DEF LoseSigner
  <2>4. StoreTypeOK' /\ UNCHANGED <<up, task>>
    BY <1>2, <1>t, StoreKept DEF LoseSigner
  <2> QED
    BY <1>t, <1>q, <2>1, <2>3, <2>4
<1>3. ASSUME NEW actor \in Signer, NEW id \in Signer, NEW j \in Job, RepairSigner(actor, id, j)
      PROVE  TypeOK'
  <2>1. StoreTypeOK'
    BY <1>3, <1>t, StartType DEF RepairSigner, Mode
  <2>2. task' \in [Job -> Task]
    BY <1>3, <1>t DEF RepairSigner, Task
  <2> QED
    BY <1>3, <1>t, <1>q, <2>1, <2>2 DEF RepairSigner
<1>4. ASSUME NEW j \in Job, RepairDone(j) PROVE TypeOK'
  <2>1. StoreTypeOK'
    BY <1>4, <1>t, StartType DEF RepairDone, Mode, StoreTypeOK
  <2>2. task' \in [Job -> Task]
    BY <1>4, <1>t DEF RepairDone, Task
  <2> QED
    BY <1>4, <1>t, <1>q, <2>1, <2>2 DEF RepairDone
<1>5. ASSUME NEW j \in Job, RecoveryFailed(j) PROVE TypeOK'
  <2>1. StoreTypeOK'
    BY <1>5, <1>t, StoreKept DEF RecoveryFailed
  <2>2. task' \in [Job -> Task]
    BY <1>5, <1>t DEF RecoveryFailed, Task
  <2> QED
    BY <1>5, <1>t, <1>q, <2>1, <2>2 DEF RecoveryFailed
<1>6. ASSUME NEW j \in Job, RecoveryDone(j) PROVE TypeOK'
  <2>1. StoreTypeOK'
    BY <1>6, <1>t, StoreKept DEF RecoveryDone
  <2>2. task' \in [Job -> Task]
    BY <1>6, <1>t DEF RecoveryDone, Task
  <2>3. signers' \in [Signer -> SignerStatus]
    BY <1>6, <1>t DEF RecoveryDone, Restore, SignerStatus
  <2> QED
    BY <1>6, <1>t, <1>q, <2>1, <2>2, <2>3 DEF RecoveryDone
<1>7. ASSUME NEW j \in Job, Tool(j) PROVE TypeOK'
  <2>1. StoreTypeOK' /\ UNCHANGED <<signers, up, task, lostShares>>
    BY <1>7, <1>t, ToolStepType DEF Tool
  <2> QED
    BY <1>t, <1>q, <2>1
<1>8. ASSUME NEW j \in Job, ToolFault(j) PROVE TypeOK'
  <2>1. StoreTypeOK' /\ UNCHANGED <<signers, up, task, lostShares>>
    BY <1>8, <1>t, ExitType DEF ToolFault, ToolDies
  <2> QED
    BY <1>t, <1>q, <2>1
<1>9. CASE Crash
  <2>1. StoreTypeOK'
    BY <1>9, <1>t, StoreKept DEF Crash
  <2>2. task' \in [Job -> Task]
    BY <1>9, <1>t DEF Crash, Task
  <2>3. up' \in BOOLEAN
    BY <1>9 DEF Crash
  <2> QED
    BY <1>9, <1>t, <1>q, <2>1, <2>2, <2>3 DEF Crash
<1>10. CASE Boot
  <2>1. StoreTypeOK'
    BY <1>10, <1>t, StoreKept DEF Boot
  <2>2. up' \in BOOLEAN
    BY <1>10 DEF Boot
  <2> QED
    BY <1>10, <1>t, <1>q, <2>1, <2>2 DEF Boot
<1> QED
  BY <1>1, <1>2, <1>3, <1>4, <1>5, <1>6, <1>7, <1>8, <1>9, <1>10 DEF Next

\* The types of the table, the configs, the processes and the tasks.
THEOREM RecoveryTypes == Spec => []TypeOK
BY InitType, TypeNext, PTL DEF Spec

-----------------------------------------------------------------------------
\* Whatever recoveries overlap or break off, they drive the table as the
\* registry allows: losses past mark_lost's checks, and returns.
THEOREM RegistryKept == Spec => KeepsRegistry
<1>1. Init => RegistryInit
  BY DEF Init
<1>2. TypeOK /\ [Next]_vars => [RegistryNext]_signers
  <2> SUFFICES ASSUME TypeOK, [Next]_vars PROVE [RegistryNext]_signers
    OBVIOUS
  <2>1. ASSUME NEW actor \in Signer, NEW id \in Signer, LoseSigner(actor, id)
        PROVE  RegistryNext
    BY <2>1 DEF LoseSigner, RegistryNext
  <2>2. ASSUME NEW j \in Job, RecoveryDone(j) PROVE [RegistryNext]_signers
    <3>1. /\ lost[j] \in Signer /\ signers \in [Signer -> SignerStatus]
          /\ Restore(lost[j]) \/ UNCHANGED signers
      BY <2>2 DEF TypeOK, RegistryTypeOK, StoreTypeOK, RecoveryDone
    <3>2. CASE signers[lost[j]] = "lost"
      BY <3>1, <3>2 DEF RegistryNext
    <3>3. CASE signers[lost[j]] = "active"
      BY <3>1, <3>3 DEF Restore
    <3> QED
      BY <3>1, <3>2, <3>3 DEF SignerStatus
  <2>3. ASSUME UNCHANGED signers PROVE [RegistryNext]_signers
    BY <2>3
  <2>4. CASE UNCHANGED vars
    BY <2>3, <2>4 DEF vars
  <2>5. CASE Crash \/ Boot
    BY <2>3, <2>5 DEF Crash, Boot
  <2>6. ASSUME NEW actor \in Signer, NEW id \in Signer, NEW j \in Job, RepairSigner(actor, id, j)
        PROVE  [RegistryNext]_signers
    BY <2>3, <2>6 DEF RepairSigner
  <2>7. ASSUME NEW j \in Job, RepairDone(j) \/ RecoveryFailed(j) \/ Tool(j) \/ ToolFault(j)
        PROVE  [RegistryNext]_signers
    BY <2>3, <2>7 DEF RepairDone, RecoveryFailed, Tool, ToolFault
  <2> QED
    BY <2>1, <2>2, <2>4, <2>5, <2>6, <2>7 DEF Next
<1> QED
  BY <1>1, <1>2, RecoveryTypes, PTL DEF Spec, KeepsRegistry, RegistrySpec

\* So a threshold of signers can authenticate at every moment, whatever recoveries
\* overlap, fail halfway or are gone with the server.
THEOREM RecoveryKeepsThreshold == Spec => []ThresholdKept
BY RegistryKept, RegistryThreshold, PTL DEF KeepsRegistry

-----------------------------------------------------------------------------
\* One recovery at a time: the tools of a flow have the files to themselves.

Editing(j) == pc[j] \in {"load", "open", "write", "rename"}

\* A task and its process agree, and work for a signer who is lost.
Fits(j) ==
  /\ task[j] = "none" => pc[j] = "none"
  /\ task[j] \in {"repair", "refresh"} => pc[j] # "none" /\ mode[j] = task[j]
  /\ Busy(j) => signers[lost[j]] = "lost"

\* The descriptor is open between the open and the rename, on the temporary file,
\* which the rename finds as the process wrote it.
Files(j) ==
  /\ fd[j] = IF pc[j] \in {"write", "rename"} THEN "tmp" ELSE "closed"
  /\ pc[j] \in {"open", "write", "rename"} => doc[j] = Edited(j)
  /\ pc[j] = "rename" => tmp[at[j]] = doc[j]

AloneInv ==
  /\ TypeOK
  /\ \A j, k \in Job : Busy(j) /\ Busy(k) => j = k
  /\ NoHalfWrittenConfig
  /\ \A j \in Job : Fits(j) /\ Files(j)

LEMMA AloneInit == Init => AloneInv
<1> SUFFICES ASSUME Init PROVE AloneInv
  OBVIOUS
<1>1. \A j \in Job : task[j] = "none" /\ pc[j] = "none" /\ fd[j] = "closed"
  BY DEF Init, StoreInit
<1>2. NoHalfWrittenConfig
  BY DEF Init, StoreInit, NoHalfWrittenConfig, Blank
<1> QED
  BY <1>1, <1>2, InitType DEF AloneInv, Fits, Files, Busy, Running

\* A flow's process goes on while the others are idle.
LEMMA AloneStep ==
  ASSUME AloneInv, TypeOK', NEW j \in Job, NoHalfWrittenConfig', Fits(j)', Files(j)',
         \A k \in Job \ {j} : /\ ~Busy(k)
                              /\ pc'[k] = pc[k] /\ task'[k] = task[k] /\ fd'[k] = "closed"
  PROVE  AloneInv'
<1>1. \A k \in Job \ {j} : ~Busy(k)'
  BY DEF Busy, Running
<1>2. \A k \in Job \ {j} : Fits(k)'
  BY <1>1 DEF AloneInv, Fits, Busy
<1>3. \A k \in Job \ {j} : Files(k)'
  BY DEF Files, Busy, Running
<1> QED
  BY <1>1, <1>2, <1>3 DEF AloneInv

\* The files and processes stay, tasks may be lost with the server, and signers
\* lost stay so.
LEMMA AloneKept ==
  ASSUME AloneInv, TypeOK', UNCHANGED storeVars,
         \A s \in Signer : signers[s] = "lost" => signers'[s] = "lost",
         \A j \in Job : \/ task'[j] = task[j]
                        \/ task[j] \in {"repair", "refresh"} /\ task'[j] = "gone"
  PROVE  AloneInv'
<1> USE DEF storeVars
<1>1. \A j \in Job : Busy(j)' => Busy(j)
  BY DEF Busy, Running
<1>2. \A j \in Job : lost[j] \in Signer
  BY DEF AloneInv, TypeOK, StoreTypeOK
<1>3. \A j \in Job : Fits(j)'
  BY <1>1, <1>2 DEF AloneInv, Fits
<1>4. \A j \in Job : Files(j)'
  BY DEF AloneInv, Files, Edited, NewValue
<1>5. NoHalfWrittenConfig'
  BY DEF AloneInv, NoHalfWrittenConfig
<1> QED
  BY <1>1, <1>3, <1>4, <1>5 DEF AloneInv

LEMMA OthersIdle ==
  ASSUME AloneInv, NEW j \in Job, Busy(j)
  PROVE  \A k \in Job \ {j} : ~Busy(k) /\ fd[k] = "closed"
BY DEF AloneInv, Files, Busy, Running

\* Only a rename changes a config, and puts the edited document in place.
LEMMA WhatToolsWrite ==
  ASSUME AloneInv, NEW j \in Job, ToolStep(j)
  PROVE  /\ Busy(j) /\ Running(j)
         /\ ~Rename(j) => config' = config
         /\ Rename(j) => config' = [config EXCEPT ![at[j]] = Edited(j)]
<1>1. Running(j)
  BY DEF ToolStep, ReadTorn, ReadKey, ReadPub, Load, Open, Write, Rename, RenameFails, Running
<1>2. Write(j) => config' = config
  BY DEF Write, AloneInv, Files
<1>3. Rename(j) => config' = [config EXCEPT ![at[j]] = Edited(j)]
  BY DEF Rename, AloneInv, Files
<1> QED
  BY <1>1, <1>2, <1>3 DEF Busy, ToolStep, ReadTorn, ReadKey, ReadPub, Load, Open, RenameFails

LEMMA AloneTool ==
  ASSUME AloneInv, NEW j \in Job, Tool(j)
  PROVE  AloneInv'
<1>t. TypeOK' /\ StoreTypeOK /\ StoreTypeOK'
  BY TypeNext DEF AloneInv, Next, TypeOK
<1>w. /\ Busy(j) /\ Running(j) /\ UNCHANGED <<signers, task>> /\ ToolStep(j)
      /\ UNCHANGED <<mode, lost>>
  BY WhatToolsWrite
     DEF Tool, ToolStep, ReadTorn, ReadKey, ReadPub, Load, Open, Write, Rename, RenameFails
<1>o. \A k \in Job \ {j} : ~Busy(k) /\ fd[k] = "closed"
  BY <1>w, OthersIdle
<1>a. at[j] \in Signer /\ config[at[j]].state = "whole"
  BY <1>t DEF StoreTypeOK, AloneInv, NoHalfWrittenConfig
<1>f. ASSUME pc'[j] # "none" PROVE Fits(j)'
  <2>1. Fits(j) /\ pc[j] # "none"
    BY <1>w DEF AloneInv, Running
  <2>2. task[j] # "none" /\ signers[lost[j]] = "lost"
    BY <1>w, <2>1 DEF Fits
  <2>3. task'[j] # "none" /\ signers'[lost'[j]] = "lost"
    BY <1>w, <2>2
  <2>4. task'[j] \in {"repair", "refresh"} => mode'[j] = task'[j]
    BY <1>w, <2>1 DEF Fits
  <2> QED
    BY <1>f, <2>3, <2>4 DEF Fits
<1>q. ASSUME NoHalfWrittenConfig', Files(j)', pc'[j] # "none",
             \A k \in Job \ {j} : pc'[k] = pc[k] /\ fd'[k] = fd[k]
      PROVE  AloneInv'
  BY <1>f, <1>o, <1>q, <1>t, <1>w, AloneStep
<1>n. config' = config => NoHalfWrittenConfig'
  BY DEF AloneInv, NoHalfWrittenConfig
<1>1. CASE ReadTorn(j)
  <2>1. config' = config /\ pc' = [pc EXCEPT ![j] = "exit1"] /\ fd' = [fd EXCEPT ![j] = "closed"]
    BY <1>1 DEF ReadTorn, Exit
  <2>2. Files(j)'
    BY <1>t, <2>1 DEF Files, StoreTypeOK
  <2> QED
    BY <1>n, <1>q, <1>t, <2>1, <2>2 DEF StoreTypeOK
<1>2. CASE ReadKey(j)
  <2>1. config' = config /\ fd' = fd /\ pc[j] = "readKey"
          /\ (pc' = pc \/ pc' = [pc EXCEPT ![j] = "readPub"])
    BY <1>2 DEF ReadKey
  <2>2. pc'[j] \in {"readKey", "readPub"} /\ \A k \in Job \ {j} : pc'[k] = pc[k]
    BY <1>t, <2>1 DEF StoreTypeOK
  <2>3. Files(j)'
    BY <2>1, <2>2 DEF AloneInv, Files
  <2> QED
    BY <1>n, <1>q, <2>1, <2>2, <2>3
<1>3. CASE ReadPub(j)
  <2> DEFINE S == Configs(mode[j], lost[j])
             verified == mode[j] = "refresh" \/
                         \A s \in S : read[j][s] = config[FirstOf(S)].public_key_package
  <2>0. pc' = [pc EXCEPT ![j] = IF verified THEN "load" ELSE "exit1"]
    BY <1>3 DEF ReadPub
  <2> HIDE DEF verified
  <2>1. config' = config /\ fd' = fd /\ pc[j] = "readPub"
    BY <1>3 DEF ReadPub
  <2>2. pc'[j] \in {"load", "exit1"} /\ \A k \in Job \ {j} : pc'[k] = pc[k]
    BY <1>t, <2>0 DEF StoreTypeOK
  <2>3. Files(j)'
    BY <2>1, <2>2 DEF AloneInv, Files
  <2> QED
    BY <1>n, <1>q, <2>1, <2>2, <2>3
<1>4. CASE Load(j)
  <2>1. /\ UNCHANGED <<config, fd, mode, at, field, read, pub>> /\ pc[j] = "load"
        /\ pc' = [pc EXCEPT ![j] = "open"] /\ doc' = [doc EXCEPT ![j] = Edited(j)]
    BY <1>4 DEF Load, Edited
  <2>2. Edited(j)' = Edited(j)
    BY <2>1 DEF Edited, NewValue
  <2>3. Files(j)'
    BY <1>t, <2>1, <2>2 DEF AloneInv, Files, StoreTypeOK
  <2> QED
    BY <1>n, <1>q, <1>t, <2>1, <2>3 DEF StoreTypeOK
<1>5. CASE Open(j)
  <2>1. /\ UNCHANGED <<config, mode, at, field, read, pub, doc>> /\ pc[j] = "open"
        /\ pc' = [pc EXCEPT ![j] = "write"] /\ fd' = [fd EXCEPT ![j] = "tmp"]
    BY <1>5 DEF Open
  <2>2. Edited(j)' = Edited(j)
    BY <2>1 DEF Edited, NewValue
  <2>3. Files(j)'
    BY <1>t, <2>1, <2>2 DEF AloneInv, Files, StoreTypeOK
  <2> QED
    BY <1>n, <1>q, <1>t, <2>1, <2>3 DEF StoreTypeOK
<1>6. CASE Write(j)
  <2>1. /\ UNCHANGED <<fd, mode, at, field, read, pub, doc>> /\ pc[j] = "write"
        /\ pc' = [pc EXCEPT ![j] = "rename"] /\ fd[j] = "tmp"
        /\ tmp' = [tmp EXCEPT ![at[j]] = doc[j]] /\ config' = config
    BY <1>6 DEF Write, AloneInv, Files
  <2>2. Edited(j)' = Edited(j)
    BY <2>1 DEF Edited, NewValue
  <2>3. Files(j)'
    BY <1>a, <1>t, <2>1, <2>2 DEF AloneInv, Files, StoreTypeOK
  <2> QED
    BY <1>n, <1>q, <1>t, <2>1, <2>3 DEF StoreTypeOK
<1>7. CASE Rename(j)
  <2> DEFINE more == mode[j] = "refresh" /\ (field[j] = "key_package" \/ After(Signer, at[j]) # {})
  <2>1. pc' = [pc EXCEPT ![j] = IF more THEN "load" ELSE "exit0"]
    BY <1>7 DEF Rename
  <2> HIDE DEF more
  <2>2. pc'[j] \in {"load", "exit0"} /\ \A k \in Job \ {j} : pc'[k] = pc[k]
    BY <1>t, <2>1 DEF StoreTypeOK
  <2>3. fd'[j] = "closed" /\ \A k \in Job \ {j} : fd'[k] = "closed"
    <3>1. fd' = Moved(j, at[j])
      BY <1>7 DEF Rename
    <3> QED
      BY <1>o, <3>1 DEF Moved
  <2>4. config' = [config EXCEPT ![at[j]] = Edited(j)]
    BY <1>w, <1>7, WhatToolsWrite
  <2>5. Edited(j).state = "whole"
    BY <1>a, <1>t, EditedIs
  <2>6. NoHalfWrittenConfig'
    BY <1>a, <1>t, <2>4, <2>5 DEF AloneInv, NoHalfWrittenConfig, StoreTypeOK
  <2>7. Files(j)'
    BY <2>2, <2>3 DEF Files
  <2> QED
    BY <1>o, <1>q, <2>2, <2>3, <2>6, <2>7
<1>8. CASE RenameFails(j)
  <2>1. config' = config /\ pc' = [pc EXCEPT ![j] = "exit1"] /\ fd' = [fd EXCEPT ![j] = "closed"]
    BY <1>8 DEF RenameFails, Exit
  <2>2. Files(j)'
    BY <1>t, <2>1 DEF Files, StoreTypeOK
  <2> QED
    BY <1>n, <1>q, <1>t, <2>1, <2>2 DEF StoreTypeOK
<1> QED
  BY <1>w, <1>1, <1>2, <1>3, <1>4, <1>5, <1>6, <1>7, <1>8 DEF ToolStep

LEMMA AloneFlow ==
  ASSUME AloneInv, TypeOK', NEW j \in Job, config' = config, fd'[j] = "closed",
         pc'[j] \in {"readKey", "exit0", "exit1"}, Fits(j)',
         \A k \in Job \ {j} : /\ ~Busy(k)
                              /\ pc'[k] = pc[k] /\ task'[k] = task[k] /\ fd'[k] = fd[k]
  PROVE  AloneInv'
<1>1. NoHalfWrittenConfig'
  BY DEF AloneInv, NoHalfWrittenConfig
<1>2. Files(j)'
  BY DEF Files
<1>3. \A k \in Job \ {j} : fd'[k] = "closed"
  BY DEF AloneInv, Files, Busy, Running
<1> QED
  BY <1>1, <1>2, <1>3, AloneStep

LEMMA AloneNext ==
  ASSUME ~Overlap
  PROVE  AloneInv /\ [Next]_vars => AloneInv'
<1> SUFFICES ASSUME AloneInv, [Next]_vars PROVE AloneInv'
  OBVIOUS
<1>t. TypeOK' /\ StoreTypeOK /\ StoreTypeOK' /\ task \in [Job -> Task]
        /\ signers \in [Signer -> SignerStatus]
  BY TypeNext DEF AloneInv, TypeOK, RegistryTypeOK
<1>1. CASE UNCHANGED vars
  BY <1>1, <1>t, AloneKept DEF vars, storeVars
<1>2. ASSUME NEW actor \in Signer, NEW id \in Signer, LoseSigner(actor, id) PROVE AloneInv'
  <2>1. UNCHANGED <<storeVars, task>> /\ signers' = [signers EXCEPT ![id] = "lost"]
    BY <1>2 DEF LoseSigner, MarkLost
  <2> QED
    BY <1>t, <2>1, AloneKept
<1>3. ASSUME NEW actor \in Signer, NEW id \in Signer, NEW j \in Job, RepairSigner(actor, id, j)
      PROVE  AloneInv'
  <2>1. /\ \A k \in Job : ~Busy(k)
        /\ UNCHANGED <<signers, config, fd>> /\ signers[id] = "lost"
        /\ task' = [task EXCEPT ![j] = "repair"] /\ pc' = [pc EXCEPT ![j] = "readKey"]
        /\ mode' = [mode EXCEPT ![j] = "repair"] /\ lost' = [lost EXCEPT ![j] = id]
    BY <1>3 DEF RepairSigner, Start
  <2>2. task'[j] = "repair" /\ pc'[j] = "readKey" /\ mode'[j] = "repair" /\ lost'[j] = id
    BY <1>t, <2>1 DEF StoreTypeOK
  <2>3. Fits(j)'
    BY <2>1, <2>2 DEF Fits
  <2>4. fd'[j] = "closed"
    BY <2>1 DEF AloneInv, Files, Busy, Running
  <2>5. \A k \in Job \ {j} : pc'[k] = pc[k] /\ task'[k] = task[k]
    BY <1>t, <2>1 DEF StoreTypeOK
  <2> QED
    BY <1>t, <2>1, <2>2, <2>3, <2>4, <2>5, AloneFlow
<1>4. ASSUME NEW j \in Job, RepairDone(j) PROVE AloneInv'
  <2>1. /\ UNCHANGED <<signers, config, fd>> /\ task[j] = "repair" /\ pc[j] = "exit0"
        /\ task' = [task EXCEPT ![j] = "refresh"] /\ pc' = [pc EXCEPT ![j] = "readKey"]
        /\ mode' = [mode EXCEPT ![j] = "refresh"] /\ lost' = [lost EXCEPT ![j] = lost[j]]
    BY <1>4 DEF RepairDone, Start
  <2>2. Busy(j) /\ signers[lost[j]] = "lost" /\ fd[j] = "closed"
    BY <2>1 DEF AloneInv, Fits, Files, Busy
  <2>3. task'[j] = "refresh" /\ pc'[j] = "readKey" /\ mode'[j] = "refresh" /\ lost'[j] = lost[j]
    BY <1>t, <2>1 DEF StoreTypeOK
  <2>4. Fits(j)'
    BY <2>1, <2>2, <2>3 DEF Fits
  <2>5. \A k \in Job \ {j} : pc'[k] = pc[k] /\ task'[k] = task[k]
    BY <1>t, <2>1 DEF StoreTypeOK
  <2> QED
    BY <1>t, <2>1, <2>2, <2>3, <2>4, <2>5, OthersIdle, AloneFlow
<1>5. ASSUME NEW j \in Job, RecoveryFailed(j) \/ RecoveryDone(j) PROVE AloneInv'
  <2>1. /\ UNCHANGED storeVars /\ task[j] \in {"repair", "refresh"} /\ pc[j] \in {"exit0", "exit1"}
        /\ task' = [task EXCEPT ![j] = "failed"] \/ task' = [task EXCEPT ![j] = "done"]
    BY <1>5 DEF RecoveryFailed, RecoveryDone
  <2>2. Busy(j) /\ UNCHANGED <<config, fd, pc>>
    BY <2>1 DEF Busy, storeVars
  <2>3. task'[j] \in {"failed", "done"} /\ \A k \in Job \ {j} : task'[k] = task[k]
    BY <1>t, <2>1
  <2>4. Fits(j)' /\ fd'[j] = "closed"
    BY <2>1, <2>2, <2>3 DEF AloneInv, Fits, Files, Busy, Running
  <2> QED
    BY <1>t, <2>1, <2>2, <2>3, <2>4, OthersIdle, AloneFlow
<1>6. ASSUME NEW j \in Job, Tool(j) PROVE AloneInv'
  BY <1>6, AloneTool
<1>7. ASSUME NEW j \in Job, ToolFault(j) PROVE AloneInv'
  <2>1. /\ Running(j) /\ UNCHANGED <<signers, task, config, mode, lost>>
        /\ pc' = [pc EXCEPT ![j] = "exit1"] /\ fd' = [fd EXCEPT ![j] = "closed"]
    BY <1>7 DEF ToolFault, ToolDies, Exit
  <2>2. Busy(j) /\ Fits(j) /\ pc[j] # "none"
    BY <2>1 DEF AloneInv, Busy, Running
  <2>3. pc'[j] = "exit1" /\ fd'[j] = "closed"
        /\ \A k \in Job \ {j} : pc'[k] = pc[k] /\ fd'[k] = fd[k]
    BY <1>t, <2>1 DEF StoreTypeOK
  <2>4. Fits(j)'
    BY <2>1, <2>2, <2>3 DEF Fits
  <2> QED
    BY <1>t, <2>1, <2>2, <2>3, <2>4, OthersIdle, AloneFlow
<1>8. CASE Crash \/ Boot
  <2>1. /\ UNCHANGED <<storeVars, signers>>
        /\ task' = task \/ task' = [j \in Job |-> IF task[j] \in {"repair", "refresh"}
                                                  THEN "gone" ELSE task[j]]
    BY <1>8 DEF Crash, Boot
  <2> QED
    BY <1>t, <2>1, AloneKept
<1> QED
  BY <1>1, <1>2, <1>3, <1>4, <1>5, <1>6, <1>7, <1>8 DEF Next

\* write_atomic_owner_only's promise, when one recovery runs at a time: no
\* config is ever half written, whichever process dies where.
THEOREM NoHalfWrittenConfigAlone ==
  ASSUME ~Overlap
  PROVE  Spec => []NoHalfWrittenConfig
<1>1. AloneInv => NoHalfWrittenConfig
  BY DEF AloneInv
<1> QED
  BY <1>1, AloneInit, AloneNext, PTL DEF Spec

-----------------------------------------------------------------------------
\* How far a process has come, by what it has read and what the files hold.

Key(s) == config[s].key_package
Public(s) == config[s].public_key_package
Mine(j) == Configs(mode[j], lost[j])

\* A refresh has written s's share.
Rotated(j, s) == s < at[j] \/ (s = at[j] /\ field[j] = "public_key_package")

Progress(j) ==
  /\ pc[j] = "readKey" =>
       /\ at[j] \in Mine(j) /\ field[j] = "key_package"
       /\ \A s \in Mine(j) : s < at[j] => read[j][s] = Key(s)
  /\ pc[j] = "readPub" =>
       field[j] = "key_package" /\ \A s \in Mine(j) : read[j][s] = Key(s)
  /\ mode[j] = "repair" /\ Editing(j) =>
       /\ field[j] = "key_package" /\ at[j] = lost[j]
       /\ \A s \in Signer \ {lost[j]} : Key(s) = pub[j]
  /\ task[j] = "repair" /\ pc[j] = "exit0" => \A s \in Signer : Key(s) = pub[j]
  /\ mode[j] = "refresh" /\ Editing(j) =>
       \A s \in Signer : Key(s) = IF Rotated(j, s) THEN read[j][s] \cup {j} ELSE read[j][s]
  /\ task[j] = "refresh" /\ pc[j] = "exit0" => \A s \in Signer : Key(s) = read[j][s] \cup {j}

ProgressInv == AloneInv /\ \A j \in Job : Progress(j)

LEMMA IdleProgress ==
  ASSUME NEW j \in Job, ~Busy(j)
  PROVE  Progress(j)
BY DEF Progress, Busy, Running, Editing

LEMMA StoppedProgress ==
  ASSUME NEW j \in Job, pc[j] = "exit1"
  PROVE  Progress(j)
BY DEF Progress, Editing

LEMMA StartProgress ==
  ASSUME StoreTypeOK, NEW j \in Job, NEW m \in Mode, NEW id \in Signer, Start(j, m, id)
  PROVE  Progress(j)'
<1> DEFINE first == FirstOf(Configs(m, id))
<1>1. /\ first \in Configs(m, id) /\ first \in Signer /\ Configs(m, id) \in SUBSET Nat
      /\ \A s \in Configs(m, id) : first <= s
  BY FirstConfig, ConfigsNamed
<1>2. /\ pc'[j] = "readKey" /\ at'[j] = first /\ field'[j] = "key_package"
      /\ mode'[j] = m /\ lost'[j] = id
  BY DEF Start, StoreTypeOK
<1>3. Mine(j)' = Configs(m, id)
  BY <1>2 DEF Mine, Configs
<1> HIDE DEF first
<1>4. \A s \in Mine(j)' : ~(s < at'[j])
  BY <1>1, <1>2, <1>3
<1>5. at'[j] \in Mine(j)'
  BY <1>1, <1>2, <1>3
<1> QED
  BY <1>2, <1>4, <1>5 DEF Progress, Editing

LEMMA ReadKeyProgress ==
  ASSUME StoreTypeOK, NEW j \in Job, Progress(j), ReadKey(j)
  PROVE  Progress(j)'
<1> DEFINE rest == After(Mine(j), at[j])
<1>1. /\ pc[j] = "readKey" /\ UNCHANGED <<config, mode, lost, field>>
      /\ read' = [read EXCEPT ![j][at[j]] = Key(at[j])]
      /\ IF rest # {}
         THEN at' = [at EXCEPT ![j] = FirstOf(rest)] /\ UNCHANGED pc
         ELSE pc' = [pc EXCEPT ![j] = "readPub"] /\ UNCHANGED at
  BY DEF ReadKey, Key, Mine
<1>2. /\ at[j] \in Mine(j) /\ field[j] = "key_package"
      /\ \A s \in Mine(j) : s < at[j] => read[j][s] = Key(s)
  BY <1>1 DEF Progress
<1>3. Mine(j) \subseteq Signer /\ Mine(j) \in SUBSET Nat
  BY ConfigsNamed DEF Mine, StoreTypeOK
<1>4. /\ Mine(j)' = Mine(j) /\ \A s : Key(s)' = Key(s)
      /\ field'[j] = "key_package"
  BY <1>1, <1>2 DEF Mine, Configs, Key
<1>5. \A s \in Mine(j) : s <= at[j] => read'[j][s] = Key(s)
  <2> TAKE s \in Mine(j)
  <2>1. s \in Signer /\ s \in Nat /\ at[j] \in Nat
    BY <1>2, <1>3
  <2>2. read'[j][s] = IF s = at[j] THEN Key(at[j]) ELSE read[j][s]
    BY <1>1, <2>1 DEF StoreTypeOK
  <2> QED
    BY <1>2, <2>1, <2>2
<1>6. CASE rest # {}
  <2>1. /\ FirstOf(rest) \in Mine(j) /\ FirstOf(rest) > at[j]
        /\ \A t \in Mine(j) : t > at[j] => FirstOf(rest) <= t
    BY <1>3, <1>6, NextConfig
  <2>2. at'[j] = FirstOf(rest) /\ pc'[j] = "readKey"
    BY <1>1, <1>6 DEF StoreTypeOK
  <2> HIDE DEF rest
  <2>3. \A s \in Mine(j) : s < at'[j] => s <= at[j]
    BY <1>2, <1>3, <2>1, <2>2
  <2> QED
    BY <1>4, <1>5, <2>1, <2>2, <2>3 DEF Progress, Editing
<1>7. CASE rest = {}
  <2>1. pc'[j] = "readPub"
    BY <1>1, <1>7 DEF StoreTypeOK
  <2>2. \A s \in Mine(j) : s <= at[j]
    BY <1>2, <1>3, <1>7 DEF After
  <2> QED
    BY <1>4, <1>5, <2>1, <2>2 DEF Progress, Editing
<1> QED
  BY <1>6, <1>7

LEMMA ReadPubProgress ==
  ASSUME StoreTypeOK, NEW j \in Job, Progress(j), Fits(j)', ReadPub(j)
  PROVE  Progress(j)'
<1> DEFINE package == Public(FirstOf(Mine(j)))
           verified == mode[j] = "refresh" \/ \A s \in Mine(j) : read[j][s] = package
<1>1. /\ pc[j] = "readPub" /\ UNCHANGED <<config, mode, lost, field, read>>
      /\ pub' = [pub EXCEPT ![j] = package]
      /\ pc' = [pc EXCEPT ![j] = IF verified THEN "load" ELSE "exit1"]
      /\ at' = [at EXCEPT ![j] = IF mode[j] = "repair" THEN lost[j] ELSE FirstOf(Mine(j))]
  BY DEF ReadPub, Public, Mine
<1>2. field[j] = "key_package" /\ \A s \in Mine(j) : read[j][s] = Key(s)
  BY <1>1 DEF Progress
<1>3. /\ pub'[j] = package /\ mode'[j] = mode[j] /\ lost'[j] = lost[j] /\ read'[j] = read[j]
      /\ field'[j] = "key_package" /\ \A s : Key(s)' = Key(s)
      /\ mode[j] \in {"repair", "refresh"}
      /\ at'[j] = IF mode[j] = "repair" THEN lost[j] ELSE FirstOf(Mine(j))
  BY <1>1, <1>2 DEF Key, StoreTypeOK, Mode
<1> HIDE DEF package
<1>4. CASE ~verified
  <2>1. pc'[j] = "exit1"
    BY <1>1, <1>4 DEF StoreTypeOK
  <2> QED
    BY <2>1, StoppedProgress DEF Progress, Editing
<1>5. CASE verified
  <2>1. pc'[j] = "load"
    <3> HIDE DEF verified
    <3> QED
      BY <1>1, <1>5 DEF StoreTypeOK
  <2>2. CASE mode[j] = "repair"
    <3>1. Mine(j) = Signer \ {lost[j]}
      BY <2>2 DEF Mine, Configs
    <3>2. \A s \in Signer \ {lost[j]} : Key(s) = package
      BY <1>2, <1>5, <2>2, <3>1
    <3> QED
      BY <1>3, <2>1, <2>2, <3>2 DEF Progress, Editing
  <2>3. CASE mode[j] = "refresh"
    <3>1. Mine(j) = Signer
      BY <2>3 DEF Mine, Configs
    <3>2. at'[j] \in Nat /\ \A s \in Signer : s \in Nat /\ at'[j] <= s
      <4>1. FirstOf(Mine(j)) \in Signer /\ \A s \in Signer : FirstOf(Mine(j)) <= s
        BY <3>1, FirstConfig DEF Mine, StoreTypeOK
      <4> QED
        BY <1>3, <2>3, <4>1, SignersAreNumbers
    <3>3. \A s \in Signer : ~Rotated(j, s)'
      BY <1>3, <3>2 DEF Rotated
    <3>4. \A s \in Signer : Key(s)' = read'[j][s]
      BY <1>2, <1>3, <3>1
    <3> QED
      BY <1>3, <2>1, <2>3, <3>3, <3>4 DEF Progress, Editing
  <2> QED
    BY <1>3, <2>2, <2>3
<1> QED
  BY <1>4, <1>5

LEMMA WriteProgress ==
  ASSUME AloneInv, NEW j \in Job, Progress(j), Load(j) \/ Open(j) \/ Write(j)
  PROVE  Progress(j)'
<1>1. /\ Editing(j) /\ UNCHANGED <<mode, lost, at, field, read, pub>>
      /\ \/ pc' = [pc EXCEPT ![j] = "open"]
         \/ pc' = [pc EXCEPT ![j] = "write"]
         \/ pc' = [pc EXCEPT ![j] = "rename"]
  BY DEF Load, Open, Write, Editing
<1>2. config' = config
  BY DEF Load, Open, Write, AloneInv, Files
<1>3. pc'[j] \in {"open", "write", "rename"}
  BY <1>1 DEF AloneInv, TypeOK, StoreTypeOK
<1>4. \A s : Key(s)' = Key(s) /\ (Rotated(j, s)' <=> Rotated(j, s))
  BY <1>1, <1>2 DEF Key, Rotated
<1>5. ASSUME mode[j] = "repair"
      PROVE  /\ field[j] = "key_package" /\ at[j] = lost[j]
             /\ \A s \in Signer \ {lost[j]} : Key(s) = pub[j]
  BY <1>1, <1>5 DEF Progress
<1>6. ASSUME mode[j] = "refresh"
      PROVE  \A s \in Signer : Key(s)' = IF Rotated(j, s)' THEN read[j][s] \cup {j} ELSE read[j][s]
  BY <1>1, <1>4, <1>6 DEF Progress
<1> QED
  BY <1>1, <1>3, <1>4, <1>5, <1>6 DEF Progress

LEMMA RenameProgress ==
  ASSUME AloneInv, NEW j \in Job, Progress(j), Fits(j)', Rename(j),
         task[j] # "none", UNCHANGED task
  PROVE  Progress(j)'
<1> DEFINE rest == After(Signer, at[j])
           more == mode[j] = "refresh" /\ (field[j] = "key_package" \/ rest # {})
<1>t. StoreTypeOK /\ task[j] \in Task /\ at[j] \in Signer
  BY DEF AloneInv, TypeOK, StoreTypeOK
<1>1. /\ Editing(j) /\ UNCHANGED <<mode, lost, read, pub>>
      /\ config' = [config EXCEPT ![at[j]] = Edited(j)]
  BY WhatToolsWrite DEF Rename, Editing, ToolStep
<1>2. /\ pc' = [pc EXCEPT ![j] = IF more THEN "load" ELSE "exit0"]
      /\ field' = [field EXCEPT ![j] =
                     IF more /\ @ = "key_package" THEN "public_key_package" ELSE "key_package"]
      /\ at' = [at EXCEPT ![j] =
                  IF more /\ field[j] = "public_key_package" THEN FirstOf(rest) ELSE @]
  BY DEF Rename
<1>3. \A s \in Signer : Key(s)' = IF s = at[j] THEN Edited(j).key_package ELSE Key(s)
  BY <1>1, <1>t DEF Key, StoreTypeOK
<1>4. /\ field[j] = "key_package" => Edited(j).key_package = NewValue(j)
      /\ field[j] = "public_key_package" => Edited(j).key_package = Key(at[j])
  BY <1>t, EditedIs DEF Key
<1>5. CASE mode[j] = "repair"
  <2>1. /\ field[j] = "key_package" /\ at[j] = lost[j]
        /\ \A s \in Signer \ {lost[j]} : Key(s) = pub[j]
    BY <1>1, <1>5 DEF Progress
  <2>2. NewValue(j) = pub[j]
    BY <1>5 DEF NewValue
  <2>3. \A s \in Signer : Key(s)' = pub'[j]
    BY <1>1, <1>3, <1>4, <2>1, <2>2
  <2>4. pc'[j] = "exit0" /\ mode'[j] = "repair"
    BY <1>1, <1>2, <1>5, <1>t DEF StoreTypeOK
  <2>5. task'[j] # "refresh"
    BY <2>4 DEF Fits
  <2> QED
    BY <2>3, <2>4, <2>5 DEF Progress, Editing
<1>6. CASE mode[j] = "refresh"
  <2>1. \A s \in Signer : Key(s) = IF Rotated(j, s) THEN read[j][s] \cup {j} ELSE read[j][s]
    BY <1>1, <1>6 DEF Progress
  <2>2. \A s \in Signer : s \in Nat
    BY SignersAreNumbers
  <2>t. mode'[j] = "refresh" /\ read'[j] = read[j] /\ task'[j] # "repair"
    BY <1>1, <1>6, <1>t DEF Fits
  <2>3. CASE field[j] = "key_package"
    <3>1. more
      BY <1>6, <2>3
    <3> HIDE DEF more
    <3>2. pc'[j] = "load" /\ field'[j] = "public_key_package" /\ at'[j] = at[j]
      BY <1>2, <1>t, <2>3, <3>1 DEF StoreTypeOK
    <3>3. NewValue(j) = read[j][at[j]] \cup {j}
      BY <1>6, <2>3 DEF NewValue
    <3>4. \A s \in Signer : Rotated(j, s)' <=> (s = at[j] \/ Rotated(j, s))
      BY <2>3, <3>2 DEF Rotated
    <3>5. ASSUME NEW s \in Signer
          PROVE  Key(s)' = IF Rotated(j, s)' THEN read[j][s] \cup {j} ELSE read[j][s]
      <4>1. CASE s = at[j]
        BY <1>3, <1>4, <2>3, <3>3, <3>4, <4>1
      <4>2. CASE s # at[j]
        BY <1>3, <2>1, <3>4, <4>2
      <4> QED
        BY <4>1, <4>2
    <3> QED
      BY <2>t, <3>2, <3>5 DEF Progress
  <2>4. CASE field[j] = "public_key_package"
    <3>1. \A s \in Signer : Key(s)' = Key(s)
      BY <1>3, <1>4, <2>4
    <3>2. \A s \in Signer : Rotated(j, s) <=> s <= at[j]
      BY <1>t, <2>2, <2>4 DEF Rotated
    <3>3. CASE rest # {}
      <4>1. more
        BY <1>6, <3>3
      <4>2. /\ FirstOf(rest) \in Signer /\ FirstOf(rest) > at[j]
            /\ \A t \in Signer : t > at[j] => FirstOf(rest) <= t
        BY <3>3, NextConfig
      <4> HIDE DEF more, rest
      <4>3. pc'[j] = "load" /\ field'[j] = "key_package" /\ at'[j] = FirstOf(rest)
        BY <1>2, <1>t, <2>4, <4>1 DEF StoreTypeOK
      <4>4. \A s \in Signer : s < at'[j] <=> s <= at[j]
        BY <1>t, <2>2, <4>2, <4>3
      <4>5. \A s \in Signer : Rotated(j, s)' <=> Rotated(j, s)
        BY <3>2, <4>3, <4>4 DEF Rotated
      <4>6. \A s \in Signer :
              Key(s)' = IF Rotated(j, s)' THEN read[j][s] \cup {j} ELSE read[j][s]
        BY <2>1, <3>1, <4>5
      <4> QED
        BY <2>t, <4>3, <4>6 DEF Progress
    <3>4. CASE rest = {}
      <4>1. ~more
        BY <2>4, <3>4
      <4>2. \A s \in Signer : s <= at[j]
        BY <1>t, <2>2, <3>4 DEF After
      <4> HIDE DEF more
      <4>3. pc'[j] = "exit0"
        BY <1>2, <1>t, <4>1 DEF StoreTypeOK
      <4>4. \A s \in Signer : Key(s)' = read'[j][s] \cup {j}
        BY <2>1, <2>t, <3>1, <3>2, <4>2
      <4> QED
        BY <2>t, <4>3, <4>4 DEF Progress, Editing
    <3> QED
      BY <3>3, <3>4
  <2> QED
    BY <1>t, <2>3, <2>4 DEF StoreTypeOK
<1> QED
  BY <1>t, <1>5, <1>6 DEF StoreTypeOK, Mode

LEMMA ToolProgress ==
  ASSUME ProgressInv, NEW j \in Job, Tool(j)
  PROVE  \A k \in Job : Progress(k)'
<1>1. AloneInv' /\ ToolStep(j) /\ UNCHANGED task
  BY AloneTool DEF ProgressInv, Tool
<1>2. Busy(j) /\ Running(j) /\ \A k \in Job \ {j} : ~Busy(k)
  BY <1>1, WhatToolsWrite, OthersIdle DEF ProgressInv
<1>3. \A k \in Job \ {j} : pc'[k] = pc[k]
  BY <1>1 DEF ToolStep, ReadTorn, Exit, ReadKey, ReadPub, Load, Open, Write, Rename, RenameFails,
              ProgressInv, AloneInv, TypeOK, StoreTypeOK
<1>4. \A k \in Job \ {j} : Progress(k)'
  <2>1. \A k \in Job \ {j} : ~Busy(k)'
    BY <1>1, <1>2, <1>3 DEF Busy, Running
  <2> QED
    BY <2>1 DEF Progress, Busy, Running, Editing
<1>5. Progress(j)'
  <2>t. AloneInv /\ StoreTypeOK /\ Progress(j) /\ Fits(j)' /\ task[j] # "none"
    BY <1>1, <1>2 DEF ProgressInv, AloneInv, TypeOK, Fits, Running
  <2>1. ASSUME pc'[j] = "exit1" PROVE Progress(j)'
    BY <2>1 DEF Progress, Editing
  <2>2. CASE ReadTorn(j) \/ RenameFails(j)
    BY <2>1, <2>2, <2>t DEF ReadTorn, RenameFails, Exit, StoreTypeOK
  <2>3. CASE ReadKey(j)
    BY <2>3, <2>t, ReadKeyProgress
  <2>4. CASE ReadPub(j)
    BY <2>4, <2>t, ReadPubProgress
  <2>5. CASE Load(j) \/ Open(j) \/ Write(j)
    BY <2>5, <2>t, WriteProgress
  <2>6. CASE Rename(j)
    BY <1>1, <2>6, <2>t, RenameProgress
  <2> QED
    BY <1>1, <2>2, <2>3, <2>4, <2>5, <2>6 DEF ToolStep
<1> QED
  BY <1>4, <1>5

LEMMA ProgressNext ==
  ASSUME ~Overlap
  PROVE  ProgressInv /\ [Next]_vars => ProgressInv'
<1> SUFFICES ASSUME ProgressInv, [Next]_vars PROVE ProgressInv'
  OBVIOUS
<1>a. AloneInv /\ AloneInv' /\ StoreTypeOK
  BY AloneNext DEF ProgressInv, AloneInv, TypeOK
<1>q. ASSUME \A j \in Job : Progress(j)' PROVE ProgressInv'
  BY <1>a, <1>q DEF ProgressInv
<1>i. ASSUME NEW j \in Job, ~Busy(j)' PROVE Progress(j)'
  BY <1>i DEF Progress, Busy, Running, Editing
<1>o. ASSUME NEW j \in Job, Busy(j)' PROVE \A k \in Job \ {j} : ~Busy(k)'
  BY <1>a, <1>o DEF AloneInv
<1>1. ASSUME UNCHANGED storeVars,
             \A j \in Job : \/ task'[j] = task[j]
                            \/ task'[j] \notin {"repair", "refresh"}
      PROVE  ProgressInv'
  <2>1. \A j \in Job : Progress(j)'
    BY <1>1 DEF ProgressInv, storeVars, Progress, Mine, Configs, Key, Rotated, Editing
  <2> QED
    BY <1>q, <2>1
<1>2. CASE UNCHANGED vars
  BY <1>1, <1>2 DEF vars, storeVars
<1>3. ASSUME NEW actor \in Signer, NEW id \in Signer, LoseSigner(actor, id) PROVE ProgressInv'
  BY <1>1, <1>3 DEF LoseSigner
<1>4. ASSUME NEW actor \in Signer, NEW id \in Signer, NEW j \in Job, RepairSigner(actor, id, j)
      PROVE  ProgressInv'
  <2>1. Start(j, "repair", id) /\ task' = [task EXCEPT ![j] = "repair"]
    BY <1>4 DEF RepairSigner
  <2>2. Progress(j)'
    BY <1>a, <2>1, StartProgress DEF Mode
  <2>3. Busy(j)'
    BY <1>a, <2>1 DEF Busy, AloneInv, TypeOK
  <2> QED
    BY <1>i, <1>o, <1>q, <2>2, <2>3
<1>5. ASSUME NEW j \in Job, RepairDone(j) PROVE ProgressInv'
  <2>1. Start(j, "refresh", lost[j]) /\ task' = [task EXCEPT ![j] = "refresh"] /\ lost[j] \in Signer
    BY <1>5, <1>a DEF RepairDone, StoreTypeOK
  <2>2. Progress(j)'
    BY <1>a, <2>1, StartProgress DEF Mode
  <2>3. Busy(j)'
    BY <1>a, <2>1 DEF Busy, AloneInv, TypeOK
  <2> QED
    BY <1>i, <1>o, <1>q, <2>2, <2>3
<1>6. ASSUME NEW j \in Job, RecoveryFailed(j) \/ RecoveryDone(j) PROVE ProgressInv'
  <2>1. UNCHANGED storeVars
          /\ (task' = [task EXCEPT ![j] = "failed"] \/ task' = [task EXCEPT ![j] = "done"])
    BY <1>6 DEF RecoveryFailed, RecoveryDone
  <2>2. \A k \in Job : task'[k] = task[k] \/ task'[k] \notin {"repair", "refresh"}
    BY <1>a, <2>1 DEF AloneInv, TypeOK
  <2> QED
    BY <1>1, <2>1, <2>2
<1>7. ASSUME NEW j \in Job, Tool(j) PROVE ProgressInv'
  BY <1>7, <1>q, ToolProgress
<1>8. ASSUME NEW j \in Job, ToolFault(j) PROVE ProgressInv'
  <2>1. Running(j) /\ UNCHANGED task /\ pc' = [pc EXCEPT ![j] = "exit1"]
    BY <1>8 DEF ToolFault, ToolDies, Exit
  <2>2. \A k \in Job \ {j} : ~Busy(k) /\ pc'[k] = pc[k]
    BY <1>a, <2>1, OthersIdle DEF Busy, StoreTypeOK
  <2>3. \A k \in Job \ {j} : ~Busy(k)'
    BY <2>1, <2>2 DEF Busy, Running
  <2>4. Progress(j)'
    BY <1>a, <2>1 DEF Progress, Editing, StoreTypeOK
  <2> QED
    BY <1>i, <1>q, <2>3, <2>4
<1>9. CASE Crash \/ Boot
  BY <1>1, <1>9 DEF Crash, Boot
<1> QED
  BY <1>2, <1>3, <1>4, <1>5, <1>6, <1>7, <1>8, <1>9 DEF Next

LEMMA ProgressInit == Init => ProgressInv
<1> SUFFICES ASSUME Init PROVE ProgressInv
  OBVIOUS
<1>1. \A j \in Job : ~Busy(j)
  BY DEF Init, StoreInit, Busy, Running
<1> QED
  BY <1>1, AloneInit, IdleProgress DEF ProgressInv

\* rime-repair verifies the share it puts together against every helper's, so
\* a refresh only ever starts from shares of one polynomial.
THEOREM RefreshStartsFromOnePolynomial ==
  ASSUME ~Overlap
  PROVE  Spec => RefreshStartsAgreed
<1> DEFINE Agreed == \A j \in Job : task[j] = "repair" /\ task'[j] = "refresh" =>
                       SignsTogether(Signer)
<1>1. ProgressInv /\ [Next]_vars => [Agreed]_vars
  <2> SUFFICES ASSUME ProgressInv, Next, NEW k \in Job, task[k] = "repair", task'[k] = "refresh"
               PROVE  SignsTogether(Signer)
    OBVIOUS
  <2>t. task \in [Job -> Task]
    BY DEF ProgressInv, AloneInv, TypeOK
  <2>1. RepairDone(k)
    <3>1. ASSUME task' = task PROVE FALSE
      BY <3>1
    <3>2. ASSUME NEW actor \in Signer, NEW id \in Signer, LoseSigner(actor, id) PROVE FALSE
      BY <3>1, <3>2 DEF LoseSigner
    <3>3. ASSUME NEW actor \in Signer, NEW id \in Signer, NEW j \in Job,
                 RepairSigner(actor, id, j)
          PROVE  FALSE
      BY <2>t, <3>3 DEF RepairSigner
    <3>4. ASSUME NEW j \in Job, RepairDone(j) PROVE j = k
      BY <2>t, <3>4 DEF RepairDone
    <3>5. ASSUME NEW j \in Job, RecoveryFailed(j) \/ RecoveryDone(j) PROVE FALSE
      BY <2>t, <3>5 DEF RecoveryFailed, RecoveryDone
    <3>6. ASSUME NEW j \in Job, Tool(j) \/ ToolFault(j) PROVE FALSE
      BY <3>1, <3>6 DEF Tool, ToolFault
    <3>7. CASE Crash \/ Boot
      BY <2>t, <3>1, <3>7 DEF Crash, Boot
    <3> QED
      BY <3>2, <3>3, <3>4, <3>5, <3>6, <3>7 DEF Next
  <2>2. pc[k] = "exit0"
    BY <2>1 DEF RepairDone
  <2>3. \A s \in Signer : Key(s) = pub[k]
    BY <2>2 DEF ProgressInv, Progress
  <2> QED
    BY <2>3 DEF ProgressInv, AloneInv, NoHalfWrittenConfig, SignsTogether, Key
<1>2. Spec => [][Agreed]_vars
  <2> HIDE DEF Agreed
  <2> QED
    BY <1>1, ProgressInit, ProgressNext, PTL DEF Spec
<1> QED
  BY <1>2 DEF RefreshStartsAgreed

-----------------------------------------------------------------------------
\* One value in all the configs before a refresh, two while it writes, and two
\* where it broke off.

RefreshAgrees(j) ==
  mode[j] = "refresh" =>
    /\ pc[j] \in {"readKey", "readPub"} => \A s, t \in Signer : Key(s) = Key(t)
    /\ Editing(j) => \A s, t \in Signer : read[j][s] = read[j][t]

TwoShares == \E a, b \in Generation : \A s \in Signer : Key(s) \in {a, b}

SharesInv ==
  /\ ProgressInv
  /\ \A j \in Job : RefreshAgrees(j)
  /\ TwoShares

LEMMA SharesTool ==
  ASSUME ~Overlap, SharesInv, NEW j \in Job, Tool(j)
  PROVE  SharesInv'
<1>a. ProgressInv /\ ProgressInv' /\ AloneInv /\ StoreTypeOK /\ Progress(j) /\ RefreshAgrees(j)
  BY ProgressNext DEF Next, SharesInv, ProgressInv, AloneInv, TypeOK
<1>b. ToolStep(j) /\ UNCHANGED <<task, mode>>
  BY DEF Tool, ToolStep, ReadTorn, ReadKey, ReadPub, Load, Open, Write, Rename, RenameFails
<1>c. Running(j) /\ \A k \in Job \ {j} : ~Running(k) /\ pc'[k] = pc[k]
  BY <1>a, <1>b, WhatToolsWrite, OthersIdle
     DEF ToolStep, ReadTorn, Exit, ReadKey, ReadPub, Load, Open, Write, Rename, RenameFails,
         StoreTypeOK, Busy
<1>d. \A k \in Job \ {j} : RefreshAgrees(k)'
  BY <1>c DEF RefreshAgrees, Running, Editing
<1>n. ~Rename(j) => config' = config
  BY <1>a, <1>b, WhatToolsWrite
<1>1. CASE ~Rename(j)
  <2>1. \A s : Key(s)' = Key(s)
    BY <1>1, <1>n DEF Key
  <2>2. TwoShares'
    BY <2>1 DEF SharesInv, TwoShares
  <2>3. RefreshAgrees(j)'
    <3>1. CASE pc'[j] = "exit1"
      BY <3>1 DEF RefreshAgrees, Editing
    <3>2. CASE ReadTorn(j) \/ RenameFails(j)
      BY <1>a, <3>1, <3>2 DEF ReadTorn, RenameFails, Exit, StoreTypeOK
    <3>3. CASE ReadKey(j)
      <4>1. pc[j] = "readKey" /\ pc'[j] \in {"readKey", "readPub"}
        BY <1>a, <3>3 DEF ReadKey, StoreTypeOK
      <4> QED
        BY <1>a, <1>b, <2>1, <4>1 DEF RefreshAgrees, Editing
    <3>4. CASE ReadPub(j)
      <4>1. pc[j] = "readPub" /\ read' = read /\ pc'[j] \notin {"readKey", "readPub"}
        <5> DEFINE S == Configs(mode[j], lost[j])
                   verified == mode[j] = "refresh" \/
                               \A s \in S : read[j][s] = config[FirstOf(S)].public_key_package
        <5>1. pc[j] = "readPub" /\ read' = read
                /\ pc' = [pc EXCEPT ![j] = IF verified THEN "load" ELSE "exit1"]
          BY <3>4 DEF ReadPub
        <5> HIDE DEF verified
        <5> QED
          BY <1>a, <5>1 DEF StoreTypeOK
      <4>2. mode[j] = "refresh" => Mine(j) = Signer
        BY DEF Mine, Configs
      <4>3. mode[j] = "refresh" => \A s, t \in Signer : read[j][s] = read[j][t]
        BY <1>a, <4>1, <4>2 DEF Progress, RefreshAgrees
      <4> QED
        BY <1>b, <4>1, <4>3 DEF RefreshAgrees
    <3>5. CASE Load(j) \/ Open(j) \/ Write(j)
      <4>1. Editing(j) /\ read' = read /\ pc'[j] \notin {"readKey", "readPub"}
        BY <1>a, <3>5 DEF Load, Open, Write, Editing, StoreTypeOK
      <4> QED
        BY <1>a, <1>b, <4>1 DEF RefreshAgrees
    <3> QED
      BY <1>1, <1>b, <3>2, <3>3, <3>4, <3>5 DEF ToolStep
  <2> QED
    BY <1>a, <1>d, <2>2, <2>3 DEF SharesInv
<1>2. CASE Rename(j)
  <2>1. /\ Editing(j) /\ read' = read /\ at[j] \in Signer
        /\ config' = [config EXCEPT ![at[j]] = Edited(j)]
    BY <1>2, <1>a, <1>b, WhatToolsWrite DEF Rename, Editing, StoreTypeOK
  <2>2. pc'[j] \notin {"readKey", "readPub"}
    <3> DEFINE more == mode[j] = "refresh" /\ (field[j] = "key_package" \/ After(Signer, at[j]) # {})
    <3>1. pc' = [pc EXCEPT ![j] = IF more THEN "load" ELSE "exit0"]
      BY <1>2 DEF Rename
    <3> HIDE DEF more
    <3> QED
      BY <1>a, <3>1 DEF StoreTypeOK
  <2>3. RefreshAgrees(j)'
    BY <1>a, <1>b, <2>1, <2>2 DEF RefreshAgrees
  <2>4. \A s \in Signer : Key(s)' = IF s = at[j] THEN Edited(j).key_package ELSE Key(s)
    BY <1>a, <2>1 DEF Key, StoreTypeOK
  <2>5. /\ field[j] = "key_package" => Edited(j).key_package = NewValue(j)
        /\ field[j] = "public_key_package" => Edited(j).key_package = Key(at[j])
        /\ field[j] \in {"key_package", "public_key_package"}
    BY <1>a, EditedIs DEF Key, StoreTypeOK
  <2>6. TwoShares'
    <3>1. CASE mode[j] = "repair"
      <4>1. \A s \in Signer : Key(s)' = pub[j]
        BY <1>a, <2>1, <2>4, <2>5, <3>1 DEF Progress, NewValue
      <4> QED
        BY <1>a, <4>1 DEF TwoShares, StoreTypeOK
    <3>2. CASE mode[j] = "refresh"
      <4>1. /\ \A s, t \in Signer : read[j][s] = read[j][t]
            /\ \A s \in Signer : Key(s) \in {read[j][s], read[j][s] \cup {j}}
        BY <1>a, <2>1, <3>2 DEF Progress, RefreshAgrees
      <4>2. field[j] = "key_package" => NewValue(j) = read[j][at[j]] \cup {j}
        BY <3>2 DEF NewValue
      <4> DEFINE a == read[j][at[j]]
                 b == read[j][at[j]] \cup {j}
      <4>3. \A s \in Signer : Key(s) \in {a, b}
        BY <2>1, <4>1
      <4>4. \A s \in Signer : Key(s)' \in {a, b}
        BY <2>1, <2>4, <2>5, <4>2, <4>3
      <4>5. a \in Generation /\ b \in Generation
        BY <1>a, <2>1 DEF StoreTypeOK, Generation
      <4> QED
        BY <4>4, <4>5 DEF TwoShares
    <3> QED
      BY <1>a, <3>1, <3>2 DEF StoreTypeOK, Mode
  <2> QED
    BY <1>a, <1>d, <2>3, <2>6 DEF SharesInv
<1> QED
  BY <1>1, <1>2

LEMMA SharesNext ==
  ASSUME ~Overlap
  PROVE  SharesInv /\ [Next]_vars => SharesInv'
<1> SUFFICES ASSUME SharesInv, [Next]_vars PROVE SharesInv'
  OBVIOUS
<1>a. ProgressInv /\ ProgressInv' /\ AloneInv /\ AloneInv' /\ StoreTypeOK
  BY ProgressNext DEF SharesInv, ProgressInv, AloneInv, TypeOK
<1>q. ASSUME config' = config, \A j \in Job : RefreshAgrees(j)' PROVE SharesInv'
  BY <1>a, <1>q DEF SharesInv, TwoShares, Key
<1>1. ASSUME UNCHANGED storeVars PROVE SharesInv'
  BY <1>q, <1>1 DEF SharesInv, storeVars, RefreshAgrees, Editing, Key
<1>2. ASSUME NEW actor \in Signer, NEW id \in Signer, NEW j \in Job, RepairSigner(actor, id, j)
      PROVE  SharesInv'
  <2>1. mode' = [mode EXCEPT ![j] = "repair"] /\ pc' = [pc EXCEPT ![j] = "readKey"]
          /\ config' = config /\ \A k \in Job : ~Busy(k)
    BY <1>2 DEF RepairSigner, Start
  <2>2. \A k \in Job : RefreshAgrees(k)'
    BY <1>a, <2>1 DEF RefreshAgrees, Busy, Running, Editing, StoreTypeOK
  <2> QED
    BY <1>q, <2>1, <2>2
<1>3. ASSUME NEW j \in Job, RepairDone(j) PROVE SharesInv'
  <2>1. pc' = [pc EXCEPT ![j] = "readKey"] /\ config' = config /\ Busy(j)
          /\ task[j] = "repair" /\ pc[j] = "exit0"
    BY <1>3 DEF RepairDone, Start, Busy
  <2>2. \A s, t \in Signer : Key(s)' = Key(t)'
    BY <2>1, <1>a DEF ProgressInv, Progress, Key
  <2>3. RefreshAgrees(j)'
    BY <1>a, <2>1, <2>2 DEF RefreshAgrees, Editing, StoreTypeOK
  <2>4. \A k \in Job \ {j} : ~Running(k) /\ pc'[k] = pc[k]
    BY <1>a, <2>1, OthersIdle DEF Busy, StoreTypeOK
  <2>5. \A k \in Job \ {j} : RefreshAgrees(k)'
    BY <2>4 DEF RefreshAgrees, Running, Editing
  <2> QED
    BY <1>q, <2>1, <2>3, <2>5
<1>4. ASSUME NEW j \in Job, ToolFault(j) PROVE SharesInv'
  <2>1. Running(j) /\ config' = config /\ UNCHANGED <<mode, read>> /\ pc' = [pc EXCEPT ![j] = "exit1"]
    BY <1>4 DEF ToolFault, ToolDies, Exit
  <2>2. \A k \in Job : pc'[k] = pc[k] \/ pc'[k] = "exit1"
    BY <1>a, <2>1 DEF StoreTypeOK
  <2>3. \A k \in Job : RefreshAgrees(k)'
    BY <2>1, <2>2 DEF SharesInv, RefreshAgrees, Editing, Key
  <2> QED
    BY <1>q, <2>1, <2>3
<1>5. ASSUME NEW j \in Job, Tool(j) PROVE SharesInv'
  BY <1>5, SharesTool
<1>6. CASE UNCHANGED vars
  BY <1>1, <1>6 DEF vars, storeVars
<1>7. ASSUME NEW actor \in Signer, NEW id \in Signer, LoseSigner(actor, id) PROVE SharesInv'
  BY <1>1, <1>7 DEF LoseSigner
<1>8. ASSUME NEW j \in Job, RecoveryFailed(j) \/ RecoveryDone(j) PROVE SharesInv'
  BY <1>1, <1>8 DEF RecoveryFailed, RecoveryDone
<1>9. CASE Crash \/ Boot
  BY <1>1, <1>9 DEF Crash, Boot
<1> QED
  BY <1>2, <1>3, <1>4, <1>5, <1>6, <1>7, <1>8, <1>9 DEF Next

LEMMA SharesInit == Init => SharesInv
<1> SUFFICES ASSUME Init PROVE SharesInv
  OBVIOUS
<1>1. \A j \in Job : RefreshAgrees(j)
  BY DEF Init, StoreInit, RefreshAgrees, Editing
<1>2. \A s \in Signer : Key(s) = {}
  BY DEF Init, StoreInit, Key, Blank
<1>3. {} \in Generation
  BY DEF Generation
<1>4. TwoShares
  BY <1>2, <1>3 DEF TwoShares
<1> QED
  BY <1>1, <1>4, ProgressInit DEF SharesInv

LEMMA EnoughOf ==
  ASSUME NEW S, IsFiniteSet(S), NEW n \in Nat, Cardinality(S) >= n
  PROVE  \E T \in SUBSET S : Cardinality(T) = n
<1>1. Cardinality(S) \in Nat
  BY FS_CardinalityType
<1>2. PICK f \in [1..Cardinality(S) -> S] :
        \A i, k \in 1..Cardinality(S) : f[i] = f[k] => i = k
  <2> DEFINE N == 1..Cardinality(S)
  <2>1. ExistsBijection(N, S)
    BY FS_CardinalityType
  <2> HIDE DEF N
  <2>2. PICK h \in Injection(N, S) : TRUE
    BY <2>1 DEF ExistsBijection, Bijection
  <2>3. h \in [N -> S] /\ \A i, k \in N : h[i] = h[k] => i = k
    BY <2>2 DEF Injection, IsInjective
  <2> QED
    BY <2>3 DEF N
<1> DEFINE g == [i \in 1..n |-> f[i]]
           T == {f[i] : i \in 1..n}
<1>3. 1..n \subseteq 1..Cardinality(S)
  BY <1>1
<1>4. T \in SUBSET S
  BY <1>2, <1>3
<1>5. g \in Bijection(1..n, T)
  BY <1>2, <1>3 DEF Bijection, Injection, Surjection, IsInjective
<1>6. Cardinality(T) = n
  BY <1>5, FS_CountingElements DEF ExistsBijection
<1> QED
  BY <1>4, <1>6

\* Wherever a tool dies or the server crashes, a threshold of configs, the lost
\* signers' among them, holds shares of one polynomial: when the group is at
\* least twice the threshold less one, so that of the two values the configs
\* can hold one is in enough of them.  Who may use them is not in question here.
THEOREM SecretOnFileAlone ==
  ASSUME ~Overlap, Cardinality(Signer) >= 2 * Quorum - 1
  PROVE  Spec => []SecretOnFile
<1>1. SharesInv => SecretOnFile
  <2> SUFFICES ASSUME SharesInv PROVE SecretOnFile
    OBVIOUS
  <2>1. PICK a \in Generation, b \in Generation : \A s \in Signer : Key(s) \in {a, b}
    BY DEF SharesInv, TwoShares
  <2> DEFINE Of(g) == {s \in Signer : Key(s) = g}
  <2>2. Signer = Of(a) \cup Of(b)
    BY <2>1
  <2>3. IsFiniteSet(Of(a)) /\ IsFiniteSet(Of(b)) /\ IsFiniteSet(Of(a) \cap Of(b))
    BY GroupAssumption, FS_Subset
  <2>4. Cardinality(Signer) =
          Cardinality(Of(a)) + Cardinality(Of(b)) - Cardinality(Of(a) \cap Of(b))
    BY <2>2, <2>3, FS_Union
  <2>5. /\ Cardinality(Of(a)) \in Nat /\ Cardinality(Of(b)) \in Nat
        /\ Cardinality(Of(a) \cap Of(b)) \in Nat /\ Quorum \in Nat
        /\ Cardinality(Signer) \in Nat
    BY <2>3, FS_CardinalityType, GroupAssumption
  <2>6. ASSUME NEW g, Cardinality(Of(g)) >= Quorum, IsFiniteSet(Of(g))
        PROVE  SecretOnFile
    <3>1. PICK T \in SUBSET Of(g) : Cardinality(T) = Quorum
      BY <2>5, <2>6, EnoughOf
    <3>2. SignsTogether(T)
      BY <3>1 DEF SharesInv, ProgressInv, AloneInv, NoHalfWrittenConfig, SignsTogether, Key
    <3> QED
      BY <3>1, <3>2 DEF SecretOnFile
  <2>7. Cardinality(Of(a)) >= Quorum \/ Cardinality(Of(b)) >= Quorum
    BY <2>4, <2>5
  <2> QED
    BY <2>3, <2>6, <2>7
<1> QED
  BY <1>1, SharesInit, SharesNext, PTL DEF Spec

-----------------------------------------------------------------------------
\* Lost shares.  A refresh adds what no lost device has.

\* An active signer's lost shares sign with nobody's.
Dead == \A s \in Signer : signers[s] = "active" =>
          \A t \in Signer : Key(t) \notin lostShares[s]

\* Nobody holds what a flow not yet asked for will add.
Fresh(j) ==
  /\ \A t \in Signer : j \notin Key(t)
  /\ \A s \in Signer : \A g \in lostShares[s] : j \notin g

\* Nor is it on the devices of the signers who are, or will be, active.
Unseen(j) ==
  \A s \in Signer : signers[s] = "active" \/ s = lost[j] =>
    \A g \in lostShares[s] : j \notin g

DeadInv ==
  /\ ProgressInv
  /\ Dead
  /\ \A j \in Job : (task[j] = "none" => Fresh(j)) /\ (Busy(j) => Unseen(j))

LEMMA DeadInit == Init => DeadInv
<1> SUFFICES ASSUME Init PROVE DeadInv
  OBVIOUS
<1>1. \A s \in Signer : lostShares[s] = {} /\ Key(s) = {}
  BY DEF Init, StoreInit, Key, Blank
<1> QED
  BY <1>1, ProgressInit DEF DeadInv, Dead, Fresh, Unseen

LEMMA DeadTool ==
  ASSUME ~Overlap, DeadInv, NEW j \in Job, Tool(j)
  PROVE  DeadInv'
<1>a. ProgressInv /\ ProgressInv' /\ AloneInv /\ AloneInv' /\ StoreTypeOK /\ Progress(j)
  BY ProgressNext DEF Next, DeadInv, ProgressInv, AloneInv, TypeOK
<1>b. /\ ToolStep(j) /\ UNCHANGED <<signers, task, lostShares, lost>>
      /\ at[j] \in Signer /\ lost[j] \in Signer
  BY <1>a DEF Tool, ToolStep, ReadTorn, ReadKey, ReadPub, Load, Open, Write, Rename, RenameFails,
              StoreTypeOK
<1>c. /\ Busy(j) /\ task[j] # "none"
      /\ ~Rename(j) => config' = config
      /\ Rename(j) => config' = [config EXCEPT ![at[j]] = Edited(j)]
  BY <1>a, <1>b, WhatToolsWrite DEF Fits, AloneInv, Running
<1>d. \A k \in Job : Busy(k)' => k = j
  <2>1. Running(j)
    BY <1>a, <1>b, WhatToolsWrite
  <2>2. \A k \in Job \ {j} : ~Busy(k) /\ pc'[k] = pc[k]
    BY <1>a, <1>b, <1>c, OthersIdle
       DEF ToolStep, ReadTorn, Exit, ReadKey, ReadPub, Load, Open, Write, Rename, RenameFails,
           StoreTypeOK
  <2> QED
    BY <1>b, <2>2 DEF Busy, Running
<1>e. \A k \in Job : Busy(k)' => Unseen(k)'
  BY <1>b, <1>c, <1>d DEF DeadInv, Unseen
<1>1. CASE config' = config
  <2>1. \A s : Key(s)' = Key(s)
    BY <1>1 DEF Key
  <2>2. Dead'
    BY <1>b, <2>1 DEF DeadInv, Dead
  <2>3. \A k \in Job : task'[k] = "none" => Fresh(k)'
    BY <1>b, <2>1 DEF DeadInv, Fresh
  <2> QED
    BY <1>a, <1>e, <2>2, <2>3 DEF DeadInv
<1>2. CASE Rename(j)
  <2>1. \A s \in Signer : Key(s)' = IF s = at[j] THEN Edited(j).key_package ELSE Key(s)
    BY <1>a, <1>b, <1>c, <1>2 DEF Key, StoreTypeOK
  <2>2. /\ Editing(j) /\ field[j] \in {"key_package", "public_key_package"}
        /\ field[j] = "key_package" => Edited(j).key_package = NewValue(j)
        /\ field[j] = "public_key_package" => Edited(j).key_package = Key(at[j])
    BY <1>2, <1>a, EditedIs DEF Rename, Editing, Key, StoreTypeOK
  <2>3. \/ \E t \in Signer : Edited(j).key_package = Key(t)
        \/ Edited(j).key_package = Key(at[j]) \cup {j}
    <3>1. CASE mode[j] = "repair"
      <4>1. field[j] = "key_package" /\ \A s \in Signer \ {lost[j]} : Key(s) = pub[j]
        BY <1>a, <2>2, <3>1 DEF Progress
      <4>2. PICK t \in Signer : t # lost[j]
        BY <1>b, FirstConfig DEF Configs
      <4>3. NewValue(j) = pub[j]
        BY <3>1 DEF NewValue
      <4> QED
        BY <2>2, <4>1, <4>2, <4>3
    <3>2. CASE mode[j] = "refresh"
      <4>1. CASE field[j] = "key_package"
        <5>1. at[j] \in Nat
          BY <1>b, SignersAreNumbers
        <5>2. ~Rotated(j, at[j])
          BY <4>1, <5>1 DEF Rotated
        <5>3. Key(at[j]) = read[j][at[j]]
          BY <1>a, <1>b, <2>2, <3>2, <5>2 DEF Progress
        <5>4. NewValue(j) = read[j][at[j]] \cup {j}
          BY <3>2, <4>1 DEF NewValue
        <5> QED
          BY <2>2, <4>1, <5>3, <5>4
      <4>2. CASE field[j] = "public_key_package"
        BY <1>b, <2>2, <4>2
      <4> QED
        BY <2>2, <4>1, <4>2
    <3> QED
      BY <1>a, <3>1, <3>2 DEF StoreTypeOK, Mode
  <2>4. Dead'
    <3> SUFFICES ASSUME NEW s \in Signer, signers[s] = "active", NEW t \in Signer
                 PROVE  Key(t)' \notin lostShares[s]
      BY <1>b DEF Dead
    <3>1. \A u \in Signer : Key(u) \notin lostShares[s]
      BY DEF DeadInv, Dead
    <3>2. \A g \in lostShares[s] : j \notin g
      BY <1>c DEF DeadInv, Unseen
    <3>3. Edited(j).key_package \notin lostShares[s]
      BY <2>3, <3>1, <3>2
    <3> QED
      BY <2>1, <3>1, <3>3
  <2>5. ASSUME NEW k \in Job, task'[k] = "none" PROVE Fresh(k)'
    <3>1. Fresh(k) /\ k # j
      BY <1>b, <1>c, <2>5 DEF DeadInv
    <3>2. k \notin Edited(j).key_package
      BY <1>b, <2>3, <3>1 DEF Fresh
    <3> QED
      BY <1>b, <2>1, <3>1, <3>2 DEF Fresh
  <2> QED
    BY <1>a, <1>e, <2>4, <2>5 DEF DeadInv
<1> QED
  BY <1>1, <1>2, <1>c

LEMMA DeadNext ==
  ASSUME ~Overlap
  PROVE  DeadInv /\ [Next]_vars => DeadInv'
<1> SUFFICES ASSUME DeadInv, [Next]_vars PROVE DeadInv'
  OBVIOUS
<1>a. /\ ProgressInv /\ ProgressInv' /\ AloneInv /\ AloneInv' /\ StoreTypeOK
      /\ task \in [Job -> Task] /\ signers \in [Signer -> SignerStatus]
      /\ lostShares \in [Signer -> SUBSET Generation]
  BY ProgressNext DEF DeadInv, ProgressInv, AloneInv, TypeOK, RegistryTypeOK
<1>1. ASSUME UNCHANGED <<signers, lostShares, config, lost>>,
             \A j \in Job : /\ task'[j] = "none" => task[j] = "none"
                            /\ Busy(j)' => Busy(j)
      PROVE  DeadInv'
  <2>1. \A s : Key(s)' = Key(s)
    BY <1>1 DEF Key
  <2>2. Dead' /\ \A j \in Job : (Fresh(j)' <=> Fresh(j)) /\ (Unseen(j)' <=> Unseen(j))
    BY <1>1, <2>1 DEF DeadInv, Dead, Fresh, Unseen
  <2> QED
    BY <1>1, <1>a, <2>2 DEF DeadInv
<1>2. ASSUME NEW actor \in Signer, NEW id \in Signer, LoseSigner(actor, id) PROVE DeadInv'
  <2> DEFINE gone == {config[id].key_package : k \in {config[id].state} \cap {"whole"}}
  <2>1. /\ signers[id] # "lost" /\ signers' = [signers EXCEPT ![id] = "lost"]
        /\ lostShares' = [lostShares EXCEPT ![id] = @ \cup gone]
        /\ UNCHANGED <<storeVars, task>>
    BY <1>2 DEF LoseSigner, MarkLost
  <2>2. UNCHANGED <<config, pc, lost>>
    BY <2>1 DEF storeVars
  <2>3. \A g \in gone : g = Key(id)
    BY DEF Key
  <2> HIDE DEF gone
  <2>4. /\ \A s : Key(s)' = Key(s)
        /\ \A s \in Signer \ {id} : signers'[s] = signers[s] /\ lostShares'[s] = lostShares[s]
        /\ signers'[id] = "lost" /\ lostShares'[id] = lostShares[id] \cup gone
        /\ \A j \in Job : Busy(j)' <=> Busy(j)
    BY <1>a, <2>1, <2>2 DEF Key, Busy, Running
  <2>5. Dead'
    BY <2>4 DEF DeadInv, Dead
  <2>6. ASSUME NEW j \in Job, task'[j] = "none" PROVE Fresh(j)'
    <3>1. Fresh(j)
      BY <2>1, <2>6 DEF DeadInv
    <3> QED
      BY <2>3, <2>4, <3>1 DEF Fresh
  <2>7. ASSUME NEW j \in Job, Busy(j)' PROVE Unseen(j)'
    <3>1. Unseen(j) /\ signers[lost[j]] = "lost" /\ lost[j] # id
      BY <1>a, <2>1, <2>4, <2>7 DEF DeadInv, AloneInv, Fits
    <3> QED
      BY <2>2, <2>4, <3>1 DEF Unseen
  <2> QED
    BY <1>a, <2>5, <2>6, <2>7 DEF DeadInv
<1>3. ASSUME NEW actor \in Signer, NEW id \in Signer, NEW j \in Job, RepairSigner(actor, id, j)
      PROVE  DeadInv'
  <2>1. /\ UNCHANGED <<signers, lostShares, config>> /\ task[j] = "none"
        /\ task' = [task EXCEPT ![j] = "repair"]
    BY <1>3 DEF RepairSigner, Start
  <2>2. \A s : Key(s)' = Key(s)
    BY <2>1 DEF Key
  <2>3. task'[j] = "repair" /\ \A k \in Job \ {j} : task'[k] = task[k]
    BY <1>a, <2>1
  <2>4. Dead' /\ \A k \in Job : task'[k] = "none" => Fresh(k)'
    BY <2>1, <2>2, <2>3 DEF DeadInv, Dead, Fresh
  <2>5. Unseen(j)'
    BY <2>1 DEF DeadInv, Fresh, Unseen
  <2>6. \A k \in Job : Busy(k)' => k = j
    BY <1>a, <2>3 DEF AloneInv, Busy
  <2> QED
    BY <1>a, <2>4, <2>5, <2>6 DEF DeadInv
<1>4. ASSUME NEW j \in Job, RepairDone(j) PROVE DeadInv'
  <2>1. /\ UNCHANGED <<signers, lostShares, config>> /\ task[j] = "repair"
        /\ task' = [task EXCEPT ![j] = "refresh"] /\ pc' = [pc EXCEPT ![j] = "readKey"]
        /\ lost' = [lost EXCEPT ![j] = lost[j]]
    BY <1>4 DEF RepairDone, Start
  <2>2. lost' = lost /\ Busy(j)
    BY <1>a, <2>1 DEF Busy, StoreTypeOK
  <2>3. \A k \in Job : /\ task'[k] = "none" => task[k] = "none"
                       /\ Busy(k)' => Busy(k)
    BY <1>a, <2>1, <2>2 DEF Busy, Running, StoreTypeOK
  <2> QED
    BY <1>1, <2>1, <2>2, <2>3
<1>5. ASSUME NEW j \in Job, RecoveryFailed(j) PROVE DeadInv'
  <2>1. UNCHANGED <<signers, lostShares, config, lost, pc>> /\ task' = [task EXCEPT ![j] = "failed"]
    BY <1>5 DEF RecoveryFailed, storeVars
  <2>2. \A k \in Job : /\ task'[k] = "none" => task[k] = "none"
                       /\ Busy(k)' => Busy(k)
    BY <1>a, <2>1 DEF Busy, Running
  <2> QED
    BY <1>1, <2>1, <2>2
<1>6. ASSUME NEW j \in Job, RecoveryDone(j) PROVE DeadInv'
  <2>1. /\ task[j] = "refresh" /\ pc[j] = "exit0" /\ lost[j] \in Signer
        /\ signers' = [signers EXCEPT ![lost[j]] = "active"] \/ signers' = signers
        /\ task' = [task EXCEPT ![j] = "done"]
        /\ UNCHANGED <<lostShares, config, lost, pc>>
    BY <1>6, <1>a DEF RecoveryDone, Restore, storeVars, StoreTypeOK
  <2>2. Busy(j) /\ \A k \in Job \ {j} : ~Busy(k)
    BY <1>a, <2>1, OthersIdle DEF Busy
  <2>3. \A s : Key(s)' = Key(s)
    BY <2>1 DEF Key
  <2>4. task'[j] = "done" /\ \A k \in Job \ {j} : task'[k] = task[k]
    BY <1>a, <2>1
  <2>5. \A k \in Job : ~Busy(k)'
    BY <2>1, <2>2, <2>4 DEF Busy, Running
  <2>6. \A k \in Job : task'[k] = "none" => Fresh(k)'
    BY <2>1, <2>3, <2>4 DEF DeadInv, Fresh
  <2>7. \A t \in Signer : j \in Key(t)
    BY <1>a, <2>1 DEF Progress, ProgressInv
  <2>8. \A g \in lostShares[lost[j]] : j \notin g
    BY <2>1, <2>2 DEF DeadInv, Unseen
  <2>9. Dead'
    <3> SUFFICES ASSUME NEW s \in Signer, signers'[s] = "active", NEW t \in Signer
                 PROVE  Key(t) \notin lostShares[s]
      BY <2>1, <2>3 DEF Dead
    <3>1. CASE s = lost[j]
      BY <2>7, <2>8, <3>1
    <3>2. CASE s # lost[j]
      BY <1>a, <2>1, <3>2 DEF DeadInv, Dead
    <3> QED
      BY <3>1, <3>2
  <2> QED
    BY <1>a, <2>5, <2>6, <2>9 DEF DeadInv
<1>7. ASSUME NEW j \in Job, Tool(j) PROVE DeadInv'
  BY <1>7, DeadTool
<1>8. ASSUME NEW j \in Job, ToolFault(j) PROVE DeadInv'
  <2>1. /\ UNCHANGED <<signers, lostShares, config, lost, task>>
        /\ pc' = [pc EXCEPT ![j] = "exit1"]
    BY <1>8 DEF ToolFault, ToolDies, Exit
  <2>2. \A k \in Job : Busy(k)' => Busy(k)
    BY <1>a, <2>1 DEF Busy, Running, StoreTypeOK
  <2> QED
    BY <1>1, <2>1, <2>2
<1>9. CASE Crash
  <2>1. /\ UNCHANGED <<signers, lostShares, config, lost, pc>>
        /\ task' = [j \in Job |-> IF task[j] \in {"repair", "refresh"} THEN "gone" ELSE task[j]]
    BY <1>9 DEF Crash, storeVars
  <2>2. \A k \in Job : /\ task'[k] = "none" => task[k] = "none"
                       /\ Busy(k)' => Busy(k)
    BY <2>1 DEF Busy, Running
  <2> QED
    BY <1>1, <2>1, <2>2
<1>10. CASE Boot \/ UNCHANGED vars
  <2>1. UNCHANGED <<signers, lostShares, config, lost, pc, task>>
    BY <1>10 DEF Boot, vars, storeVars
  <2> QED
    BY <1>1, <2>1 DEF Busy, Running
<1> QED
  BY <1>2, <1>3, <1>4, <1>5, <1>6, <1>7, <1>8, <1>9, <1>10 DEF Next

\* "the old share is now dead": once a signer is active again, nothing lost with
\* a device of theirs signs with anyone's share, whatever failed before or since.
THEOREM OldSharesAreDeadAlone ==
  ASSUME ~Overlap
  PROVE  Spec => []OldSharesAreDead
<1>1. DeadInv => OldSharesAreDead
  BY DEF DeadInv, Dead, OldSharesAreDead, Key
<1> QED
  BY <1>1, DeadInit, DeadNext, PTL DEF Spec

-----------------------------------------------------------------------------
\* While every recovery so far ended well, the public key packages keep up.

Clean ==
  \A j \in Job : \/ task[j] \in {"none", "done"}
                 \/ task[j] \in {"repair", "refresh"} /\ pc[j] # "exit1"

Rotating(j) == mode[j] = "refresh" /\ Editing(j)

Together == \A s, t \in Signer : Key(s) = Public(t)

Half(j) ==
  \A s \in Signer : /\ read[j][s] = pub[j]
                    /\ Public(s) = IF s < at[j] THEN pub[j] \cup {j} ELSE pub[j]

CleanInv ==
  /\ ProgressInv
  /\ \A j \in Job : task[j] = "done" => pc[j] = "exit0"
  /\ Clean => /\ (\A j \in Job : ~Rotating(j)) => Together
              /\ \A j \in Job : Rotating(j) => Half(j)

LEMMA CleanInit == Init => CleanInv
<1> SUFFICES ASSUME Init PROVE CleanInv
  OBVIOUS
<1>1. \A s \in Signer : Public(s) = {} /\ Key(s) = {}
  BY DEF Init, StoreInit, Key, Public, Blank
<1>2. \A j \in Job : task[j] # "done" /\ ~Rotating(j)
  BY DEF Init, StoreInit, Rotating
<1> QED
  BY <1>1, <1>2, ProgressInit DEF CleanInv, Together

\* A process that runs while all is well is its task's.
LEMMA CleanTask ==
  ASSUME CleanInv, Clean, NEW j \in Job, Running(j)
  PROVE  task[j] \in {"repair", "refresh"} /\ mode[j] = task[j] /\ pc[j] # "exit1"
BY DEF CleanInv, Clean, ProgressInv, AloneInv, Fits, Running

LEMMA CleanRename ==
  ASSUME CleanInv, ProgressInv', Clean, NEW j \in Job, Rename(j), UNCHANGED task,
         \A k \in Job \ {j} : ~Rotating(k)
  PROVE  IF Rotating(j)' THEN Half(j)' ELSE Together'
<1> DEFINE rest == After(Signer, at[j])
           more == mode[j] = "refresh" /\ (field[j] = "key_package" \/ rest # {})
<1>a. AloneInv /\ StoreTypeOK /\ Progress(j) /\ Progress(j)'
        /\ at[j] \in Signer /\ lost[j] \in Signer
  BY DEF CleanInv, ProgressInv, AloneInv, TypeOK, StoreTypeOK
<1>b. Editing(j) /\ Running(j) /\ task[j] = mode[j]
  BY CleanTask DEF Rename, Editing, Running
<1>1. /\ UNCHANGED <<mode, lost, read, pub>>
      /\ config' = [config EXCEPT ![at[j]] = Edited(j)]
  BY <1>a, WhatToolsWrite DEF Rename, ToolStep
<1>2. /\ pc' = [pc EXCEPT ![j] = IF more THEN "load" ELSE "exit0"]
      /\ field' = [field EXCEPT ![j] =
                     IF more /\ @ = "key_package" THEN "public_key_package" ELSE "key_package"]
      /\ at' = [at EXCEPT ![j] =
                  IF more /\ field[j] = "public_key_package" THEN FirstOf(rest) ELSE @]
  BY DEF Rename
<1>3. \A s \in Signer :
        /\ Key(s)' = IF s = at[j] THEN Edited(j).key_package ELSE Key(s)
        /\ Public(s)' = IF s = at[j] THEN Edited(j).public_key_package ELSE Public(s)
  BY <1>1, <1>a DEF Key, Public, StoreTypeOK
<1>4. /\ field[j] \in {"key_package", "public_key_package"}
      /\ field[j] = "key_package" => /\ Edited(j).key_package = NewValue(j)
                                     /\ Edited(j).public_key_package = Public(at[j])
      /\ field[j] = "public_key_package" => /\ Edited(j).key_package = Key(at[j])
                                            /\ Edited(j).public_key_package = NewValue(j)
  BY <1>a, EditedIs DEF Key, Public, StoreTypeOK
<1>5. CASE mode[j] = "repair"
  <2>1. \A k \in Job : ~Rotating(k)
    BY <1>5 DEF Rotating
  <2>2. Together
    BY <2>1 DEF CleanInv
  <2>3. field[j] = "key_package" /\ \A s \in Signer \ {lost[j]} : Key(s) = pub[j]
    BY <1>a, <1>b, <1>5 DEF Progress
  <2>4. NewValue(j) = pub[j]
    BY <1>5 DEF NewValue
  <2>5. PICK t \in Signer : t # lost[j]
    <3>1. Configs("repair", lost[j]) # {}
      BY <1>a, ConfigsNamed
    <3> QED
      BY <3>1 DEF Configs
  <2>6. \A s \in Signer : Key(s)' = Key(t) /\ Public(s)' = Public(s)
    BY <1>3, <1>4, <2>2, <2>3, <2>4, <2>5 DEF Together
  <2>7. Together' /\ ~Rotating(j)'
    BY <1>1, <1>5, <2>2, <2>6 DEF Together, Rotating
  <2> QED
    BY <2>7
<1>6. CASE mode[j] = "refresh"
  <2>1. Half(j)
    BY <1>b, <1>6 DEF CleanInv, Rotating
  <2>2. \A s \in Signer : s \in Nat
    BY SignersAreNumbers
  <2>3. CASE field[j] = "key_package"
    <3>1. more
      BY <1>6, <2>3
    <3> HIDE DEF more
    <3>2. pc'[j] = "load" /\ at'[j] = at[j]
      BY <1>2, <1>a, <2>3, <3>1 DEF StoreTypeOK
    <3>3. \A s \in Signer : Public(s)' = Public(s)
      BY <1>3, <1>4, <2>3
    <3>4. Half(j)'
      BY <1>1, <2>1, <3>2, <3>3 DEF Half
    <3> QED
      BY <1>1, <1>6, <3>2, <3>4 DEF Rotating, Editing
  <2>4. CASE field[j] = "public_key_package"
    <3>1. NewValue(j) = pub[j] \cup {j}
      BY <1>6, <2>4 DEF NewValue
    <3>2. \A s \in Signer : Public(s)' = IF s <= at[j] THEN pub[j] \cup {j} ELSE pub[j]
      <4> TAKE s \in Signer
      <4>1. CASE s = at[j]
        <5>1. Public(s)' = pub[j] \cup {j}
          BY <1>3, <1>4, <2>4, <3>1, <4>1
        <5>2. s <= at[j]
          BY <2>2, <4>1
        <5> QED
          BY <5>1, <5>2
      <4>2. CASE s # at[j]
        <5>1. s < at[j] <=> s <= at[j]
          BY <1>a, <2>2, <4>2
        <5> QED
          BY <1>3, <2>1, <4>2, <5>1 DEF Half
      <4> QED
        BY <4>1, <4>2
    <3>3. CASE rest # {}
      <4>1. more
        BY <1>6, <3>3
      <4>2. /\ FirstOf(rest) \in Signer /\ FirstOf(rest) > at[j]
            /\ \A t \in Signer : t > at[j] => FirstOf(rest) <= t
        BY <3>3, NextConfig
      <4> HIDE DEF more, rest
      <4>3. pc'[j] = "load" /\ at'[j] = FirstOf(rest)
        BY <1>2, <1>a, <2>4, <4>1 DEF StoreTypeOK
      <4>4. \A s \in Signer : s < at'[j] <=> s <= at[j]
        BY <1>a, <2>2, <4>2, <4>3
      <4>5. Half(j)'
        BY <1>1, <2>1, <3>2, <4>4 DEF Half
      <4> QED
        BY <1>1, <1>6, <4>3, <4>5 DEF Rotating, Editing
    <3>4. CASE rest = {}
      <4>1. ~more
        BY <2>4, <3>4
      <4>2. \A s \in Signer : s <= at[j]
        BY <1>a, <2>2, <3>4 DEF After
      <4> HIDE DEF more
      <4>3. pc'[j] = "exit0"
        BY <1>2, <1>a, <4>1 DEF StoreTypeOK
      <4>4. \A s \in Signer : Key(s)' = read[j][s] \cup {j}
        BY <1>1, <1>a, <1>b, <1>6, <4>3 DEF Progress
      <4>5. \A s \in Signer : read[j][s] = pub[j] /\ Public(s)' = pub[j] \cup {j}
        BY <2>1, <3>2, <4>2 DEF Half
      <4>6. Together'
        BY <4>4, <4>5 DEF Together
      <4> QED
        BY <4>3, <4>6 DEF Rotating, Editing
    <3> QED
      BY <3>3, <3>4
  <2> QED
    BY <1>4, <2>3, <2>4
<1> QED
  BY <1>a, <1>5, <1>6 DEF StoreTypeOK, Mode

LEMMA CleanTool ==
  ASSUME ~Overlap, CleanInv, NEW j \in Job, Tool(j)
  PROVE  CleanInv'
<1>a. ProgressInv /\ ProgressInv' /\ AloneInv /\ StoreTypeOK /\ Progress(j)
  BY ProgressNext DEF Next, CleanInv, ProgressInv, AloneInv, TypeOK
<1>b. ToolStep(j) /\ UNCHANGED <<task, mode>>
  BY DEF Tool, ToolStep, ReadTorn, ReadKey, ReadPub, Load, Open, Write, Rename, RenameFails
<1>c. Running(j) /\ \A k \in Job \ {j} : ~Running(k) /\ pc'[k] = pc[k]
  BY <1>a, <1>b, WhatToolsWrite, OthersIdle
     DEF ToolStep, ReadTorn, Exit, ReadKey, ReadPub, Load, Open, Write, Rename, RenameFails,
         StoreTypeOK, Busy
<1>d. \A k \in Job : task'[k] = "done" => pc'[k] = "exit0"
  BY <1>b, <1>c DEF CleanInv, Running
<1>e. Clean' => Clean
  BY <1>b, <1>c DEF Clean, Running
<1>f. \A k \in Job \ {j} : ~Rotating(k) /\ ~Rotating(k)'
  BY <1>b, <1>c DEF Rotating, Editing, Running
<1>q. ASSUME Clean' => IF Rotating(j)' THEN Half(j)' ELSE Together'
      PROVE  CleanInv'
  BY <1>a, <1>d, <1>f, <1>q DEF CleanInv
<1>x. ASSUME pc'[j] = "exit1" PROVE ~Clean'
  <2>1. ~Clean \/ task[j] \in {"repair", "refresh"}
    BY <1>c, CleanTask
  <2> QED
    BY <1>b, <1>e, <1>x, <2>1 DEF Clean
<1>1. CASE Rename(j)
  BY <1>1, <1>a, <1>b, <1>e, <1>f, <1>q, CleanRename
<1>2. CASE ~Rename(j)
  <2>1. \A s : Key(s)' = Key(s) /\ Public(s)' = Public(s)
    BY <1>2, <1>a, <1>b, WhatToolsWrite DEF Key, Public
  <2>2. Together' <=> Together
    BY <2>1 DEF Together
  <2>3. CASE ReadTorn(j) \/ RenameFails(j)
    BY <1>a, <1>q, <1>x, <2>3 DEF ReadTorn, RenameFails, Exit, StoreTypeOK
  <2>4. CASE ReadKey(j)
    <3>1. ~Rotating(j) /\ ~Rotating(j)'
      BY <1>a, <2>4 DEF ReadKey, Rotating, Editing, StoreTypeOK
    <3> QED
      BY <1>e, <1>f, <1>q, <2>2, <3>1 DEF CleanInv
  <2>5. CASE ReadPub(j)
    <3> DEFINE package == Public(FirstOf(Mine(j)))
               verified == mode[j] = "refresh" \/ \A s \in Mine(j) : read[j][s] = package
    <3>1. /\ pc[j] = "readPub" /\ read' = read
          /\ pub' = [pub EXCEPT ![j] = package]
          /\ pc' = [pc EXCEPT ![j] = IF verified THEN "load" ELSE "exit1"]
          /\ at' = [at EXCEPT ![j] = IF mode[j] = "repair" THEN lost[j] ELSE FirstOf(Mine(j))]
      BY <2>5 DEF ReadPub, Public, Mine
    <3>2. ~Rotating(j)
      BY <3>1 DEF Rotating, Editing
    <3>3. Clean' => Together
      BY <1>e, <1>f, <3>2 DEF CleanInv
    <3>4. CASE mode[j] = "repair"
      BY <1>b, <1>q, <2>2, <3>3, <3>4 DEF Rotating
    <3>5. CASE mode[j] = "refresh"
      <4>1. Mine(j) = Signer
        BY <3>5 DEF Mine, Configs
      <4>2. FirstOf(Signer) \in Signer /\ \A s \in Signer : FirstOf(Signer) <= s
        BY SignersAreNumbers, FirstIsLeast
      <4>3. at'[j] = FirstOf(Signer) /\ pub'[j] = Public(FirstOf(Signer))
        <5> HIDE DEF verified
        <5> QED
          BY <1>a, <3>1, <3>5, <4>1 DEF StoreTypeOK
      <4>4. \A s \in Signer : ~(s < at'[j])
        <5> TAKE s \in Signer
        <5>1. s \in Nat /\ at'[j] \in Nat /\ at'[j] <= s
          BY <4>2, <4>3, SignersAreNumbers
        <5> QED
          BY <5>1
      <4>5. \A s \in Signer : read[j][s] = Key(s)
        BY <1>a, <3>1, <4>1 DEF Progress
      <4>6. Together => Half(j)'
        BY <2>1, <3>1, <4>2, <4>3, <4>4, <4>5 DEF Together, Half
      <4> QED
        BY <1>q, <2>2, <3>3, <4>6
    <3> QED
      BY <1>a, <3>4, <3>5 DEF StoreTypeOK, Mode
  <2>6. CASE Load(j) \/ Open(j) \/ Write(j)
    <3>1. Editing(j) /\ Editing(j)' /\ UNCHANGED <<read, pub, at>>
      BY <1>a, <2>6 DEF Load, Open, Write, Editing, StoreTypeOK
    <3>2. Rotating(j)' <=> Rotating(j)
      BY <1>b, <3>1 DEF Rotating
    <3>3. Half(j)' <=> Half(j)
      BY <2>1, <3>1 DEF Half
    <3> QED
      BY <1>e, <1>f, <1>q, <2>2, <3>2, <3>3 DEF CleanInv
  <2> QED
    BY <1>2, <1>b, <2>3, <2>4, <2>5, <2>6 DEF ToolStep
<1> QED
  BY <1>1, <1>2

LEMMA CleanNext ==
  ASSUME ~Overlap
  PROVE  CleanInv /\ [Next]_vars => CleanInv'
<1> SUFFICES ASSUME CleanInv, [Next]_vars PROVE CleanInv'
  OBVIOUS
<1>a. ProgressInv /\ ProgressInv' /\ AloneInv /\ AloneInv' /\ StoreTypeOK
        /\ task \in [Job -> Task]
  BY ProgressNext DEF CleanInv, ProgressInv, AloneInv, TypeOK
<1>1. ASSUME config' = config, Clean' => Clean,
             \A j \in Job : /\ task'[j] = "done" => pc'[j] = "exit0"
                            /\ Rotating(j)' <=> Rotating(j)
                            /\ Rotating(j) /\ Clean' => Half(j)'
      PROVE  CleanInv'
  <2>1. Together' <=> Together
    BY <1>1 DEF Together, Key, Public
  <2> QED
    BY <1>1, <1>a, <2>1 DEF CleanInv
<1>2. ASSUME UNCHANGED storeVars, Clean' => Clean,
             \A j \in Job : task'[j] = "done" => pc[j] = "exit0"
      PROVE  CleanInv'
  <2>1. \A j \in Job : (Rotating(j)' <=> Rotating(j)) /\ (Half(j)' <=> Half(j))
    BY <1>2 DEF storeVars, Rotating, Editing, Half, Public
  <2>2. UNCHANGED <<config, pc>>
    BY <1>2 DEF storeVars
  <2> QED
    BY <1>1, <1>2, <2>1, <2>2 DEF CleanInv
<1>3. ASSUME NEW j \in Job, UNCHANGED config, pc' = [pc EXCEPT ![j] = "readKey"], ~Running(j),
             task' = [task EXCEPT ![j] = "repair"] \/ task' = [task EXCEPT ![j] = "refresh"],
             Clean' => Clean, \A k \in Job \ {j} : ~Busy(k)
      PROVE  CleanInv'
  <2>1. pc'[j] = "readKey" /\ task'[j] # "done"
          /\ \A k \in Job \ {j} : pc'[k] = pc[k] /\ task'[k] = task[k]
    BY <1>3, <1>a DEF StoreTypeOK
  <2>2. \A k \in Job : ~Rotating(k) /\ ~Rotating(k)'
    BY <1>3, <2>1 DEF Rotating, Editing, Busy, Running
  <2>3. \A k \in Job : task'[k] = "done" => pc'[k] = "exit0"
    BY <2>1 DEF CleanInv
  <2> QED
    BY <1>1, <1>3, <2>2, <2>3
<1>4. ASSUME NEW actor \in Signer, NEW id \in Signer, NEW j \in Job, RepairSigner(actor, id, j)
      PROVE  CleanInv'
  <2>1. /\ config' = config /\ pc' = [pc EXCEPT ![j] = "readKey"] /\ \A k \in Job : ~Busy(k)
        /\ task[j] = "none" /\ task' = [task EXCEPT ![j] = "repair"]
    BY <1>4 DEF RepairSigner, Start
  <2>2. Clean' => Clean
    BY <1>a, <2>1 DEF Clean, StoreTypeOK
  <2> QED
    BY <1>3, <2>1, <2>2 DEF Busy
<1>5. ASSUME NEW j \in Job, RepairDone(j) PROVE CleanInv'
  <2>1. /\ config' = config /\ pc' = [pc EXCEPT ![j] = "readKey"] /\ Busy(j)
        /\ task[j] = "repair" /\ pc[j] = "exit0" /\ task' = [task EXCEPT ![j] = "refresh"]
    BY <1>5 DEF RepairDone, Start, Busy
  <2>2. Clean' => Clean
    BY <1>a, <2>1 DEF Clean, StoreTypeOK
  <2>3. \A k \in Job \ {j} : ~Busy(k)
    BY <1>a, <2>1, OthersIdle
  <2> QED
    BY <1>3, <2>1, <2>2, <2>3 DEF Running
<1>6. ASSUME NEW j \in Job, RecoveryFailed(j) PROVE CleanInv'
  <2>1. UNCHANGED storeVars /\ task' = [task EXCEPT ![j] = "failed"]
    BY <1>6 DEF RecoveryFailed
  <2>2. task'[j] = "failed" /\ \A k \in Job \ {j} : task'[k] = task[k]
    BY <1>a, <2>1
  <2>3. ~Clean'
    BY <2>2 DEF Clean
  <2> QED
    BY <1>2, <2>1, <2>2, <2>3 DEF CleanInv
<1>7. ASSUME NEW j \in Job, RecoveryDone(j) PROVE CleanInv'
  <2>1. /\ UNCHANGED storeVars /\ task' = [task EXCEPT ![j] = "done"]
        /\ task[j] = "refresh" /\ pc[j] = "exit0"
    BY <1>7 DEF RecoveryDone
  <2>2. task'[j] = "done" /\ pc' = pc /\ \A k \in Job \ {j} : task'[k] = task[k]
    BY <1>a, <2>1 DEF storeVars
  <2>3. Clean' => Clean
    BY <2>1, <2>2 DEF Clean
  <2> QED
    BY <1>2, <2>1, <2>2, <2>3 DEF CleanInv
<1>8. ASSUME NEW j \in Job, Tool(j) PROVE CleanInv'
  BY <1>8, CleanTool
<1>9. ASSUME NEW j \in Job, ToolFault(j) PROVE CleanInv'
  <2>1. /\ Running(j) /\ config' = config /\ UNCHANGED <<mode, task>>
        /\ pc' = [pc EXCEPT ![j] = "exit1"]
    BY <1>9 DEF ToolFault, ToolDies, Exit
  <2>2. pc'[j] = "exit1" /\ \A k \in Job \ {j} : pc'[k] = pc[k]
    BY <1>a, <2>1 DEF StoreTypeOK
  <2>3. task[j] # "done" /\ task[j] # "none"
    BY <1>a, <2>1 DEF CleanInv, AloneInv, Fits, Running
  <2>4. ~Clean'
    BY <2>1, <2>2, <2>3 DEF Clean
  <2>5. \A k \in Job : task'[k] = "done" => pc'[k] = "exit0"
    BY <2>1, <2>2, <2>3 DEF CleanInv
  <2> QED
    BY <1>a, <2>4, <2>5 DEF CleanInv
<1>10. ASSUME NEW actor \in Signer, NEW id \in Signer, LoseSigner(actor, id) PROVE CleanInv'
  <2>1. UNCHANGED storeVars /\ task' = task
    BY <1>10 DEF LoseSigner
  <2>2. Clean' <=> Clean
    BY <2>1 DEF storeVars, Clean
  <2> QED
    BY <1>2, <2>1, <2>2 DEF CleanInv
<1>11. CASE Crash
  <2>1. /\ UNCHANGED storeVars
        /\ task' = [k \in Job |-> IF task[k] \in {"repair", "refresh"} THEN "gone" ELSE task[k]]
    BY <1>11 DEF Crash
  <2>2. \A k \in Job : /\ task'[k] = "done" => task[k] = "done"
                       /\ task'[k] # "gone" => task'[k] = task[k]
    BY <2>1
  <2>3. pc' = pc
    BY <2>1 DEF storeVars
  <2>4. Clean' => Clean
    BY <2>2, <2>3 DEF Clean
  <2> QED
    BY <1>2, <2>1, <2>2, <2>4 DEF CleanInv
<1>12. CASE Boot \/ UNCHANGED vars
  <2>1. UNCHANGED storeVars /\ task' = task
    BY <1>12 DEF Boot, vars, storeVars
  <2>2. Clean' <=> Clean
    BY <2>1 DEF storeVars, Clean
  <2> QED
    BY <1>2, <2>1, <2>2 DEF CleanInv
<1> QED
  BY <1>4, <1>5, <1>6, <1>7, <1>8, <1>9, <1>10, <1>11, <1>12 DEF Next

\* "all shares must rotate together": when no recovery runs and none broke off,
\* any two signers sign together, and every config holds the public data the
\* next repair verifies its result against.
THEOREM RotatedTogetherAlone ==
  ASSUME ~Overlap
  PROVE  Spec => []RotatedTogether
<1>1. CleanInv => RotatedTogether
  <2> SUFFICES ASSUME CleanInv, \A j \in Job : task[j] \in {"none", "done"},
                      NEW s \in Signer, NEW t \in Signer
               PROVE  config[s].state = "whole" /\ config[s].key_package = config[t].public_key_package
    BY DEF RotatedTogether
  <2>1. Clean
    BY DEF Clean
  <2>2. \A j \in Job : ~Rotating(j)
    BY DEF CleanInv, ProgressInv, AloneInv, Fits, Rotating, Editing
  <2>3. Together
    BY <2>1, <2>2 DEF CleanInv
  <2>4. config[s].state = "whole"
    BY DEF CleanInv, ProgressInv, AloneInv, NoHalfWrittenConfig
  <2> QED
    BY <2>3, <2>4 DEF Together, Key, Public
<1> QED
  BY <1>1, CleanInit, CleanNext, PTL DEF Spec

\* Enough signers left are a threshold to pick from.
LEMMA ThresholdOfNotLost ==
  ASSUME ThresholdKept
  PROVE  \E T \in SUBSET NotLost : Cardinality(T) = Quorum
<1>1. IsFiniteSet(NotLost) /\ Quorum \in Nat
  BY GroupAssumption, FS_Subset DEF NotLost
<1> QED
  BY <1>1, EnoughOf DEF ThresholdKept

\* "Treasury address unchanged" (main.rs:707): when every recovery asked for has
\* reported recovery.done, a threshold of signers who can authenticate signs for
\* the address, whatever the size of the group, as long as recoveries do not
\* overlap.
THEOREM DoneKeepsTreasuryAlone ==
  ASSUME ~Overlap
  PROVE  Spec => []DoneKeepsTreasury
<1>1. RotatedTogether /\ ThresholdKept => DoneKeepsTreasury
  <2> SUFFICES ASSUME RotatedTogether, ThresholdKept, \A j \in Job : task[j] \in {"none", "done"}
               PROVE  ActiveCanSign
    BY DEF DoneKeepsTreasury
  <2>1. PICK T \in SUBSET NotLost : Cardinality(T) = Quorum
    BY ThresholdOfNotLost
  <2>2. \A s, t \in Signer :
          config[s].state = "whole" /\ config[s].key_package = config[t].public_key_package
    BY DEF RotatedTogether
  <2>3. SignsTogether(T)
    BY <2>1, <2>2 DEF SignsTogether, NotLost
  <2> QED
    BY <2>1, <2>3 DEF ActiveCanSign
<1> QED
  BY <1>1, RotatedTogetherAlone, RecoveryKeepsThreshold, PTL

-----------------------------------------------------------------------------
\* While no refresh broke off, the configs hold one polynomial except between
\* the first and the last write of a refresh.

Unbroken == \A j \in Job : mode[j] = "refresh" => pc[j] # "exit1"

OneShare == \A s, t \in Signer : Key(s) = Key(t)

AgreeInv ==
  /\ SharesInv
  /\ Unbroken /\ (\A j \in Job : ~Rotating(j)) => OneShare

LEMMA AgreeInit == Init => AgreeInv
<1> SUFFICES ASSUME Init PROVE AgreeInv
  OBVIOUS
<1>1. \A s \in Signer : Key(s) = {}
  BY DEF Init, StoreInit, Key, Blank
<1> QED
  BY <1>1, SharesInit DEF AgreeInv, OneShare

\* A repair leaves its helpers' value in the lost config; a refresh that has
\* more to write goes on, and one that has not has written every share.
LEMMA AgreeRename ==
  ASSUME ~Overlap, AgreeInv, NEW j \in Job, Rename(j), ~Rotating(j)'
  PROVE  OneShare'
<1> DEFINE rest == After(Signer, at[j])
           more == mode[j] = "refresh" /\ (field[j] = "key_package" \/ rest # {})
<1>a. /\ AloneInv /\ StoreTypeOK /\ Progress(j) /\ RefreshAgrees(j)
      /\ at[j] \in Signer /\ lost[j] \in Signer
  BY DEF AgreeInv, SharesInv, ProgressInv, AloneInv, TypeOK, StoreTypeOK
<1>b. /\ Editing(j) /\ UNCHANGED mode
      /\ config' = [config EXCEPT ![at[j]] = Edited(j)]
      /\ pc' = [pc EXCEPT ![j] = IF more THEN "load" ELSE "exit0"]
  BY <1>a, WhatToolsWrite DEF Rename, Editing, ToolStep
<1>3. \A s \in Signer : Key(s)' = IF s = at[j] THEN Edited(j).key_package ELSE Key(s)
  BY <1>a, <1>b DEF Key, StoreTypeOK
<1>4. /\ field[j] \in {"key_package", "public_key_package"}
      /\ field[j] = "key_package" => Edited(j).key_package = NewValue(j)
      /\ field[j] = "public_key_package" => Edited(j).key_package = Key(at[j])
  BY <1>a, EditedIs DEF Key, StoreTypeOK
<1>5. CASE mode[j] = "repair"
  <2>1. /\ field[j] = "key_package" /\ at[j] = lost[j]
        /\ \A s \in Signer \ {lost[j]} : Key(s) = pub[j]
    BY <1>a, <1>b, <1>5 DEF Progress
  <2>2. NewValue(j) = pub[j]
    BY <1>5 DEF NewValue
  <2>3. \A s \in Signer : Key(s)' = pub[j]
    BY <1>3, <1>4, <2>1, <2>2
  <2> QED
    BY <2>3 DEF OneShare
<1>6. CASE mode[j] = "refresh"
  <2>1. ~more
    <3>1. ASSUME more PROVE FALSE
      <4> HIDE DEF more
      <4>1. pc'[j] = "load" /\ mode'[j] = "refresh"
        BY <1>a, <1>b, <1>6, <3>1 DEF StoreTypeOK
      <4> QED
        BY <4>1 DEF Rotating, Editing
    <3> QED
      BY <3>1
  <2>2. field[j] = "public_key_package" /\ rest = {}
    BY <1>4, <1>6, <2>1
  <2>3. \A s \in Signer : s \in Nat
    BY SignersAreNumbers
  <2>4. \A s \in Signer : Rotated(j, s)
    BY <1>a, <2>2, <2>3 DEF Rotated, After
  <2>5. \A s \in Signer : Key(s) = read[j][s] \cup {j}
    BY <1>a, <1>b, <1>6, <2>4 DEF Progress
  <2>6. \A s \in Signer : Key(s)' = read[j][s] \cup {j}
    BY <1>3, <1>4, <2>2, <2>5
  <2>7. \A s, t \in Signer : read[j][s] = read[j][t]
    BY <1>a, <1>b, <1>6 DEF RefreshAgrees
  <2> QED
    BY <2>6, <2>7 DEF OneShare
<1> QED
  BY <1>a, <1>5, <1>6 DEF StoreTypeOK, Mode

LEMMA AgreeTool ==
  ASSUME ~Overlap, AgreeInv, NEW j \in Job, Tool(j)
  PROVE  AgreeInv'
<1>a. SharesInv /\ SharesInv' /\ AloneInv /\ StoreTypeOK
  BY SharesTool DEF AgreeInv, SharesInv, ProgressInv, AloneInv, TypeOK
<1>b. ToolStep(j) /\ UNCHANGED <<task, mode>>
  BY DEF Tool, ToolStep, ReadTorn, ReadKey, ReadPub, Load, Open, Write, Rename, RenameFails
<1>c. Running(j) /\ \A k \in Job \ {j} : ~Running(k) /\ pc'[k] = pc[k]
  BY <1>a, <1>b, WhatToolsWrite, OthersIdle
     DEF ToolStep, ReadTorn, Exit, ReadKey, ReadPub, Load, Open, Write, Rename, RenameFails,
         StoreTypeOK, Busy
<1>1. CASE Rename(j)
  BY <1>1, <1>a, AgreeRename DEF AgreeInv
<1>2. CASE ~Rename(j)
  <2>1. OneShare' <=> OneShare
    <3>1. \A s : Key(s)' = Key(s)
      BY <1>2, <1>a, <1>b, WhatToolsWrite DEF Key
    <3> QED
      BY <3>1 DEF OneShare
  <2>2. Unbroken' => Unbroken
    BY <1>b, <1>c DEF Unbroken, Running
  <2>3. ASSUME Unbroken', \A k \in Job : ~Rotating(k)' PROVE \A k \in Job : ~Rotating(k)
    <3>1. \A k \in Job \ {j} : ~Rotating(k)
      BY <1>c DEF Rotating, Editing, Running
    <3>2. ASSUME Rotating(j) PROVE FALSE
      <4>1. mode'[j] = "refresh" /\ Editing(j)
        BY <1>b, <3>2 DEF Rotating
      <4>2. pc'[j] # "exit1" /\ ~Editing(j)'
        BY <2>3, <4>1 DEF Unbroken, Rotating
      <4>3. CASE ReadTorn(j) \/ RenameFails(j)
        BY <1>a, <4>2, <4>3 DEF ReadTorn, RenameFails, Exit, StoreTypeOK
      <4>4. CASE ReadKey(j) \/ ReadPub(j)
        BY <4>1, <4>4 DEF ReadKey, ReadPub, Editing
      <4>5. CASE Load(j) \/ Open(j) \/ Write(j)
        BY <1>a, <4>2, <4>5 DEF Load, Open, Write, Editing, StoreTypeOK
      <4> QED
        BY <1>2, <1>b, <4>3, <4>4, <4>5 DEF ToolStep
    <3> QED
      BY <3>1, <3>2
  <2> QED
    BY <1>a, <2>1, <2>2, <2>3 DEF AgreeInv
<1> QED
  BY <1>1, <1>2

LEMMA AgreeNext ==
  ASSUME ~Overlap
  PROVE  AgreeInv /\ [Next]_vars => AgreeInv'
<1> SUFFICES ASSUME AgreeInv, [Next]_vars PROVE AgreeInv'
  OBVIOUS
<1>a. SharesInv /\ SharesInv' /\ ProgressInv /\ AloneInv /\ StoreTypeOK /\ task \in [Job -> Task]
  BY SharesNext DEF AgreeInv, SharesInv, ProgressInv, AloneInv, TypeOK
<1>q. ASSUME config' = config, Unbroken' => Unbroken,
             Unbroken' /\ (\A j \in Job : ~Rotating(j)') => \A j \in Job : ~Rotating(j)
      PROVE  AgreeInv'
  <2>1. OneShare' <=> OneShare
    BY <1>q DEF OneShare, Key
  <2> QED
    BY <1>a, <1>q, <2>1 DEF AgreeInv
<1>1. ASSUME UNCHANGED storeVars PROVE AgreeInv'
  <2>1. UNCHANGED <<config, mode, pc>>
    BY <1>1 DEF storeVars
  <2> QED
    BY <1>q, <2>1 DEF Unbroken, Rotating, Editing
<1>2. ASSUME NEW j \in Job, UNCHANGED config, ~Running(j), pc[j] # "exit1",
             pc' = [pc EXCEPT ![j] = "readKey"],
             \A k \in Job \ {j} : ~Running(k) /\ mode'[k] = mode[k]
      PROVE  AgreeInv'
  <2>1. \A k \in Job : ~Rotating(k)
    BY <1>2 DEF Rotating, Editing, Running
  <2>2. \A k \in Job \ {j} : pc'[k] = pc[k]
    BY <1>a, <1>2 DEF StoreTypeOK
  <2>3. Unbroken' => Unbroken
    BY <1>2, <2>2 DEF Unbroken
  <2> QED
    BY <1>2, <1>q, <2>1, <2>3
<1>3. ASSUME NEW actor \in Signer, NEW id \in Signer, NEW j \in Job, RepairSigner(actor, id, j)
      PROVE  AgreeInv'
  <2>1. /\ config' = config /\ pc' = [pc EXCEPT ![j] = "readKey"] /\ \A k \in Job : ~Busy(k)
        /\ task[j] = "none" /\ mode' = [mode EXCEPT ![j] = "repair"]
    BY <1>3 DEF RepairSigner, Start
  <2>2. pc[j] = "none" /\ \A k \in Job \ {j} : mode'[k] = mode[k]
    BY <1>a, <2>1 DEF AloneInv, Fits, StoreTypeOK
  <2> QED
    BY <1>2, <2>1, <2>2 DEF Busy
<1>4. ASSUME NEW j \in Job, RepairDone(j) PROVE AgreeInv'
  <2>1. /\ config' = config /\ pc' = [pc EXCEPT ![j] = "readKey"] /\ Busy(j)
        /\ pc[j] = "exit0" /\ mode' = [mode EXCEPT ![j] = "refresh"]
    BY <1>4 DEF RepairDone, Start, Busy
  <2>2. \A k \in Job \ {j} : ~Busy(k) /\ mode'[k] = mode[k]
    BY <1>a, <2>1, OthersIdle DEF StoreTypeOK
  <2> QED
    BY <1>2, <2>1, <2>2 DEF Busy, Running
<1>5. ASSUME NEW j \in Job, ToolFault(j) PROVE AgreeInv'
  <2>1. Running(j) /\ config' = config /\ mode' = mode /\ pc' = [pc EXCEPT ![j] = "exit1"]
    BY <1>5 DEF ToolFault, ToolDies, Exit
  <2>2. pc'[j] = "exit1" /\ \A k \in Job \ {j} : pc'[k] = pc[k]
    BY <1>a, <2>1 DEF StoreTypeOK
  <2>3. Unbroken' => Unbroken /\ mode[j] # "refresh"
    BY <2>1, <2>2 DEF Unbroken, Running
  <2> QED
    BY <1>q, <2>1, <2>2, <2>3 DEF Rotating, Editing
<1>6. ASSUME NEW j \in Job, Tool(j) PROVE AgreeInv'
  BY <1>6, AgreeTool
<1>7. CASE UNCHANGED vars
  BY <1>1, <1>7 DEF vars, storeVars
<1>8. ASSUME NEW actor \in Signer, NEW id \in Signer, LoseSigner(actor, id) PROVE AgreeInv'
  BY <1>1, <1>8 DEF LoseSigner
<1>9. ASSUME NEW j \in Job, RecoveryFailed(j) \/ RecoveryDone(j) PROVE AgreeInv'
  BY <1>1, <1>9 DEF RecoveryFailed, RecoveryDone
<1>10. CASE Crash \/ Boot
  BY <1>1, <1>10 DEF Crash, Boot
<1> QED
  BY <1>3, <1>4, <1>5, <1>6, <1>7, <1>8, <1>9, <1>10 DEF Next

\* "Any two of three signers can authorize a payment": unless a refresh is under
\* way or broke off, every threshold of the signers who can authenticate signs
\* together, whatever repairs failed, tools died or servers crashed before.
THEOREM AnyQuorumSignsAlone ==
  ASSUME ~Overlap
  PROVE  Spec => []AnyQuorumSigns
<1>1. AgreeInv => AnyQuorumSigns
  <2> SUFFICES ASSUME AgreeInv, \A j \in Job : mode[j] = "refresh" => pc[j] = "exit0",
                      NEW S \in SUBSET NotLost
               PROVE  SignsTogether(S)
    BY DEF AnyQuorumSigns
  <2>1. Unbroken /\ \A j \in Job : ~Rotating(j)
    BY DEF Unbroken, Rotating, Editing
  <2>2. \A s, t \in Signer : Key(s) = Key(t)
    BY <2>1 DEF AgreeInv, OneShare
  <2>3. \A s \in Signer : config[s].state = "whole"
    BY DEF AgreeInv, SharesInv, ProgressInv, AloneInv, NoHalfWrittenConfig
  <2> QED
    BY <2>2, <2>3 DEF SignsTogether, NotLost, Key
<1> QED
  BY <1>1, AgreeInit, AgreeNext, PTL DEF Spec
=============================================================================
