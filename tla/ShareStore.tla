----------------------------- MODULE ShareStore -----------------------------
(***************************************************************************)
(* The rime-repair tool on the frost-client configs.  Each Job is one run  *)
(* of the recovery flow, and so at most one `repair` and one `refresh`     *)
(* process of its own; several may run at once, and each may be killed.    *)
(*                                                                         *)
(* A share is a point of a polynomial that hides the group secret.  refresh*)
(* adds a fresh random polynomial with a zero secret, so a share is named  *)
(* by the set of refreshes added to it: shares of the same set combine to  *)
(* the group secret, shares of different sets do not (but for a chance the *)
(* field makes negligible).  A public key package is named alike.          *)
(***************************************************************************)
EXTENDS Group

CONSTANT Job  \* bound: the recovery flows that may be started

\* A signer is its FROST identifier, and rime-server.toml lists them in order.
\* A threshold of two at least: rime-repair refuses fewer than two helpers.
ASSUME StoreAssumption ==
  /\ Signer = 1..Cardinality(Signer)
  /\ Quorum \in 2..Cardinality(Signer)

VARIABLES
  config,  \* the frost-client config each signer's path names
  tmp,     \* the file .<name>.rime-tmp beside it
  mode,    \* the subcommand the job's process runs
  pc,      \* where that process is
  lost,    \* --lost
  at,      \* the signer whose config is being read or written
  field,   \* the field being written
  read,    \* the key packages read so far
  pub,     \* the public key package read
  doc,     \* the document to be written
  fd       \* the file the open temporary descriptor refers to


storeVars == <<config, tmp, mode, pc, lost, at, field, read, pub, doc, fd>>

Generation == SUBSET Job
File == [state : {"whole", "torn", "absent"}, key_package : Generation,
         public_key_package : Generation]
Blank(state) == [state |-> state, key_package |-> {}, public_key_package |-> {}]

Mode == {"repair", "refresh"}
Pc == {"none", "readKey", "readPub", "load", "open", "write", "rename", "exit0", "exit1"}

StoreTypeOK ==
  /\ config \in [Signer -> File]
  /\ tmp \in [Signer -> File]
  /\ mode \in [Job -> Mode]
  /\ pc \in [Job -> Pc]
  /\ lost \in [Job -> Signer]
  /\ at \in [Job -> Signer]
  /\ field \in [Job -> {"key_package", "public_key_package"}]
  /\ read \in [Job -> [Signer -> Generation]]
  /\ pub \in [Job -> Generation]
  /\ doc \in [Job -> File]
  /\ fd \in [Job -> {"closed", "tmp", "path", "unlinked"}]

\* Keygen left every signer a share of the same, never refreshed, polynomial.
StoreInit ==
  /\ config = [s \in Signer |-> Blank("whole")]
  /\ tmp = [s \in Signer |-> Blank("absent")]
  /\ mode = [j \in Job |-> "repair"]
  /\ pc = [j \in Job |-> "none"]
  /\ lost = [j \in Job |-> 1]
  /\ at = [j \in Job |-> 1]
  /\ field = [j \in Job |-> "key_package"]
  /\ read = [j \in Job |-> [s \in Signer |-> {}]]
  /\ pub = [j \in Job |-> {}]
  /\ doc = [j \in Job |-> Blank("absent")]
  /\ fd = [j \in Job |-> "closed"]

Running(j) == pc[j] \notin {"none", "exit0", "exit1"}

-----------------------------------------------------------------------------
\* The configs the command line names, in order: repair gets the helpers, all
\* signers but the lost one; refresh gets all.
Configs(m, id) == IF m = "repair" THEN Signer \ {id} ELSE Signer
FirstOf(S) == CHOOSE s \in S : \A t \in S : s <= t
After(S, s) == {t \in S : t > s}

Start(j, m, id) ==
  /\ mode' = [mode EXCEPT ![j] = m]
  /\ lost' = [lost EXCEPT ![j] = id]
  /\ at' = [at EXCEPT ![j] = FirstOf(Configs(m, id))]
  /\ pc' = [pc EXCEPT ![j] = "readKey"]
  /\ read' = [read EXCEPT ![j] = [s \in Signer |-> {}]]
  /\ field' = [field EXCEPT ![j] = "key_package"]
  /\ UNCHANGED <<config, tmp, pub, doc, fd>>

Exit(j, code) ==
  /\ pc' = [pc EXCEPT ![j] = code]
  /\ fd' = [fd EXCEPT ![j] = "closed"]

\* A torn config has no group table: every read of it is an error.
ReadTorn(j) ==
  /\ \/ pc[j] \in {"readKey", "load"} /\ config[at[j]].state = "torn"
     \/ pc[j] = "readPub" /\ config[FirstOf(Configs(mode[j], lost[j]))].state = "torn"
  /\ Exit(j, "exit1")
  /\ UNCHANGED <<config, tmp, mode, lost, at, field, read, pub, doc>>

\* read_key_package of the next config on the command line.
ReadKey(j) ==
  LET rest == After(Configs(mode[j], lost[j]), at[j]) IN
  /\ pc[j] = "readKey"
  /\ config[at[j]].state = "whole"
  /\ read' = [read EXCEPT ![j][at[j]] = config[at[j]].key_package]
  /\ IF rest # {}
     THEN at' = [at EXCEPT ![j] = FirstOf(rest)] /\ UNCHANGED pc
     ELSE pc' = [pc EXCEPT ![j] = "readPub"] /\ UNCHANGED at
  /\ UNCHANGED <<config, tmp, mode, lost, field, pub, doc, fd>>

\* Mutants of ReadPub: nothing, or the first helper's share only, is verified.
ReadPubUnverified(j) ==
  LET S == Configs(mode[j], lost[j]) IN
  /\ pc[j] = "readPub"
  /\ config[FirstOf(S)].state = "whole"
  /\ pub' = [pub EXCEPT ![j] = config[FirstOf(S)].public_key_package]
  /\ pc' = [pc EXCEPT ![j] = "load"]
  /\ at' = [at EXCEPT ![j] = IF mode[j] = "repair" THEN lost[j] ELSE FirstOf(S)]
  /\ UNCHANGED <<config, tmp, mode, lost, field, read, doc, fd>>

ReadPubFirstHelper(j) ==
  LET S == Configs(mode[j], lost[j])
      package == config[FirstOf(S)].public_key_package
      verified == mode[j] = "refresh" \/ read[j][FirstOf(S)] = package IN
  /\ pc[j] = "readPub"
  /\ config[FirstOf(S)].state = "whole"
  /\ pub' = [pub EXCEPT ![j] = package]
  /\ pc' = [pc EXCEPT ![j] = IF verified THEN "load" ELSE "exit1"]
  /\ at' = [at EXCEPT ![j] = IF mode[j] = "repair" THEN lost[j] ELSE FirstOf(S)]
  /\ UNCHANGED <<config, tmp, mode, lost, field, read, doc, fd>>

\* The public key package of the first config.  repair recomputes the lost
\* share and bails when it does not map to the verifying share recorded there.
ReadPub(j) ==
  LET S == Configs(mode[j], lost[j])
      package == config[FirstOf(S)].public_key_package
      verified == mode[j] = "refresh" \/ \A s \in S : read[j][s] = package IN
  /\ pc[j] = "readPub"
  /\ config[FirstOf(S)].state = "whole"
  /\ pub' = [pub EXCEPT ![j] = package]
  /\ pc' = [pc EXCEPT ![j] = IF verified THEN "load" ELSE "exit1"]
  /\ at' = [at EXCEPT ![j] = IF mode[j] = "repair" THEN lost[j] ELSE FirstOf(S)]
  /\ UNCHANGED <<config, tmp, mode, lost, field, read, doc, fd>>

\* Mutant of NewValue: refresh puts the public key package back as it was.
NewValueKeepsPublic(j) ==
  IF mode[j] = "refresh" /\ field[j] = "key_package"
  THEN read[j][at[j]] \cup {j} ELSE pub[j]

\* Mutant of NewValue: refresh spares the share its own flow has just repaired.
NewValueSparesRepaired(j) ==
  CASE mode[j] = "repair" -> pub[j]
    [] mode[j] = "refresh" /\ field[j] = "key_package" ->
         IF at[j] = lost[j] THEN read[j][at[j]] ELSE read[j][at[j]] \cup {j}
    [] mode[j] = "refresh" /\ field[j] = "public_key_package" -> pub[j] \cup {j}

\* What the process writes into the field: the repaired share, or the share
\* and the public key package with this job's refresh added.
NewValue(j) ==
  CASE mode[j] = "repair" -> pub[j]
    [] mode[j] = "refresh" /\ field[j] = "key_package" -> read[j][at[j]] \cup {j}
    [] mode[j] = "refresh" /\ field[j] = "public_key_package" -> pub[j] \cup {j}

\* write_group_field: read the file again, replace one field of the document.
Load(j) ==
  /\ pc[j] = "load"
  /\ config[at[j]].state = "whole"
  /\ doc' = [doc EXCEPT ![j] = [config[at[j]] EXCEPT ![field[j]] = NewValue(j)]]
  /\ pc' = [pc EXCEPT ![j] = "open"]
  /\ UNCHANGED <<config, tmp, mode, lost, at, field, read, pub, fd>>

\* Mutant of Open: the config itself is truncated and written in place.
OpenInPlace(j) ==
  /\ pc[j] = "open"
  /\ config' = [config EXCEPT ![at[j]] = Blank("torn")]
  /\ fd' = [fd EXCEPT ![j] = "path"]
  /\ pc' = [pc EXCEPT ![j] = "write"]
  /\ UNCHANGED <<tmp, mode, lost, at, field, read, pub, doc>>

\* Create or truncate the temporary file: its name is the same for every process.
Open(j) ==
  /\ pc[j] = "open"
  /\ tmp' = [tmp EXCEPT ![at[j]] = Blank("torn")]
  /\ fd' = [fd EXCEPT ![j] = "tmp"]
  /\ pc' = [pc EXCEPT ![j] = "write"]
  /\ UNCHANGED <<config, mode, lost, at, field, read, pub, doc>>

\* write_all and fsync go to the file the descriptor was opened on, wherever
\* another process's rename has put it meanwhile.
Write(j) ==
  /\ pc[j] = "write"
  /\ tmp' = IF fd[j] = "tmp" THEN [tmp EXCEPT ![at[j]] = doc[j]] ELSE tmp
  /\ config' = IF fd[j] = "path" THEN [config EXCEPT ![at[j]] = doc[j]] ELSE config
  /\ pc' = [pc EXCEPT ![j] = "rename"]
  /\ UNCHANGED <<mode, lost, at, field, read, pub, doc, fd>>

\* What the other descriptors on s's files refer to after tmp replaced path.
Moved(j, s) ==
  [k \in Job |->
     CASE k = j -> "closed"
       [] k # j /\ at[k] = s /\ fd[k] = "tmp" -> "path"
       [] k # j /\ at[k] = s /\ fd[k] = "path" -> "unlinked"
       [] OTHER -> fd[k]]

\* rename, and on to the next field, the next config or the end of main.
Rename(j) ==
  LET s == at[j]
      rest == After(Signer, s)
      more == mode[j] = "refresh" /\ (field[j] = "key_package" \/ rest # {}) IN
  /\ pc[j] = "rename"
  /\ tmp[s].state # "absent"
  /\ config' = [config EXCEPT ![s] = tmp[s]]
  /\ tmp' = [tmp EXCEPT ![s] = Blank("absent")]
  /\ fd' = Moved(j, s)
  /\ pc' = [pc EXCEPT ![j] = IF more THEN "load" ELSE "exit0"]
  /\ field' = [field EXCEPT ![j] =
                 IF more /\ @ = "key_package" THEN "public_key_package" ELSE "key_package"]
  /\ at' = [at EXCEPT ![j] =
              IF more /\ field[j] = "public_key_package" THEN FirstOf(rest) ELSE @]
  /\ UNCHANGED <<mode, lost, read, pub, doc>>

\* Another process renamed the shared temporary file away: ENOENT.
RenameFails(j) ==
  /\ pc[j] = "rename"
  /\ tmp[at[j]].state = "absent"
  /\ Exit(j, "exit1")
  /\ UNCHANGED <<config, tmp, mode, lost, at, field, read, pub, doc>>

\* The process is killed or an I/O call fails: it stops where it is.
ToolDies(j) ==
  /\ Running(j)
  /\ Exit(j, "exit1")
  /\ UNCHANGED <<config, tmp, mode, lost, at, field, read, pub, doc>>

ToolStep(j) ==
  \/ ReadTorn(j) \/ ReadKey(j) \/ ReadPub(j)
  \/ Load(j) \/ Open(j) \/ Write(j) \/ Rename(j) \/ RenameFails(j)

-----------------------------------------------------------------------------
\* A set of configs whose shares sign together for the group key.
SignsTogether(S) ==
  /\ \A s \in S : config[s].state = "whole"
  /\ \A s, t \in S : config[s].key_package = config[t].key_package

\* The group secret is not gone from the configs: a threshold of them, the lost
\* signers' among them, holds shares of one polynomial.  It says nothing of who
\* can use those shares: see ActiveCanSign for the signers who may act.
SecretOnFile ==
  \E S \in SUBSET Signer : Cardinality(S) = Quorum /\ SignsTogether(S)

\* write_atomic_owner_only's comment (rime-repair/src/main.rs:268): "no reader
\* ever sees a world-readable or half-written config".
NoHalfWrittenConfig == \A s \in Signer : config[s].state = "whole"
=============================================================================
