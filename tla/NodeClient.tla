------------------------------ MODULE NodeClient ------------------------------
(***************************************************************************)
(* One operator's machine in front of the registry: the commands of        *)
(* node-client (main.rs) and the wallet key file every one of them loads   *)
(* or creates first (wallet.rs).  Commands run side by side and any of     *)
(* them may die; the file system keeps what was done so far.               *)
(*                                                                         *)
(* A key and the public key a node registers with are the same element of  *)
(* Nodes here, and generate() never returns a key twice.  A command that   *)
(* finds a key file it cannot parse ends with an error and changes nothing *)
(* ("invalid wallet key"), so it has no action.                            *)
(***************************************************************************)
EXTENDS NodeRegistry

CONSTANTS
  Commands,     \* node-client processes that may run at a time
  MaxCrashes    \* bound: commands that die while they create the key

ASSUME ClientAssumption ==
  /\ MaxCrashes \in Nat
  /\ Nodes \cap {"absent", "partial"} = {}

VARIABLES
  keyFile,      \* wallet.key: "absent", "partial" or the key in it
  keyMode,      \* its permissions: those of the umask, or 0600
  command,      \* where each command stands and the key it holds
  generated,    \* history: keys generated so far
  crashes       \* crashes so far

clientVars == << keyFile, keyMode, command, generated, crashes >>
systemVars == << registryVars, clientVars >>

Ended == [pc |-> "ended", key |-> None]

Step(c, pc, key) == command' = [command EXCEPT ![c] = [pc |-> pc, key |-> key]]

Creating == \E c \in Commands : command[c].pc \in {"create", "write", "protect"}

KeySettled == keyFile \in Nodes /\ ~ Creating

-----------------------------------------------------------------------------
(* load_or_create_key                                                      *)

\* The file is there and holds a key.
LoadKey(c) ==
  /\ command[c] = Ended
  /\ keyFile \in Nodes
  /\ Step(c, "ready", keyFile)
  /\ UNCHANGED << registryVars, keyFile, keyMode, generated, crashes >>

\* Slip: the key file is not looked for.
CreateAnyway(c) ==
  /\ command[c] = Ended
  /\ Step(c, "create", None)
  /\ UNCHANGED << registryVars, keyFile, keyMode, generated, crashes >>

\* path.exists() is false.
FindNoKey(c) ==
  /\ command[c] = Ended
  /\ keyFile = "absent"
  /\ Step(c, "create", None)
  /\ UNCHANGED << registryVars, keyFile, keyMode, generated, crashes >>

\* generate(), and fs::write creates the file or truncates the one that came
\* to be there.
CreateKeyFile(c) ==
  /\ command[c].pc = "create"
  /\ \E key \in Nodes \ generated :
       /\ Step(c, "write", key)
       /\ generated' = generated \cup {key}
  /\ keyFile' = "partial"
  /\ keyMode' = IF keyFile = "absent" THEN "umask" ELSE keyMode
  /\ UNCHANGED << registryVars, crashes >>

\* Slip: the permissions are left as they are.
WriteKeyOnly(c) ==
  /\ command[c].pc = "write"
  /\ keyFile' = command[c].key
  /\ Step(c, "ready", command[c].key)
  /\ UNCHANGED << registryVars, keyMode, generated, crashes >>

\* fs::write writes the key, over what another command may have written.
WriteKey(c) ==
  /\ command[c].pc = "write"
  /\ keyFile' = command[c].key
  /\ Step(c, "protect", command[c].key)
  /\ UNCHANGED << registryVars, keyMode, generated, crashes >>

RestrictMode(c) ==
  /\ command[c].pc = "protect"
  /\ keyMode' = "0600"
  /\ Step(c, "ready", command[c].key)
  /\ UNCHANGED << registryVars, keyFile, generated, crashes >>

Crash(c) ==
  /\ command[c].pc \in {"create", "write", "protect"}
  /\ crashes < MaxCrashes
  /\ crashes' = crashes + 1

\* Slip: an error of fs::write is ignored.
GoOnUnsaved(c) ==
  /\ Crash(c)
  /\ command[c].key # None
  /\ Step(c, "ready", command[c].key)
  /\ UNCHANGED << registryVars, keyFile, keyMode, generated >>

\* A call fails, or the command is killed: what it did to the file stays.
AbandonKey(c) ==
  /\ Crash(c)
  /\ command' = [command EXCEPT ![c] = Ended]
  /\ UNCHANGED << registryVars, keyFile, keyMode, generated >>

-----------------------------------------------------------------------------
(* What the commands do with the key                                       *)

\* node-client register, with NODE_TIER as configured.
RegisterCommand(c, configured) ==
  /\ command[c].pc = "ready"
  /\ Register(command[c].key, configured)
  /\ command' = [command EXCEPT ![c] = Ended]
  /\ UNCHANGED << keyFile, keyMode, generated, crashes >>

\* node-client start: the worker reports a result under its key.
ReportResult(c, q) ==
  /\ command[c].pc = "ready"
  /\ LookUpNode(q, command[c].key)
  /\ UNCHANGED clientVars

\* Any command comes to its end: wallet show only prints, a registration may
\* not get through, a worker is stopped.
EndCommand(c) ==
  /\ command[c].pc = "ready"
  /\ command' = [command EXCEPT ![c] = Ended]
  /\ UNCHANGED << registryVars, keyFile, keyMode, generated, crashes >>

-----------------------------------------------------------------------------

ClientInit ==
  /\ RegistryInit
  /\ keyFile = "absent"
  /\ keyMode = "umask"
  /\ command = [c \in Commands |-> Ended]
  /\ generated = {}
  /\ crashes = 0

\* The steps of the registry that no command takes.
RegistryAlone ==
  \/ \E n \in Nodes : Heartbeat(n) \/ FallSilent(n) \/ UnbanNode(n) \/ AgeEvent(n)
  \/ \E a \in Admins : \/ \E n \in Nodes : BanNode(a, n)
                       \/ RecordBan(a) \/ AbandonBan(a)
  \/ \E q \in Requests : RecordReputation(q) \/ LeaveResult(q)
  \/ RecomputeScores

ClientNext ==
  \/ \E c \in Commands :
       \/ LoadKey(c) \/ FindNoKey(c) \/ CreateKeyFile(c) \/ WriteKey(c)
       \/ RestrictMode(c) \/ AbandonKey(c) \/ EndCommand(c)
       \/ \E t \in TierChoices : RegisterCommand(c, t)
       \/ \E q \in Requests : ReportResult(c, q)
  \/ RegistryAlone /\ UNCHANGED clientVars

ClientSpec ==
  /\ ClientInit
  /\ [][ClientNext]_systemVars
  /\ WF_registryVars(RecomputeScores)

-----------------------------------------------------------------------------
(* Properties                                                              *)

\* The key file is settled for good: once it holds a key and no command is
\* creating one, it keeps that key and no command creates another, so every
\* later command loads the same one (load_or_create_key).
KeyFileKept ==
  [][ KeySettled => keyFile' = keyFile /\ KeySettled' ]_systemVars

\* First runs that overlap leave a usable, private key: when none of them is
\* at work any more and none died, the file is whole and its mode 0600,
\* whichever of them was last at each step (wallet.rs:3, "chmod 600").
KeyIsWholeAndPrivate ==
  crashes = 0 /\ ~ Creating /\ keyFile # "absent" =>
    keyFile \in Nodes /\ keyMode = "0600"

\* One machine is one node: as long as no two first runs overlapped, every
\* command works with the key in the file and no other key was registered,
\* even when the run that created it died on the way.
OneIdentity ==
  (\A k, l \in generated : k = l) =>
    /\ registered \subseteq {keyFile}
    /\ \A c \in Commands : command[c].pc = "ready" => command[c].key = keyFile

=============================================================================
