------------------------------- MODULE Setup -------------------------------
(***************************************************************************)
(* acp-tunnel init (src/src/setup.rs): several runs of initialize_server   *)
(* on the same configuration and token path, each of which may be killed   *)
(* between any two file-system calls or see any of them fail.              *)
(*                                                                         *)
(* The file system is names that refer to files and files with contents: a *)
(* run that has a file open writes to it whatever its name is by then.     *)
(***************************************************************************)
EXTENDS Naturals, FiniteSets

CONSTANTS
  Runs,      \* invocations of init
  NoFile     \* what an unused name refers to

\* Files that exist beforehand, and the ones that run i creates.
OldConfig == <<"old", "config">>
OldToken == <<"old", "token">>
NewConfig(i) == <<i, "config">>
NewToken(i) == <<i, "token">>

Files == {OldConfig, OldToken}
           \union {NewConfig(i) : i \in Runs} \union {NewToken(i) : i \in Runs}

\* The two paths, and the siblings ".<name>.new-<uuid>" and
\* ".<name>.old-<uuid>" of one run.
ConfigPath == <<"path", "config">>
TokenPath == <<"path", "token">>
Temporary(i) == <<i, "new">>
Backup(i) == <<i, "old">>

Names == {ConfigPath, TokenPath}
           \union {Temporary(i) : i \in Runs} \union {Backup(i) : i \in Runs}

ASSUME SetupAssumption ==
  /\ NoFile \notin Files
  /\ {"old", "path"} \intersect Runs = {}

VARIABLES
  at,      \* the file a name refers to
  whole,   \* files that were completely written
  pc,      \* the next call of a run
  force    \* runs with --force

vars == <<at, whole, pc, force>>

Over == {"done", "failed", "killed"}

\* A file has one name: renames move it.
TypeOK ==
  /\ at \in [Names -> Files \union {NoFile}]
  /\ whole \subseteq Files
  /\ pc \in [Runs -> Over \union
       {"check", "token", "create_token", "write_token", "config",
        "write_config", "temporary", "write_temporary", "backup", "install",
        "restore", "remove_temporary", "drop_backup", "load"}]
  /\ force \subseteq Runs
  /\ \A m, n \in Names : at[m] = at[n] /\ at[m] # NoFile => m = n

Init ==
  /\ \E config \in {NoFile, OldConfig}, token \in {NoFile, OldToken} :
       at = [n \in Names |-> CASE n = ConfigPath -> config
                               [] n = TokenPath -> token
                               [] OTHER -> NoFile]
  /\ whole = {at[ConfigPath], at[TokenPath]} \ {NoFile}
  /\ pc = [i \in Runs |-> "check"]
  /\ force \in SUBSET Runs

Goto(i, where) == pc' = [pc EXCEPT ![i] = where]

Exists(n) == at[n] # NoFile

-----------------------------------------------------------------------------
(* The arguments are checked and an existing configuration is refused. *)
Check(i) ==
  /\ pc[i] = "check"
  /\ Exists(ConfigPath) => i \in force
  /\ Goto(i, "token")
  /\ UNCHANGED <<at, whole, force>>

\* Mutant: that the token exists is enough.
MutantUseToken(i) ==
  /\ pc[i] = "token"
  /\ Exists(TokenPath)
  /\ Goto(i, "config")
  /\ UNCHANGED <<at, whole, force>>

\* An existing token must be usable; it is empty while somebody writes it.
UseToken(i) ==
  /\ pc[i] = "token"
  /\ Exists(TokenPath) /\ at[TokenPath] \in whole
  /\ Goto(i, "config")
  /\ UNCHANGED <<at, whole, force>>

MissesToken(i) ==
  /\ pc[i] = "token"
  /\ ~Exists(TokenPath)
  /\ Goto(i, "create_token")
  /\ UNCHANGED <<at, whole, force>>

\* Mutant: create(true) instead of create_new(true).
MutantCreate(i, from, n, file, to) ==
  /\ pc[i] = from
  /\ at' = [at EXCEPT ![n] = file]
  /\ Goto(i, to)
  /\ UNCHANGED <<whole, force>>

\* write_private_file: create_new, then write_all, which is one write for
\* files this small. The name may have come into use since it was looked at.
Create(i, from, n, file, to) ==
  /\ pc[i] = from
  /\ ~Exists(n)
  /\ at' = [at EXCEPT ![n] = file]
  /\ Goto(i, to)
  /\ UNCHANGED <<whole, force>>

Write(i, from, file, to) ==
  /\ pc[i] = from
  /\ whole' = whole \union {file}
  /\ Goto(i, to)
  /\ UNCHANGED <<at, force>>

CreateToken(i) ==
  Create(i, "create_token", TokenPath, NewToken(i), "write_token")

WriteToken(i) == Write(i, "write_token", NewToken(i), "config")

CreateConfig(i) ==
  /\ i \notin force
  /\ Create(i, "config", ConfigPath, NewConfig(i), "write_config")

WriteConfig(i) == Write(i, "write_config", NewConfig(i), "load")

\* Mutant: the configuration is written in place.
MutantStartReplace(i) ==
  /\ pc[i] = "config" /\ i \in force
  /\ Exists(ConfigPath)
  /\ at' = [at EXCEPT ![ConfigPath] = NewConfig(i)]
  /\ Goto(i, "write_config")
  /\ UNCHANGED <<whole, force>>

\* replace_private_file sets the permissions of a file that must exist.
StartReplace(i) ==
  /\ pc[i] = "config" /\ i \in force
  /\ Exists(ConfigPath)
  /\ Goto(i, "temporary")
  /\ UNCHANGED <<at, whole, force>>

CreateTemporary(i) ==
  Create(i, "temporary", Temporary(i), NewConfig(i), "write_temporary")

WriteTemporary(i) == Write(i, "write_temporary", NewConfig(i), "backup")

\* Mutant: a copy.
MutantRename(from, to) == at' = [at EXCEPT ![to] = at[from]]

\* rename replaces what its target refers to.
Rename(from, to) == at' = [at EXCEPT ![to] = at[from], ![from] = NoFile]

\* Mutant: the old file is removed to make room.
MutantMoveToBackup(i) ==
  /\ pc[i] = "backup"
  /\ Exists(ConfigPath)
  /\ at' = [at EXCEPT ![ConfigPath] = NoFile]
  /\ Goto(i, "install")
  /\ UNCHANGED <<whole, force>>

MoveToBackup(i) ==
  /\ pc[i] = "backup"
  /\ Exists(ConfigPath)
  /\ Rename(ConfigPath, Backup(i))
  /\ Goto(i, "install")
  /\ UNCHANGED <<whole, force>>

Install(i) ==
  /\ pc[i] = "install"
  /\ Rename(Temporary(i), ConfigPath)
  /\ Goto(i, "drop_backup")
  /\ UNCHANGED <<whole, force>>

DropBackup(i) ==
  /\ pc[i] = "drop_backup"
  /\ at' = [at EXCEPT ![Backup(i)] = NoFile]
  /\ Goto(i, "load")
  /\ UNCHANGED <<whole, force>>

\* ServerConfig::load: an empty file is a configuration without agents.
Load(i) ==
  /\ pc[i] = "load"
  /\ Exists(ConfigPath)
  /\ Goto(i, "done")
  /\ UNCHANGED <<at, whole, force>>

-----------------------------------------------------------------------------
(* Errors. Any call may fail; most leave the file system as it is, the      *)
(* permissions that are set after a write among them.                       *)
Fails(i) ==
  /\ pc[i] \notin Over \union {"install", "restore"}
  /\ Goto(i, "failed")
  /\ UNCHANGED <<at, whole, force>>

BackupFails(i) ==
  /\ pc[i] = "backup"
  /\ Goto(i, "remove_temporary")
  /\ UNCHANGED <<at, whole, force>>

InstallFails(i) ==
  /\ pc[i] = "install"
  /\ Goto(i, "restore")
  /\ UNCHANGED <<at, whole, force>>

\* The old file is put back, if that works, over whatever has its name now.
Restore(i) ==
  /\ pc[i] = "restore"
  /\ Rename(Backup(i), ConfigPath) \/ UNCHANGED at
  /\ Goto(i, "remove_temporary")
  /\ UNCHANGED <<whole, force>>

RemoveTemporary(i) ==
  /\ pc[i] = "remove_temporary"
  /\ at' = [at EXCEPT ![Temporary(i)] = NoFile]
  /\ Goto(i, "failed")
  /\ UNCHANGED <<whole, force>>

Kill(i) ==
  /\ pc[i] \notin Over
  /\ Goto(i, "killed")
  /\ UNCHANGED <<at, whole, force>>

-----------------------------------------------------------------------------
Step(i) ==
  \/ Check(i) \/ UseToken(i) \/ MissesToken(i)
  \/ CreateToken(i) \/ WriteToken(i) \/ CreateConfig(i) \/ WriteConfig(i)
  \/ StartReplace(i) \/ CreateTemporary(i) \/ WriteTemporary(i)
  \/ MoveToBackup(i) \/ Install(i) \/ DropBackup(i) \/ Load(i)
  \/ Fails(i) \/ BackupFails(i) \/ InstallFails(i) \/ Restore(i)
  \/ RemoveTemporary(i) \/ Kill(i)

Next == \E i \in Runs : Step(i)

Spec == Init /\ [][Next]_vars

-----------------------------------------------------------------------------
(* Properties. *)

(***************************************************************************)
(* replace_private_file moves the old configuration aside before the new   *)
(* one has its name.  Whichever runs overlap, fail or are killed half-way, *)
(* a server that had a configuration has a complete one at its path or in  *)
(* a backup next to it.  The exception takes three runs: one without       *)
(* --force starts while the path is free, and its unfinished file is what  *)
(* another one restores.                                                   *)
(***************************************************************************)
ConfigNames == {ConfigPath} \union {Backup(i) : i \in Runs}

ConfigNeverLost ==
  OldConfig \in whole =>
    \E n \in ConfigNames :
      \/ at[n] \in whole
      \/ \E i \in Runs \ force : at[n] = NewConfig(i)

(***************************************************************************)
(* docs/server-setup.md: "The initializer does not replace an existing     *)
(* token.  It requires --force to replace an existing configuration."      *)
(* Both are checked some calls before the file is created: the names may   *)
(* have come into use by then.                                             *)
(***************************************************************************)
NothingReplacedUnasked ==
  [][/\ Exists(TokenPath) => at'[TokenPath] = at[TokenPath]
     /\ \A i \in Runs \ force :
          Step(i) /\ Exists(ConfigPath) =>
            at'[ConfigPath] = at[ConfigPath]]_vars

(***************************************************************************)
(* serve may read the configuration at any time.  A file that a forced run *)
(* puts at the path is complete from the first moment.                     *)
(***************************************************************************)
ForcedConfigIsWhole ==
  \A i \in force : at[ConfigPath] = NewConfig(i) => NewConfig(i) \in whole

(***************************************************************************)
(* A run that reports success leaves a usable token, even when another run *)
(* created it and was killed, and its own configuration is complete and in *)
(* place unless another run has replaced it or was killed doing so.        *)
(***************************************************************************)
SuccessMeansUsable ==
  \A i \in Runs : pc[i] = "done" =>
    /\ at[TokenPath] \in whole
    /\ NewConfig(i) \in whole
    /\ \/ at[ConfigPath] = NewConfig(i)
       \/ \E j \in force \ {i} : NewConfig(j) \in whole
=============================================================================
