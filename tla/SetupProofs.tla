----------------------------- MODULE SetupProofs -----------------------------
(***************************************************************************)
(* Proofs about Setup, for any number of overlapping runs of init.         *)
(***************************************************************************)
EXTENDS Setup, TLAPS

-----------------------------------------------------------------------------
(* The inductive invariant. *)

ConfigFiles == {OldConfig} \union {NewConfig(i) : i \in Runs}

\* Where a run that has not failed is, relative to the files it creates.
BeforeToken == {"check", "token", "create_token"}
BeforeConfig == BeforeToken \union {"write_token", "config", "temporary"}
Replacing == {"backup", "install", "restore"}
Placed == {"drop_backup", "load", "done"}

\* A run creates its files once, each under the name it is for.
FreshInv ==
  \A i \in Runs, n \in Names :
    /\ pc[i] \in BeforeToken => at[n] # NewToken(i)
    /\ pc[i] \in BeforeConfig => at[n] # NewConfig(i)

PlaceInv ==
  /\ \A n \in ConfigNames : at[n] \in ConfigFiles \union {NoFile}
  /\ \A i \in Runs : at[Temporary(i)] \in {NewConfig(i), NoFile}

\* A run that is past its token found or wrote one.
TokenInv ==
  \A i \in Runs :
    /\ pc[i] = "write_token" => at[TokenPath] = NewToken(i)
    /\ pc[i] \notin BeforeToken \union {"write_token", "failed", "killed"} =>
         at[TokenPath] \in whole

\* Until it is installed, the configuration of a forced run is at its
\* temporary name, and it leaves that name complete.
ForceInv ==
  \A i \in Runs :
    /\ pc[i] \in Replacing \union {"temporary", "write_temporary"} => i \in force
    /\ pc[i] \in Replacing \union {"write_temporary"} =>
         at[Temporary(i)] = NewConfig(i)
    /\ pc[i] \in Replacing => NewConfig(i) \in whole
    /\ i \in force => pc[i] # "write_config"
    /\ i \in force => \A n \in ConfigNames :
         at[n] = NewConfig(i) => NewConfig(i) \in whole

\* A configuration that was put at the path stays until a complete one
\* takes its place.
PlacedInv ==
  \A i \in Runs :
    /\ pc[i] \in Placed => NewConfig(i) \in whole
    /\ pc[i] \in Placed \union {"write_config"} =>
         \/ at[ConfigPath] = NewConfig(i)
         \/ \E j \in force \ {i} : NewConfig(j) \in whole

\* The path is only free while a backup is not about to be removed.
KeptInv ==
  /\ \A i \in Runs : pc[i] \in {"install", "restore"} => Exists(Backup(i))
  /\ OldConfig \in whole =>
       \/ Exists(ConfigPath)
       \/ \E k \in Runs : Exists(Backup(k)) /\ pc[k] # "drop_backup"

IInv ==
  /\ TypeOK /\ FreshInv /\ PlaceInv /\ TokenInv
  /\ ForceInv /\ PlacedInv /\ KeptInv

-----------------------------------------------------------------------------
(* Names and files. *)

\* No two of the names that init uses are the same.
LEMMA NamesDiffer ==
  /\ ConfigPath \in Names /\ TokenPath \in Names /\ ConfigPath # TokenPath
  /\ ConfigPath \in ConfigNames /\ TokenPath \notin ConfigNames
  /\ ConfigNames \subseteq Names
  /\ \A i \in Runs :
       /\ Temporary(i) \in Names /\ Backup(i) \in Names
       /\ Temporary(i) \notin ConfigNames /\ Backup(i) \in ConfigNames
       /\ Temporary(i) # TokenPath /\ Temporary(i) # ConfigPath
       /\ Backup(i) # TokenPath /\ Backup(i) # ConfigPath
       /\ \A j \in Runs :
            /\ Temporary(i) # Backup(j)
            /\ i # j => Temporary(i) # Temporary(j) /\ Backup(i) # Backup(j)
BY DEF ConfigPath, TokenPath, Temporary, Backup, Names, ConfigNames

\* No two of the files that exist or are created are the same.
LEMMA FilesDiffer ==
  /\ OldConfig \in Files /\ OldToken \in Files /\ NoFile \notin Files
  /\ \A i \in Runs :
       /\ NewConfig(i) \in Files /\ NewToken(i) \in Files
       /\ NewConfig(i) # OldConfig /\ NewToken(i) # OldConfig
       /\ NewConfig(i) # OldToken /\ NewToken(i) # OldToken
       /\ NewConfig(i) # NoFile /\ NewToken(i) # NoFile
       /\ \A j \in Runs :
            /\ NewConfig(i) # NewToken(j)
            /\ i # j => NewConfig(i) # NewConfig(j) /\ NewToken(i) # NewToken(j)
BY SetupAssumption DEF Files, OldConfig, OldToken, NewConfig, NewToken

-----------------------------------------------------------------------------
(* Steps preserve the parts of the invariant. *)

\* Renames move files, and a new file is nowhere else.
LEMMA TypePreserved ==
  ASSUME TypeOK, FreshInv, NEW i \in Runs, Step(i)
  PROVE  TypeOK'
<1> USE DEF TypeOK, Goto, Over, Exists, FreshInv, BeforeToken, BeforeConfig
<1>1. CASE Check(i) \/ UseToken(i) \/ MissesToken(i) \/ StartReplace(i) \/
           Load(i)
  BY <1>1, NamesDiffer, FilesDiffer DEF Check, UseToken, MissesToken,
      StartReplace, Load
<1>2. CASE CreateToken(i)
  BY <1>2, NamesDiffer, FilesDiffer DEF CreateToken, Create
<1>3. CASE WriteToken(i)
  BY <1>3, NamesDiffer, FilesDiffer DEF WriteToken, Write
<1>4. CASE CreateConfig(i)
  BY <1>4, NamesDiffer, FilesDiffer DEF CreateConfig, Create
<1>5. CASE WriteConfig(i)
  BY <1>5, NamesDiffer, FilesDiffer DEF WriteConfig, Write
<1>6. CASE CreateTemporary(i)
  BY <1>6, NamesDiffer, FilesDiffer DEF CreateTemporary, Create
<1>7. CASE WriteTemporary(i)
  BY <1>7, NamesDiffer, FilesDiffer DEF WriteTemporary, Write
<1>8. CASE MoveToBackup(i)
  BY <1>8, NamesDiffer, FilesDiffer DEF MoveToBackup, Rename
<1>9. CASE Install(i)
  BY <1>9, NamesDiffer, FilesDiffer DEF Install, Rename
<1>10. CASE DropBackup(i)
  BY <1>10, NamesDiffer, FilesDiffer DEF DropBackup
<1>11. CASE Fails(i) \/ BackupFails(i) \/ InstallFails(i) \/ Kill(i)
  BY <1>11, NamesDiffer, FilesDiffer DEF Fails, BackupFails, InstallFails,
      Kill
<1>12. CASE Restore(i)
  BY <1>12, NamesDiffer, FilesDiffer DEF Restore, Rename
<1>13. CASE RemoveTemporary(i)
  BY <1>13, NamesDiffer, FilesDiffer DEF RemoveTemporary
<1> QED BY <1>1, <1>2, <1>3, <1>4, <1>5, <1>6, <1>7, <1>8, <1>9, <1>10,
    <1>11, <1>12, <1>13 DEF Step

\* A run creates nothing twice.
LEMMA FreshPreserved ==
  ASSUME TypeOK, FreshInv, NEW i \in Runs, Step(i)
  PROVE  FreshInv'
<1> USE DEF TypeOK, Goto, Over, FreshInv, BeforeToken, BeforeConfig
<1>1. CASE Check(i) \/ UseToken(i) \/ MissesToken(i) \/ StartReplace(i) \/
           Load(i)
  BY <1>1, NamesDiffer, FilesDiffer DEF Check, UseToken, MissesToken,
      StartReplace, Load
<1>2. CASE CreateToken(i)
  BY <1>2, NamesDiffer, FilesDiffer DEF CreateToken, Create
<1>3. CASE WriteToken(i)
  BY <1>3, NamesDiffer, FilesDiffer DEF WriteToken, Write
<1>4. CASE CreateConfig(i)
  BY <1>4, NamesDiffer, FilesDiffer DEF CreateConfig, Create
<1>5. CASE WriteConfig(i)
  BY <1>5, NamesDiffer, FilesDiffer DEF WriteConfig, Write
<1>6. CASE CreateTemporary(i)
  BY <1>6, NamesDiffer, FilesDiffer DEF CreateTemporary, Create
<1>7. CASE WriteTemporary(i)
  BY <1>7, NamesDiffer, FilesDiffer DEF WriteTemporary, Write
<1>8. CASE MoveToBackup(i)
  BY <1>8, NamesDiffer, FilesDiffer DEF MoveToBackup, Rename
<1>9. CASE Install(i)
  BY <1>9, NamesDiffer, FilesDiffer DEF Install, Rename
<1>10. CASE DropBackup(i)
  BY <1>10, NamesDiffer, FilesDiffer DEF DropBackup
<1>11. CASE Fails(i) \/ BackupFails(i) \/ InstallFails(i) \/ Kill(i)
  BY <1>11, NamesDiffer, FilesDiffer DEF Fails, BackupFails, InstallFails,
      Kill
<1>12. CASE Restore(i)
  BY <1>12, NamesDiffer, FilesDiffer DEF Restore, Rename
<1>13. CASE RemoveTemporary(i)
  BY <1>13, NamesDiffer, FilesDiffer DEF RemoveTemporary
<1> QED BY <1>1, <1>2, <1>3, <1>4, <1>5, <1>6, <1>7, <1>8, <1>9, <1>10,
    <1>11, <1>12, <1>13 DEF Step

\* Configurations stay among the names for configurations.
LEMMA PlacePreserved ==
  ASSUME TypeOK, PlaceInv, NEW i \in Runs, Step(i)
  PROVE  PlaceInv'
<1> USE DEF TypeOK, Goto, PlaceInv, ConfigFiles
<1>1. CASE Check(i) \/ UseToken(i) \/ MissesToken(i) \/ StartReplace(i) \/
           Load(i)
  BY <1>1, NamesDiffer, FilesDiffer DEF Check, UseToken, MissesToken,
      StartReplace, Load
<1>2. CASE CreateToken(i)
  BY <1>2, NamesDiffer, FilesDiffer DEF CreateToken, Create
<1>3. CASE WriteToken(i)
  BY <1>3, NamesDiffer, FilesDiffer DEF WriteToken, Write
<1>4. CASE CreateConfig(i)
  BY <1>4, NamesDiffer, FilesDiffer DEF CreateConfig, Create
<1>5. CASE WriteConfig(i)
  BY <1>5, NamesDiffer, FilesDiffer DEF WriteConfig, Write
<1>6. CASE CreateTemporary(i)
  BY <1>6, NamesDiffer, FilesDiffer DEF CreateTemporary, Create
<1>7. CASE WriteTemporary(i)
  BY <1>7, NamesDiffer, FilesDiffer DEF WriteTemporary, Write
<1>8. CASE MoveToBackup(i)
  BY <1>8, NamesDiffer, FilesDiffer DEF MoveToBackup, Rename
<1>9. CASE Install(i)
  BY <1>9, NamesDiffer, FilesDiffer DEF Install, Rename
<1>10. CASE DropBackup(i)
  BY <1>10, NamesDiffer, FilesDiffer DEF DropBackup
<1>11. CASE Fails(i) \/ BackupFails(i) \/ InstallFails(i) \/ Kill(i)
  BY <1>11, NamesDiffer, FilesDiffer DEF Fails, BackupFails, InstallFails,
      Kill
<1>12. CASE Restore(i)
  BY <1>12, NamesDiffer, FilesDiffer DEF Restore, Rename
<1>13. CASE RemoveTemporary(i)
  BY <1>13, NamesDiffer, FilesDiffer DEF RemoveTemporary
<1> QED BY <1>1, <1>2, <1>3, <1>4, <1>5, <1>6, <1>7, <1>8, <1>9, <1>10,
    <1>11, <1>12, <1>13 DEF Step

\* The token stays, and a run goes on only once it is complete.
LEMMA TokenPreserved ==
  ASSUME TypeOK, TokenInv, NEW i \in Runs, Step(i)
  PROVE  TokenInv'
<1> USE DEF TypeOK, Goto, Over, TokenInv, BeforeToken, Exists
<1>1. CASE Check(i) \/ UseToken(i) \/ MissesToken(i) \/ StartReplace(i) \/
           Load(i)
  BY <1>1, NamesDiffer, FilesDiffer DEF Check, UseToken, MissesToken,
      StartReplace, Load
<1>2. CASE CreateToken(i)
  BY <1>2, NamesDiffer, FilesDiffer DEF CreateToken, Create
<1>3. CASE WriteToken(i)
  BY <1>3, NamesDiffer, FilesDiffer DEF WriteToken, Write
<1>4. CASE CreateConfig(i)
  BY <1>4, NamesDiffer, FilesDiffer DEF CreateConfig, Create
<1>5. CASE WriteConfig(i)
  BY <1>5, NamesDiffer, FilesDiffer DEF WriteConfig, Write
<1>6. CASE CreateTemporary(i)
  BY <1>6, NamesDiffer, FilesDiffer DEF CreateTemporary, Create
<1>7. CASE WriteTemporary(i)
  BY <1>7, NamesDiffer, FilesDiffer DEF WriteTemporary, Write
<1>8. CASE MoveToBackup(i)
  BY <1>8, NamesDiffer, FilesDiffer DEF MoveToBackup, Rename
<1>9. CASE Install(i)
  BY <1>9, NamesDiffer, FilesDiffer DEF Install, Rename
<1>10. CASE DropBackup(i)
  BY <1>10, NamesDiffer, FilesDiffer DEF DropBackup
<1>11. CASE Fails(i) \/ BackupFails(i) \/ InstallFails(i) \/ Kill(i)
  BY <1>11, NamesDiffer, FilesDiffer DEF Fails, BackupFails, InstallFails,
      Kill
<1>12. CASE Restore(i)
  BY <1>12, NamesDiffer, FilesDiffer DEF Restore, Rename
<1>13. CASE RemoveTemporary(i)
  BY <1>13, NamesDiffer, FilesDiffer DEF RemoveTemporary
<1> QED BY <1>1, <1>2, <1>3, <1>4, <1>5, <1>6, <1>7, <1>8, <1>9, <1>10,
    <1>11, <1>12, <1>13 DEF Step

\* A forced run moves only complete configurations to the path.
LEMMA ForcePreserved ==
  ASSUME TypeOK, PlaceInv, FreshInv, ForceInv, NEW i \in Runs, Step(i)
  PROVE  ForceInv'
<1> USE DEF TypeOK, Goto, Over, ForceInv, Replacing
<1>1. CASE Check(i) \/ UseToken(i) \/ MissesToken(i) \/ StartReplace(i) \/
           Load(i)
  BY <1>1, NamesDiffer, FilesDiffer DEF Check, UseToken, MissesToken,
      StartReplace, Load
<1>2. CASE CreateToken(i)
  BY <1>2, NamesDiffer, FilesDiffer DEF CreateToken, Create
<1>3. CASE WriteToken(i)
  BY <1>3, NamesDiffer, FilesDiffer DEF WriteToken, Write
<1>4. CASE CreateConfig(i)
  BY <1>4, NamesDiffer, FilesDiffer DEF CreateConfig, Create
<1>5. CASE WriteConfig(i)
  BY <1>5, NamesDiffer, FilesDiffer DEF WriteConfig, Write
<1>6. CASE CreateTemporary(i)
  BY <1>6, NamesDiffer, FilesDiffer DEF CreateTemporary, Create
<1>7. CASE WriteTemporary(i)
  BY <1>7, NamesDiffer, FilesDiffer DEF WriteTemporary, Write
<1>8. CASE MoveToBackup(i)
  BY <1>8, NamesDiffer, FilesDiffer DEF MoveToBackup, Rename
<1>9. CASE Install(i)
  BY <1>9, NamesDiffer, FilesDiffer DEF Install, Rename
<1>10. CASE DropBackup(i)
  BY <1>10, NamesDiffer, FilesDiffer DEF DropBackup
<1>11. CASE Fails(i) \/ BackupFails(i) \/ InstallFails(i) \/ Kill(i)
  BY <1>11, NamesDiffer, FilesDiffer DEF Fails, BackupFails, InstallFails,
      Kill
<1>12. CASE Restore(i)
  BY <1>12, NamesDiffer, FilesDiffer DEF Restore, Rename
<1>13. CASE RemoveTemporary(i)
  BY <1>13, NamesDiffer, FilesDiffer DEF RemoveTemporary
<1> QED BY <1>1, <1>2, <1>3, <1>4, <1>5, <1>6, <1>7, <1>8, <1>9, <1>10,
    <1>11, <1>12, <1>13 DEF Step

\* A placed configuration gives way only to a complete one.
LEMMA PlacedPreserved ==
  ASSUME TypeOK, ForceInv, PlacedInv, NEW i \in Runs, Step(i)
  PROVE  PlacedInv'
<1> USE DEF TypeOK, Goto, Over, PlacedInv, Placed, Exists
<1>1. CASE Check(i) \/ UseToken(i) \/ MissesToken(i) \/ StartReplace(i) \/
           Load(i)
  BY <1>1, NamesDiffer, FilesDiffer DEF Check, UseToken, MissesToken,
      StartReplace, Load
<1>2. CASE CreateToken(i)
  BY <1>2, NamesDiffer, FilesDiffer DEF CreateToken, Create
<1>3. CASE WriteToken(i)
  BY <1>3, NamesDiffer, FilesDiffer DEF WriteToken, Write
<1>4. CASE CreateConfig(i)
  BY <1>4, NamesDiffer, FilesDiffer DEF CreateConfig, Create
<1>5. CASE WriteConfig(i)
  BY <1>5, NamesDiffer, FilesDiffer DEF WriteConfig, Write
<1>6. CASE CreateTemporary(i)
  BY <1>6, NamesDiffer, FilesDiffer DEF CreateTemporary, Create
<1>7. CASE WriteTemporary(i)
  BY <1>7, NamesDiffer, FilesDiffer DEF WriteTemporary, Write
<1>8. CASE MoveToBackup(i)
  <2>1. i \in force /\ NewConfig(i) \in whole
    BY <1>8 DEF MoveToBackup, ForceInv, Replacing
  <2>2. whole' = whole /\ force' = force
    BY <1>8 DEF MoveToBackup
  <2>3. \A j \in Runs : pc'[j] \in Placed \union {"write_config"} =>
          j # i /\ pc[j] = pc'[j]
    BY <1>8 DEF MoveToBackup
  <2> QED BY <2>1, <2>2, <2>3
<1>9. CASE Install(i)
  <2>1. at'[ConfigPath] = NewConfig(i)
    BY <1>9, NamesDiffer DEF Install, Rename, ForceInv, Replacing
  <2>2. i \in force /\ NewConfig(i) \in whole
    BY <1>9 DEF Install, ForceInv, Replacing
  <2>3. /\ whole' = whole /\ force' = force
        /\ pc' = [pc EXCEPT ![i] = "drop_backup"]
    BY <1>9 DEF Install
  <2> QED BY <2>1, <2>2, <2>3
<1>10. CASE DropBackup(i)
  BY <1>10, NamesDiffer, FilesDiffer DEF DropBackup
<1>11. CASE Fails(i) \/ BackupFails(i) \/ InstallFails(i) \/ Kill(i)
  BY <1>11, NamesDiffer, FilesDiffer DEF Fails, BackupFails, InstallFails,
      Kill
<1>12. CASE Restore(i)
  <2>1. i \in force /\ NewConfig(i) \in whole
    BY <1>12 DEF Restore, ForceInv, Replacing
  <2>2. whole' = whole /\ force' = force
    BY <1>12 DEF Restore
  <2>3. \A j \in Runs : pc'[j] \in Placed \union {"write_config"} =>
          j # i /\ pc[j] = pc'[j]
    BY <1>12 DEF Restore
  <2> QED BY <2>1, <2>2, <2>3
<1>13. CASE RemoveTemporary(i)
  BY <1>13, NamesDiffer, FilesDiffer DEF RemoveTemporary
<1> QED BY <1>1, <1>2, <1>3, <1>4, <1>5, <1>6, <1>7, <1>8, <1>9, <1>10,
    <1>11, <1>12, <1>13 DEF Step

\* While the path is free, a backup is kept.
LEMMA KeptPreserved ==
  ASSUME TypeOK, ForceInv, KeptInv, NEW i \in Runs, Step(i)
  PROVE  KeptInv'
<1> USE DEF TypeOK, Goto, Over, KeptInv, Exists
<1>1. CASE Check(i) \/ UseToken(i) \/ MissesToken(i) \/ StartReplace(i) \/
           Load(i)
  BY <1>1, NamesDiffer, FilesDiffer DEF Check, UseToken, MissesToken,
      StartReplace, Load
<1>2. CASE CreateToken(i)
  BY <1>2, NamesDiffer, FilesDiffer DEF CreateToken, Create
<1>3. CASE WriteToken(i)
  BY <1>3, NamesDiffer, FilesDiffer DEF WriteToken, Write
<1>4. CASE CreateConfig(i)
  BY <1>4, NamesDiffer, FilesDiffer DEF CreateConfig, Create
<1>5. CASE WriteConfig(i)
  BY <1>5, NamesDiffer, FilesDiffer DEF WriteConfig, Write
<1>6. CASE CreateTemporary(i)
  BY <1>6, NamesDiffer, FilesDiffer DEF CreateTemporary, Create
<1>7. CASE WriteTemporary(i)
  BY <1>7, NamesDiffer, FilesDiffer DEF WriteTemporary, Write
<1>8. CASE MoveToBackup(i)
  BY <1>8, NamesDiffer, FilesDiffer DEF MoveToBackup, Rename
<1>9. CASE Install(i)
  <2>1. at'[ConfigPath] = NewConfig(i)
    BY <1>9, NamesDiffer DEF Install, Rename, ForceInv, Replacing
  <2>2. \A j \in Runs : at'[Backup(j)] = at[Backup(j)]
    BY <1>9, NamesDiffer DEF Install, Rename
  <2> QED BY <1>9, <2>1, <2>2, FilesDiffer DEF Install
<1>10. CASE DropBackup(i)
  BY <1>10, NamesDiffer, FilesDiffer DEF DropBackup
<1>11. CASE Fails(i) \/ BackupFails(i) \/ InstallFails(i) \/ Kill(i)
  BY <1>11, NamesDiffer, FilesDiffer DEF Fails, BackupFails, InstallFails,
      Kill
<1>12. CASE Restore(i)
  BY <1>12, NamesDiffer, FilesDiffer DEF Restore, Rename
<1>13. CASE RemoveTemporary(i)
  BY <1>13, NamesDiffer, FilesDiffer DEF RemoveTemporary
<1> QED BY <1>1, <1>2, <1>3, <1>4, <1>5, <1>6, <1>7, <1>8, <1>9, <1>10,
    <1>11, <1>12, <1>13 DEF Step

\* Only a forced run that has written its configuration moves one.
LEMMA StepReplaces ==
  ASSUME TypeOK, ForceInv, NEW i \in Runs, Step(i)
  PROVE  /\ Exists(TokenPath) => at'[TokenPath] = at[TokenPath]
         /\ i \notin force /\ Exists(ConfigPath) =>
              at'[ConfigPath] = at[ConfigPath]
<1> USE DEF TypeOK, Exists, ForceInv, Replacing
<1>1. CASE Check(i) \/ UseToken(i) \/ MissesToken(i) \/ StartReplace(i) \/
           Load(i)
  BY <1>1, NamesDiffer DEF Check, UseToken, MissesToken, StartReplace, Load
<1>2. CASE CreateToken(i)
  BY <1>2, NamesDiffer DEF CreateToken, Create
<1>3. CASE WriteToken(i)
  BY <1>3, NamesDiffer DEF WriteToken, Write
<1>4. CASE CreateConfig(i)
  BY <1>4, NamesDiffer DEF CreateConfig, Create
<1>5. CASE WriteConfig(i)
  BY <1>5, NamesDiffer DEF WriteConfig, Write
<1>6. CASE CreateTemporary(i)
  BY <1>6, NamesDiffer DEF CreateTemporary, Create
<1>7. CASE WriteTemporary(i)
  BY <1>7, NamesDiffer DEF WriteTemporary, Write
<1>8. CASE MoveToBackup(i)
  BY <1>8, NamesDiffer DEF MoveToBackup, Rename
<1>9. CASE Install(i)
  BY <1>9, NamesDiffer DEF Install, Rename
<1>10. CASE DropBackup(i)
  BY <1>10, NamesDiffer DEF DropBackup
<1>11. CASE Fails(i) \/ BackupFails(i) \/ InstallFails(i) \/ Kill(i)
  BY <1>11, NamesDiffer DEF Fails, BackupFails, InstallFails, Kill
<1>12. CASE Restore(i)
  BY <1>12, NamesDiffer DEF Restore, Rename
<1>13. CASE RemoveTemporary(i)
  BY <1>13, NamesDiffer DEF RemoveTemporary
<1> QED BY <1>1, <1>2, <1>3, <1>4, <1>5, <1>6, <1>7, <1>8, <1>9, <1>10,
    <1>11, <1>12, <1>13 DEF Step

-----------------------------------------------------------------------------
(* The theorems. *)

\* A step of any run preserves the invariant.
LEMMA Inductive == IInv /\ [Next]_vars => IInv'
<1> SUFFICES ASSUME IInv, [Next]_vars PROVE IInv'
  OBVIOUS
<1> USE DEF IInv
<1>1. ASSUME NEW i \in Runs, Step(i) PROVE IInv'
  <2>1. TypeOK' /\ FreshInv' /\ PlaceInv' /\ TokenInv'
    BY <1>1, TypePreserved, FreshPreserved, PlacePreserved, TokenPreserved
  <2>2. ForceInv' /\ PlacedInv' /\ KeptInv'
    BY <1>1, ForcePreserved, PlacedPreserved, KeptPreserved
  <2> QED BY <2>1, <2>2
<1>2. CASE UNCHANGED vars
  BY <1>2 DEF vars, TypeOK, FreshInv, PlaceInv, TokenInv, ForceInv, PlacedInv,
              KeptInv, Exists
<1> QED BY <1>1, <1>2 DEF Next

\* The invariant holds with or without an old configuration and token.
LEMMA Initially == Init => IInv
<1> SUFFICES ASSUME Init PROVE IInv
  OBVIOUS
<1> USE NamesDiffer, FilesDiffer
<1>1. PICK config \in {NoFile, OldConfig}, token \in {NoFile, OldToken} :
        at = [n \in Names |-> CASE n = ConfigPath -> config
                                [] n = TokenPath -> token
                                [] OTHER -> NoFile]
  BY DEF Init
<1>2. /\ at \in [Names -> Files \union {NoFile}]
      /\ at[ConfigPath] = config /\ at[TokenPath] = token
      /\ \A n \in Names \ {ConfigPath, TokenPath} : at[n] = NoFile
  BY <1>1
<1>3. OldConfig # OldToken
  BY DEF OldConfig, OldToken
<1>4. pc = [i \in Runs |-> "check"]
  BY DEF Init
<1>5. TypeOK
  BY <1>2, <1>3, <1>4 DEF Init, TypeOK, Over
<1>6. FreshInv /\ PlaceInv
  BY <1>2, <1>4 DEF FreshInv, PlaceInv, ConfigFiles
<1>7. TokenInv /\ ForceInv /\ PlacedInv
  BY <1>2, <1>4 DEF TokenInv, ForceInv, PlacedInv, Replacing, Placed, BeforeToken
<1>8. KeptInv
  BY <1>2, <1>3, <1>4 DEF Init, KeptInv, Exists
<1> QED BY <1>5, <1>6, <1>7, <1>8 DEF IInv

\* The invariant holds for ever.
LEMMA Invariance == Spec => []IInv
BY Initially, Inductive, PTL DEF Spec

\* Names refer to files, and no file ever has two names.
THEOREM TypeCorrect == Spec => []TypeOK
BY Invariance, PTL DEF IInv

\* What a forced run puts at the path is complete from the first moment.
THEOREM ForcedWhole == Spec => []ForcedConfigIsWhole
<1>1. IInv => ForcedConfigIsWhole
  BY NamesDiffer DEF IInv, TypeOK, ForceInv, ForcedConfigIsWhole
<1> QED BY <1>1, Invariance, PTL

\* A run that reports success leaves a usable token and a complete
\* configuration, whoever else was running or was killed.
THEOREM SuccessUsable == Spec => []SuccessMeansUsable
<1>1. IInv => SuccessMeansUsable
  BY DEF IInv, TokenInv, PlacedInv, Placed, BeforeToken, SuccessMeansUsable
<1> QED BY <1>1, Invariance, PTL

\* Whichever runs fail or are killed between their renames, a configuration
\* that was there has left one at the path or in a backup.
THEOREM ConfigKept == Spec => []ConfigNeverLost
<1>1. ASSUME IInv, OldConfig \in whole, NEW n \in ConfigNames, Exists(n)
      PROVE  \/ at[n] \in whole
             \/ \E i \in Runs \ force : at[n] = NewConfig(i)
  BY <1>1 DEF IInv, PlaceInv, ConfigFiles, ForceInv, Exists
<1>2. ASSUME IInv, OldConfig \in whole
      PROVE  \E n \in ConfigNames : Exists(n)
  BY <1>2, NamesDiffer DEF IInv, KeptInv
<1>3. IInv => ConfigNeverLost
  BY <1>1, <1>2 DEF ConfigNeverLost
<1> QED BY <1>3, Invariance, PTL

\* No step of any run gives the token's name to another file, and none of a
\* run without --force that of the configuration.
THEOREM NothingReplaced == Spec => NothingReplacedUnasked
<1>1. ASSUME IInv, NEW i \in Runs, Step(i)
      PROVE  /\ Exists(TokenPath) => at'[TokenPath] = at[TokenPath]
             /\ i \notin force /\ Exists(ConfigPath) =>
                  at'[ConfigPath] = at[ConfigPath]
  BY <1>1, StepReplaces DEF IInv
<1> DEFINE T == Exists(TokenPath) => at'[TokenPath] = at[TokenPath]
           C == \A i \in Runs \ force :
                  Step(i) /\ Exists(ConfigPath) =>
                    at'[ConfigPath] = at[ConfigPath]
<1>2. IInv /\ [Next]_vars => [T /\ C]_vars
  BY <1>1 DEF Next
<1> QED BY <1>2, Invariance, PTL DEF Spec, NothingReplacedUnasked
=============================================================================
