-------------------------- MODULE InitFiles_proofs --------------------------
(***************************************************************************)
(* Proofs about InitFiles.tla, for any number of runs of init.             *)
(***************************************************************************)
EXTENDS InitFiles, TLAPS

\* Which files are there when a step touches them, and what they hold.
FilesInv == TypeOK /\ FillerMadeIt /\ KeeperHasFile /\ WalletInFile /\ Sealed

\* Every step keeps the types: a step writes to a file only where there is one.
LEMMA TypeStep == FilesInv /\ [Next]_vars => TypeOK'
<1> SUFFICES ASSUME FilesInv, [Next]_vars
             PROVE  TypeOK'
  OBVIOUS
<1> USE NoFileAssumption
    DEF FilesInv, TypeOK, FillerMadeIt, KeeperHasFile, Sealed, Go, Steps, Over,
        MnemonicFiles, ConfigFiles, Modes, Wallets
<1>1. ASSUME NEW r \in Runs, Start(r) PROVE TypeOK'
  BY <1>1 DEF Start
<1>2. ASSUME NEW r \in Runs, Prices(r) PROVE TypeOK'
  BY <1>2 DEF Prices, readPrices
<1>3. ASSUME NEW r \in Runs, MakeMnemonic(r) PROVE TypeOK'
  BY <1>3 DEF MakeMnemonic, NewFile
<1>4. ASSUME NEW r \in Runs, FillMnemonic(r) PROVE TypeOK'
  BY <1>4 DEF FillMnemonic
<1>5. ASSUME NEW r \in Runs, KeepStat(r) PROVE TypeOK'
  BY <1>5 DEF KeepStat
<1>6. ASSUME NEW r \in Runs, KeepChmod(r) PROVE TypeOK'
  BY <1>6 DEF KeepChmod
<1>7. ASSUME NEW r \in Runs, KeepRead(r) PROVE TypeOK'
  BY <1>7 DEF KeepRead
<1>8. ASSUME NEW r \in Runs, OpenConfig(r) PROVE TypeOK'
  BY <1>8 DEF OpenConfig, Opened
<1>9. ASSUME NEW r \in Runs, WriteConfig(r) PROVE TypeOK'
  BY <1>9 DEF WriteConfig
<1>10. ASSUME NEW r \in Runs, SealConfig(r) PROVE TypeOK'
  BY <1>10 DEF SealConfig
<1>11. ASSUME NEW r \in Runs, LoadConfig(r) PROVE TypeOK'
  BY <1>11 DEF LoadConfig
<1>12. ASSUME NEW r \in Runs, ShowAddress(r) PROVE TypeOK'
  BY <1>12 DEF ShowAddress
<1>13. ASSUME NEW r \in Runs, Crash(r) PROVE TypeOK'
  BY <1>13 DEF Crash
<1>14. CASE RemoveEmpty
  BY <1>14 DEF RemoveEmpty, Running
<1>15. CASE UNCHANGED vars
  BY <1>15 DEF vars
<1> QED
  BY <1>1, <1>2, <1>3, <1>4, <1>5, <1>6, <1>7, <1>8, <1>9, <1>10, <1>11, <1>12, <1>13,
     <1>14, <1>15
  DEF Next, runInit, makeMnemonic, keepMnemonic, writeConfigFile, AllOver

\* Only the run that made the file fills it, and nobody else writes a text.
LEMMA FillerStep == FilesInv /\ [Next]_vars => FillerMadeIt'
<1> SUFFICES ASSUME FilesInv, [Next]_vars
             PROVE  FillerMadeIt'
  OBVIOUS
<1> USE NoFileAssumption
    DEF FilesInv, TypeOK, FillerMadeIt, KeeperHasFile, Go, Steps, Over,
        MnemonicFiles, ConfigFiles, Modes, Wallets
<1>1. ASSUME NEW r \in Runs, Start(r) PROVE FillerMadeIt'
  BY <1>1 DEF Start
<1>2. ASSUME NEW r \in Runs, Prices(r) PROVE FillerMadeIt'
  BY <1>2 DEF Prices, readPrices
<1>3. ASSUME NEW r \in Runs, MakeMnemonic(r) PROVE FillerMadeIt'
  BY <1>3 DEF MakeMnemonic, NewFile
<1>4. ASSUME NEW r \in Runs, FillMnemonic(r) PROVE FillerMadeIt'
  BY <1>4 DEF FillMnemonic
<1>5. ASSUME NEW r \in Runs, KeepStat(r) PROVE FillerMadeIt'
  BY <1>5 DEF KeepStat
<1>6. ASSUME NEW r \in Runs, KeepChmod(r) PROVE FillerMadeIt'
  BY <1>6 DEF KeepChmod
<1>7. ASSUME NEW r \in Runs, KeepRead(r) PROVE FillerMadeIt'
  BY <1>7 DEF KeepRead
<1>8. ASSUME NEW r \in Runs, OpenConfig(r) PROVE FillerMadeIt'
  BY <1>8 DEF OpenConfig, Opened
<1>9. ASSUME NEW r \in Runs, WriteConfig(r) PROVE FillerMadeIt'
  BY <1>9 DEF WriteConfig
<1>10. ASSUME NEW r \in Runs, SealConfig(r) PROVE FillerMadeIt'
  BY <1>10 DEF SealConfig
<1>11. ASSUME NEW r \in Runs, LoadConfig(r) PROVE FillerMadeIt'
  BY <1>11 DEF LoadConfig
<1>12. ASSUME NEW r \in Runs, ShowAddress(r) PROVE FillerMadeIt'
  BY <1>12 DEF ShowAddress
<1>13. ASSUME NEW r \in Runs, Crash(r) PROVE FillerMadeIt'
  BY <1>13 DEF Crash
<1>14. CASE RemoveEmpty
  BY <1>14 DEF RemoveEmpty, Running
<1>15. CASE UNCHANGED vars
  BY <1>15 DEF vars
<1> QED
  BY <1>1, <1>2, <1>3, <1>4, <1>5, <1>6, <1>7, <1>8, <1>9, <1>10, <1>11, <1>12, <1>13,
     <1>14, <1>15
  DEF Next, runInit, makeMnemonic, keepMnemonic, writeConfigFile, AllOver

\* The file stays while somebody keeps it.
LEMMA KeeperStep == FilesInv /\ [Next]_vars => KeeperHasFile'
<1> SUFFICES ASSUME FilesInv, [Next]_vars
             PROVE  KeeperHasFile'
  OBVIOUS
<1> USE NoFileAssumption
    DEF FilesInv, TypeOK, FillerMadeIt, KeeperHasFile, Go, Steps, Over,
        MnemonicFiles, ConfigFiles, Modes, Wallets
<1>1. ASSUME NEW r \in Runs, Start(r) PROVE KeeperHasFile'
  BY <1>1 DEF Start
<1>2. ASSUME NEW r \in Runs, Prices(r) PROVE KeeperHasFile'
  BY <1>2 DEF Prices, readPrices
<1>3. ASSUME NEW r \in Runs, MakeMnemonic(r) PROVE KeeperHasFile'
  BY <1>3 DEF MakeMnemonic, NewFile
<1>4. ASSUME NEW r \in Runs, FillMnemonic(r) PROVE KeeperHasFile'
  BY <1>4 DEF FillMnemonic
<1>5. ASSUME NEW r \in Runs, KeepStat(r) PROVE KeeperHasFile'
  BY <1>5 DEF KeepStat
<1>6. ASSUME NEW r \in Runs, KeepChmod(r) PROVE KeeperHasFile'
  BY <1>6 DEF KeepChmod
<1>7. ASSUME NEW r \in Runs, KeepRead(r) PROVE KeeperHasFile'
  BY <1>7 DEF KeepRead
<1>8. ASSUME NEW r \in Runs, OpenConfig(r) PROVE KeeperHasFile'
  BY <1>8 DEF OpenConfig, Opened
<1>9. ASSUME NEW r \in Runs, WriteConfig(r) PROVE KeeperHasFile'
  BY <1>9 DEF WriteConfig
<1>10. ASSUME NEW r \in Runs, SealConfig(r) PROVE KeeperHasFile'
  BY <1>10 DEF SealConfig
<1>11. ASSUME NEW r \in Runs, LoadConfig(r) PROVE KeeperHasFile'
  BY <1>11 DEF LoadConfig
<1>12. ASSUME NEW r \in Runs, ShowAddress(r) PROVE KeeperHasFile'
  BY <1>12 DEF ShowAddress
<1>13. ASSUME NEW r \in Runs, Crash(r) PROVE KeeperHasFile'
  BY <1>13 DEF Crash
<1>14. CASE RemoveEmpty
  BY <1>14 DEF RemoveEmpty, Running
<1>15. CASE UNCHANGED vars
  BY <1>15 DEF vars
<1> QED
  BY <1>1, <1>2, <1>3, <1>4, <1>5, <1>6, <1>7, <1>8, <1>9, <1>10, <1>11, <1>12, <1>13,
     <1>14, <1>15
  DEF Next, runInit, makeMnemonic, keepMnemonic, writeConfigFile, AllOver

\* A wallet that some run has stays in the file.
LEMMA WalletStep == FilesInv /\ [Next]_vars => WalletInFile'
<1> SUFFICES ASSUME FilesInv, [Next]_vars
             PROVE  WalletInFile'
  OBVIOUS
<1> USE NoFileAssumption, NamesAssumption
    DEF FilesInv, TypeOK, FillerMadeIt, KeeperHasFile, WalletInFile, Go, Steps,
        Over, MnemonicFiles, ConfigFiles, Modes, Wallets
<1>1. ASSUME NEW r \in Runs, Start(r) PROVE WalletInFile'
  BY <1>1 DEF Start
<1>2. ASSUME NEW r \in Runs, Prices(r) PROVE WalletInFile'
  BY <1>2 DEF Prices, readPrices
<1>3. ASSUME NEW r \in Runs, MakeMnemonic(r) PROVE WalletInFile'
  BY <1>3 DEF MakeMnemonic, NewFile
<1>4. ASSUME NEW r \in Runs, FillMnemonic(r) PROVE WalletInFile'
  BY <1>4 DEF FillMnemonic
<1>5. ASSUME NEW r \in Runs, KeepStat(r) PROVE WalletInFile'
  BY <1>5 DEF KeepStat
<1>6. ASSUME NEW r \in Runs, KeepChmod(r) PROVE WalletInFile'
  BY <1>6 DEF KeepChmod
<1>7. ASSUME NEW r \in Runs, KeepRead(r) PROVE WalletInFile'
  BY <1>7 DEF KeepRead
<1>8. ASSUME NEW r \in Runs, OpenConfig(r) PROVE WalletInFile'
  BY <1>8 DEF OpenConfig, Opened
<1>9. ASSUME NEW r \in Runs, WriteConfig(r) PROVE WalletInFile'
  BY <1>9 DEF WriteConfig
<1>10. ASSUME NEW r \in Runs, SealConfig(r) PROVE WalletInFile'
  BY <1>10 DEF SealConfig
<1>11. ASSUME NEW r \in Runs, LoadConfig(r) PROVE WalletInFile'
  BY <1>11 DEF LoadConfig
<1>12. ASSUME NEW r \in Runs, ShowAddress(r) PROVE WalletInFile'
  BY <1>12 DEF ShowAddress
<1>13. ASSUME NEW r \in Runs, Crash(r) PROVE WalletInFile'
  BY <1>13 DEF Crash
<1>14. CASE RemoveEmpty
  BY <1>14 DEF RemoveEmpty, Running
<1>15. CASE UNCHANGED vars
  BY <1>15 DEF vars
<1> QED
  BY <1>1, <1>2, <1>3, <1>4, <1>5, <1>6, <1>7, <1>8, <1>9, <1>10, <1>11, <1>12, <1>13,
     <1>14, <1>15
  DEF Next, runInit, makeMnemonic, keepMnemonic, writeConfigFile, AllOver

\* The modes only get stricter on the way to the end.
LEMMA SealedStep == FilesInv /\ [Next]_vars => Sealed'
<1> SUFFICES ASSUME FilesInv, [Next]_vars
             PROVE  Sealed'
  OBVIOUS
<1> USE NoFileAssumption
    DEF FilesInv, TypeOK, FillerMadeIt, KeeperHasFile, WalletInFile, Sealed, Go,
        Steps, Over, MnemonicFiles, ConfigFiles, Modes, Wallets
<1>1. ASSUME NEW r \in Runs, Start(r) PROVE Sealed'
  BY <1>1 DEF Start
<1>2. ASSUME NEW r \in Runs, Prices(r) PROVE Sealed'
  BY <1>2 DEF Prices, readPrices
<1>3. ASSUME NEW r \in Runs, MakeMnemonic(r) PROVE Sealed'
  BY <1>3 DEF MakeMnemonic, NewFile
<1>4. ASSUME NEW r \in Runs, FillMnemonic(r) PROVE Sealed'
  BY <1>4 DEF FillMnemonic
<1>5. ASSUME NEW r \in Runs, KeepStat(r) PROVE Sealed'
  BY <1>5 DEF KeepStat
<1>6. ASSUME NEW r \in Runs, KeepChmod(r) PROVE Sealed'
  BY <1>6 DEF KeepChmod
<1>7. ASSUME NEW r \in Runs, KeepRead(r) PROVE Sealed'
  BY <1>7 DEF KeepRead
<1>8. ASSUME NEW r \in Runs, OpenConfig(r) PROVE Sealed'
  BY <1>8 DEF OpenConfig, Opened
<1>9. ASSUME NEW r \in Runs, WriteConfig(r) PROVE Sealed'
  BY <1>9 DEF WriteConfig
<1>10. ASSUME NEW r \in Runs, SealConfig(r) PROVE Sealed'
  BY <1>10 DEF SealConfig
<1>11. ASSUME NEW r \in Runs, LoadConfig(r) PROVE Sealed'
  BY <1>11 DEF LoadConfig
<1>12. ASSUME NEW r \in Runs, ShowAddress(r) PROVE Sealed'
  BY <1>12 DEF ShowAddress
<1>13. ASSUME NEW r \in Runs, Crash(r) PROVE Sealed'
  BY <1>13 DEF Crash
<1>14. CASE RemoveEmpty
  BY <1>14 DEF RemoveEmpty, Running
<1>15. CASE UNCHANGED vars
  BY <1>15 DEF vars
<1> QED
  BY <1>1, <1>2, <1>3, <1>4, <1>5, <1>6, <1>7, <1>8, <1>9, <1>10, <1>11, <1>12, <1>13,
     <1>14, <1>15
  DEF Next, runInit, makeMnemonic, keepMnemonic, writeConfigFile, AllOver

\* At the start no run has a wallet, and the old file holds the old one.
LEMMA FilesInit == Init => FilesInv
  BY NamesAssumption, NoFileAssumption
  DEF Init, FilesInv, TypeOK, FillerMadeIt, KeeperHasFile, WalletInFile, Sealed,
      Steps, Over, MnemonicFiles, ConfigFiles, Modes, Wallets

\* The invariant is inductive.
LEMMA FilesStep == FilesInv /\ [Next]_vars => FilesInv'
  BY TypeStep, FillerStep, KeeperStep, WalletStep, SealedStep DEF FilesInv

\* Every state of init has its type: no step of any run, in any order, touches a
\* file that is not there.
THEOREM FileTypes == Spec => []TypeOK
<1>1. FilesInv => TypeOK
  BY DEF FilesInv
<1> QED
  BY <1>1, FilesInit, FilesStep, PTL DEF Spec

\* The address that init shows stays that of the wallet in the file, for any
\* number of runs, crashes and failed writes: runInit, makeMnemonic and
\* keepMnemonic together never lose a wallet that a customer may have funded.
THEOREM WalletsKept == Spec => []ShownWalletKept
<1>1. FilesInv => ShownWalletKept
  BY DEF FilesInv, WalletInFile, ShownWalletKept
<1> QED
  BY <1>1, FilesInit, FilesStep, PTL DEF Spec

\* After a run that ended well both files are private, whatever their mode was
\* before: the chmods of keepMnemonic and writeConfigFile miss no path.
THEOREM FilesPrivate == Spec => []BothPrivate
<1>1. FilesInv => BothPrivate
  BY DEF FilesInv, Sealed, BothPrivate
<1> QED
  BY <1>1, FilesInit, FilesStep, PTL DEF Spec
-----------------------------------------------------------------------------
\* No step of init changes a mnemonic file with a text in it, with or without
\* -force: makeMnemonic creates with O_EXCL and fills only what it created.
THEOREM MnemonicFixed == Spec => WalletNeverCut
<1> DEFINE Same == mnemonic # NoFile /\ mnemonic.text # "empty" =>
                      /\ mnemonic' # NoFile
                      /\ mnemonic'.of = mnemonic.of /\ mnemonic'.text = mnemonic.text
<1>1. ASSUME FilesInv, Next PROVE Same
  <2> USE <1>1, NoFileAssumption
      DEF FilesInv, TypeOK, FillerMadeIt, KeeperHasFile, MnemonicFiles, Wallets, Modes
  <2>1. ASSUME NEW r \in Runs, MakeMnemonic(r) PROVE Same
    BY <2>1 DEF MakeMnemonic
  <2>2. ASSUME NEW r \in Runs, FillMnemonic(r) PROVE Same
    BY <2>2 DEF FillMnemonic
  <2>3. ASSUME NEW r \in Runs, KeepChmod(r) PROVE Same
    BY <2>3 DEF KeepChmod
  <2>4. CASE RemoveEmpty
    BY <2>4 DEF RemoveEmpty
  <2>5. CASE UNCHANGED mnemonic
    BY <2>5
  <2> QED
    BY <2>1, <2>2, <2>3, <2>4, <2>5
    DEF Next, runInit, makeMnemonic, keepMnemonic, writeConfigFile, AllOver, vars,
        Start, Prices, KeepStat, KeepRead, OpenConfig, WriteConfig, SealConfig,
        LoadConfig, ShowAddress, Crash
<1>2. FilesInv /\ [Next]_vars => [Same]_vars
  BY <1>1
<1> QED
  BY <1>2, FilesInit, FilesStep, PTL DEF Spec, WalletNeverCut
-----------------------------------------------------------------------------
\* Without -force O_EXCL lets one run through, for good.
LEMMA WriterStep == FilesInv /\ OneWriter /\ [Next]_vars => OneWriter'
<1> SUFFICES ASSUME FilesInv, OneWriter, [Next]_vars
             PROVE  OneWriter'
  OBVIOUS
<1> USE NamesAssumption, NoFileAssumption
    DEF FilesInv, TypeOK, Sealed, OneWriter, Writers, Go, Steps, Over,
        MnemonicFiles, ConfigFiles, Modes, Wallets
<1>1. ASSUME NEW r \in Runs, Start(r) PROVE OneWriter'
  BY <1>1 DEF Start
<1>2. ASSUME NEW r \in Runs, Prices(r) PROVE OneWriter'
  BY <1>2 DEF Prices, readPrices
<1>3. ASSUME NEW r \in Runs, MakeMnemonic(r) PROVE OneWriter'
  BY <1>3 DEF MakeMnemonic, NewFile
<1>4. ASSUME NEW r \in Runs, FillMnemonic(r) PROVE OneWriter'
  BY <1>4 DEF FillMnemonic
<1>5. ASSUME NEW r \in Runs, KeepStat(r) PROVE OneWriter'
  BY <1>5 DEF KeepStat
<1>6. ASSUME NEW r \in Runs, KeepChmod(r) PROVE OneWriter'
  BY <1>6 DEF KeepChmod
<1>7. ASSUME NEW r \in Runs, KeepRead(r) PROVE OneWriter'
  BY <1>7 DEF KeepRead
<1>8. ASSUME NEW r \in Runs, OpenConfig(r) PROVE OneWriter'
  <2> SUFFICES ASSUME \A s \in Runs : ~force[s] PROVE OneWriter'
    BY <1>8 DEF OpenConfig
  <2>1. CASE Go(r, "failed") /\ UNCHANGED config
    <3>1. Writers' \subseteq Writers /\ \A s \in Writers' : step'[s] = step[s]
      BY <1>8, <2>1 DEF OpenConfig
    <3> QED
      BY <2>1, <3>1
  <2>2. CASE config = NoFile /\ Go(r, "body") /\ config' = Opened
    <3>1. config' # NoFile /\ config'.text = {}
      BY <2>2 DEF Opened
    <3>2. \A s \in Writers' : s = r /\ step'[s] = "body"
      BY <2>2
    <3> QED
      BY <3>1, <3>2
  <2> QED
    BY <1>8, <2>1, <2>2 DEF OpenConfig
<1>9. ASSUME NEW r \in Runs, WriteConfig(r) PROVE OneWriter'
  <2> SUFFICES ASSUME \A s \in Runs : ~force[s] PROVE OneWriter'
    BY <1>9 DEF WriteConfig
  <2>1. /\ config # NoFile /\ config.text = {}
        /\ \A s \in Writers : s = r
    BY <1>9 DEF WriteConfig
  <2>2. CASE \E s \in {"seal", "failed"} : Go(r, s) /\ config' = [config EXCEPT !.text = {r}]
    <3>1. config' # NoFile /\ config'.text = {r}
      BY <2>1, <2>2
    <3>2. \A s \in Writers' : s = r /\ step'[s] = "seal"
      BY <2>1, <2>2
    <3> QED
      BY <3>1, <3>2
  <2>3. CASE Go(r, "failed") /\ UNCHANGED config
    <3>1. Writers' = {}
      BY <2>1, <2>3
    <3> QED
      BY <2>1, <2>3, <3>1
  <2> QED
    <3>1. \A rest \in SUBSET config.text : {r} \cup rest = {r}
      BY <2>1
    <3> QED
      BY <1>9, <2>2, <2>3, <3>1 DEF WriteConfig
<1>10. ASSUME NEW r \in Runs, SealConfig(r) PROVE OneWriter'
  BY <1>10 DEF SealConfig
<1>11. ASSUME NEW r \in Runs, LoadConfig(r) PROVE OneWriter'
  BY <1>11 DEF LoadConfig
<1>12. ASSUME NEW r \in Runs, ShowAddress(r) PROVE OneWriter'
  BY <1>12 DEF ShowAddress
<1>13. ASSUME NEW r \in Runs, Crash(r) PROVE OneWriter'
  BY <1>13 DEF Crash
<1>14. CASE RemoveEmpty
  BY <1>14 DEF RemoveEmpty, Running
<1>15. CASE UNCHANGED vars
  BY <1>15 DEF vars
<1> QED
  BY <1>1, <1>2, <1>3, <1>4, <1>5, <1>6, <1>7, <1>8, <1>9, <1>10, <1>11, <1>12, <1>13,
     <1>14, <1>15
  DEF Next, runInit, makeMnemonic, keepMnemonic, writeConfigFile, AllOver

\* Runs without -force never cut the same configuration file, although each
\* of them looked for it long before it writes: writeConfigFile uses O_EXCL.
THEOREM ConfigsOwned == Spec => []ConfigOwned
<1>1. Init => OneWriter
  BY NamesAssumption DEF Init, OneWriter, Writers
<1>2. OneWriter => ConfigOwned
  BY DEF OneWriter, Writers, ConfigOwned
<1> QED
  BY <1>1, <1>2, FilesInit, FilesStep, WriterStep, PTL DEF Spec
=============================================================================
