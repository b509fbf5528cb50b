------------------------------ MODULE CredMonitor ------------------------------
(***************************************************************************)
(* The doMonitor thread of monitor.go: one pass of checkForChanges takes   *)
(* the mutex three times (keys, passwords, log files) and signals conmand  *)
(* without it.  Where it is (mpc): "sleep", "keys" (waiting for vault with *)
(* the mutex), "denied" (the same, vault's token has expired), "pw",       *)
(* "logs", "signal".                                                       *)
(***************************************************************************)
EXTENDS PodState

\* checkIfMountainConsoleKeysChanged starts.
CheckKeys ==
    /\ Up /\ mpc = "sleep" /\ MutexFree
    /\ restartConman' = FALSE
    /\ \E token \in TokenReads :
        IF NoKeyNeeded(token)
        THEN mpc' = "pw" /\ UNCHANGED currNodesMutex
        ELSE mpc' = "keys" /\ HoldMutex("monitor")
    /\ UNCHANGED <<owner, vault, phase, lists, targets, tailThreads, logRotConf,
                   wpc, hpc, cpc, conf, keys>>

\* ... and ends: it returns TRUE if the hash changed at any point of its wait.
KeysChecked ==
    /\ Up /\ mpc = "keys"
    /\ \/ KeyWritten /\ restartConman' = TRUE
       \/ KeyUnchanged /\ UNCHANGED restartConman
    /\ mpc' = "pw"
    /\ ReleaseMutex
    /\ UNCHANGED <<owner, vault, phase, lists, targets, tailThreads, logRotConf,
                   wpc, hpc, cpc, conf>>

CheckKeyWriteFails ==
    /\ Up /\ mpc = "keys"
    /\ KeyWriteFails
    /\ restartConman' = TRUE
    /\ UNCHANGED <<owner, vault, phase, lists, targets, tailThreads, logRotConf,
                   currNodesMutex, wpc, hpc, cpc, conf, mpc>>

CheckKeyDenied ==
    /\ Up /\ mpc = "keys"
    /\ KeyDenied
    /\ mpc' = "denied"
    /\ UNCHANGED <<owner, vault, phase, lists, targets, tailThreads, logRotConf,
                   currNodesMutex, wpc, hpc, cpc, conf, restartConman>>

\* checkIfRiverPasswordsChanged: a BMC without credentials is skipped, one that
\* conman was configured without counts as changed.
BadPasswordsChanged ==
    \E b \in PasswordBmcs :
        previousPasswords[b] # 0 /\ vaultPw[b] # previousPasswords[b]
PasswordsChanged ==
    LET currentPasswords == GetPasswords(PasswordBmcs)
    IN  \E b \in PasswordBmcs :
            /\ currentPasswords[b] # 0
            /\ currentPasswords[b] # previousPasswords[b]

CheckPasswords ==
    /\ Up /\ mpc = "pw"
    /\ \/ previousPasswords = NilPasswords /\ UNCHANGED restartConman
       \/ /\ previousPasswords # NilPasswords /\ MutexFree
          /\ restartConman' = (restartConman \/ PasswordsChanged)
    /\ mpc' = "logs"
    /\ UNCHANGED <<owner, vault, phase, lists, targets, tailThreads, logRotConf,
                   currNodesMutex, wpc, hpc, cpc, conf, keys>>

\* checkLogFiles needs the mutex to read the node names.
CheckLogFiles ==
    /\ Up /\ mpc = "logs" /\ MutexFree
    /\ mpc' = IF restartConman THEN "signal" ELSE "sleep"
    /\ UNCHANGED <<owner, vault, phase, lists, targets, tailThreads, logRotConf,
                   currNodesMutex, wpc, hpc, cpc, conf, keys, restartConman>>

\* The restart that checkForChanges decided on, without the mutex.
RestartConman ==
    /\ Up /\ mpc = "signal"
    /\ mpc' = "sleep"
    /\ SignalConmanTERM
    /\ UNCHANGED <<owner, vault, lists, targets, tailThreads, logRotConf,
                   currNodesMutex, wpc, hpc, conf, keys, restartConman>>
=============================================================================
