----------------------------- MODULE ConmanRunner -----------------------------
(***************************************************************************)
(* The runConman thread of conman.go: configure, start conmand, wait for   *)
(* it to exit, start over.  Where it is (cpc):                             *)
(*   "config"  before configConman (command is nil);                       *)
(*   "keys"    in configConman, waiting for the ssh key with the mutex;    *)
(*   "denied"  the same, and vault's token has expired: there is no way on;*)
(*   "launch"  configConman has returned with nodes, command is nil;       *)
(*   "set"     command is assigned, its process is not started;            *)
(*   "run"     conmand runs with the consoles of confFile;                 *)
(*   "term"    the same, and SIGTERM is on its way;                        *)
(*   "reap"    command.Wait has returned an error, command is still set.   *)
(***************************************************************************)
EXTENDS PodState

\* The consoles conmand is connected to.  Only this thread writes confFile, so
\* what the running conmand read from it is still what it holds.
Serving == IF cpc \in {"run", "term"} THEN confFile ELSE {}

\* updateConfigFile: the passwords and the file, unless the base configuration
\* says not to update and this is not the first time.
UpdateConfigFile ==
    IF forceConfigUpdate \/ WillUpdateConfig
    THEN /\ confFile' = CurrNodes
         /\ previousPasswords' = GetPasswords(PasswordBmcs)
    ELSE UNCHANGED <<confFile, previousPasswords>>

\* configConman up to its return, or up to the wait for the ssh key.
ConfigConman ==
    /\ Up /\ cpc = "config" /\ MutexFree
    /\ UpdateConfigFile
    /\ forceConfigUpdate' = FALSE
    /\ tailThreads' = tailThreads \cup CurrNodes
    /\ \E token \in TokenReads :
        IF NoKeyNeeded(token)
        THEN /\ cpc' = IF CurrNodes # {} THEN "launch" ELSE "config"
             /\ UNCHANGED currNodesMutex
        ELSE /\ cpc' = "keys"
             /\ HoldMutex("conman")
    /\ UNCHANGED <<owner, vault, phase, lists, targets, logRotConf, wpc, hpc,
                   keys, monitor>>

\* configConman waits in ensureMountainConsoleKeysPresent, then returns.
ConfigKeys ==
    /\ Up /\ cpc = "keys"
    /\ KeyWritten \/ KeyUnchanged
    /\ cpc' = IF CurrNodes # {} THEN "launch" ELSE "config"
    /\ ReleaseMutex
    /\ UNCHANGED <<owner, vault, phase, lists, targets, tailThreads, logRotConf,
                   wpc, hpc, conf, monitor>>

ConfigKeyDenied ==
    /\ Up /\ cpc = "keys"
    /\ KeyDenied
    /\ cpc' = "denied"
    /\ UNCHANGED <<owner, vault, phase, lists, targets, tailThreads, logRotConf,
                   currNodesMutex, wpc, hpc, conf, monitor>>

ConfigKeyWriteFails ==
    /\ Up /\ cpc = "keys"
    /\ KeyWriteFails
    /\ UNCHANGED <<owner, vault, phase, lists, targets, tailThreads, logRotConf,
                   currNodesMutex, wpc, hpc, cpc, conf, monitor>>

\* executeConman: the steps of its own, which take no lock.
ConmanStep(from, to) ==
    /\ Up /\ cpc \in from
    /\ cpc' = to
    /\ UNCHANGED <<owner, vault, phase, lists, targets, tailThreads, logRotConf,
                   currNodesMutex, wpc, hpc, conf, keys, monitor>>

NewCommand == ConmanStep({"launch"}, "set")
StartCommand == ConmanStep({"set"}, "run")

\* conmand exits, because it was told to or by itself; command.Wait may report
\* an error, and then executeConman pauses before it clears command.
ConmandExits ==
    \/ ConmanStep({"run", "term"}, "reap")
    \/ ConmanStep({"run", "term"}, "config")
ClearCommand == ConmanStep({"reap"}, "config")

\* The conmand that exits is found by watchForZombies, and its status collected
\* by killZombie, before command.Wait gets to it: command.Wait fails.  (A
\* logrotate collected in the same way only changes the exit code in the log.)
KillZombie == ConmanStep({"run", "term"}, "reap")
=============================================================================
