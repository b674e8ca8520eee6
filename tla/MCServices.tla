----------------------------- MODULE MCServices -----------------------------
(***************************************************************************)
(* Instances for TLC of three services that keep state across messages:    *)
(* the backup (BackupSession), the web inspector (WebInspector) and the    *)
(* start of a test plan (TestManager).  They share no state; `service`     *)
(* says which one moves in a behaviour.                                    *)
(***************************************************************************)
EXTENDS BackupSession, WebInspector, TestManager

VARIABLE service

MCInit ==
    /\ service \in {"backup", "web", "test"}
    /\ BackupInit /\ WebInit /\ TestInit
    /\ service # "backup" => request = "other" /\ tree = (CHOOSE t \in Trees : TRUE)
    /\ service # "web" => session = "inspector"
    /\ service # "test" => command = "runtest"

MCNext ==
    /\ \/ service = "backup" /\ BackupNext /\ UNCHANGED <<webVars, testVars>>
       \/ service = "web" /\ WebNext /\ UNCHANGED <<backupVars, testVars>>
       \/ service = "test" /\ TestNext /\ UNCHANGED <<backupVars, webVars>>
    /\ UNCHANGED service

\* The fairness of TestManager.
MCSpec ==
    /\ MCInit /\ [][MCNext]_<<backupVars, webVars, testVars, service>>
    /\ WF_testVars(service = "test" /\ Receives)
=============================================================================
