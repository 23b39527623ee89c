----------------------- MODULE MCPermissionGroupsSerial -----------------------
(***************************************************************************)
(* PermissionGroupsSerial on small instances, of two kinds: one request at *)
(* a time, with alone = TRUE, and three that contend for one group, with   *)
(* alone = FALSE; either with one refused call.                            *)
(***************************************************************************)
EXTENDS PermissionGroupsSerial, MCPermissionGroups

MCSerialInit ==
    /\ MCInit /\ SerialInit
    /\ \/ alone /\ job[3] = (CHOOSE j \in Jobs : TRUE)
       \/ ~alone /\ \A r \in Reqs : job[r] \in ContestJobs

\* Request 1 and then request 2, out of all of them.
InTurn == /\ alone'
          /\ ~Taken(3)
          /\ Taken(2) => pc[1] # "new"

MCSerialNext == Next /\ Watch /\ (alone => InTurn)

MCSerialSpec == MCSerialInit /\ [][MCSerialNext]_<<vars, history>>
===============================================================================
