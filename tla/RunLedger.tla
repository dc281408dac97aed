------------------------------ MODULE RunLedger ------------------------------
(***************************************************************************)
(* What the asynchronous interface promises about runs, without saying how *)
(* (IModelManagerListener and HIAI_MR_ModelManager_RunAsync): an accepted  *)
(* run is pending until it ends, it ends once, and it ends by its result   *)
(* reaching the user, by the user being told that the service died, or by  *)
(* the user destroying the manager that accepted it, after which nothing   *)
(* of that manager is reported.                                            *)
(***************************************************************************)
CONSTANTS
  Run,      \* the runs that can be accepted
  Client,   \* the managers that accept them
  Nobody    \* the owner of a run not accepted yet

VARIABLES
  status,   \* how each run stands
  owner,    \* who accepted it
  open      \* the clients not destroyed yet

ledger == <<status, owner, open>>

Pending == {r \in Run : status[r] = "pending"}

PendingOf(c) == {r \in Pending : owner[r] = c}

Init ==
  /\ status = [r \in Run |-> "free"]
  /\ owner = [r \in Run |-> Nobody]
  /\ open = Client

Accept(c, r) ==
  /\ c \in open
  /\ status[r] = "free"
  /\ status' = [status EXCEPT ![r] = "pending"]
  /\ owner' = [owner EXCEPT ![r] = c]
  /\ UNCHANGED open

Report(r) ==
  /\ status[r] = "pending"
  /\ owner[r] \in open
  /\ status' = [status EXCEPT ![r] = "reported"]
  /\ UNCHANGED <<owner, open>>

\* Every pending run ends, its owner having been told.
ServiceDied ==
  /\ status' = [r \in Run |-> IF r \in Pending THEN "died" ELSE status[r]]
  /\ UNCHANGED <<owner, open>>

\* The client goes; what it still had pending is dropped, or had already been
\* announced dead.
Close(c) ==
  /\ c \in open
  /\ open' = open \ {c}
  /\ \E dead \in SUBSET PendingOf(c) :
       status' = [r \in Run |-> IF r \in dead THEN "died"
                                ELSE IF r \in PendingOf(c) THEN "dropped"
                                ELSE status[r]]
  /\ UNCHANGED owner

Next ==
  \/ \E c \in Client, r \in Run : Accept(c, r)
  \/ \E r \in Run : Report(r)
  \/ ServiceDied
  \/ \E c \in Client : Close(c)

Spec == Init /\ [][Next]_ledger
=============================================================================
