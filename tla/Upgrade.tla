------------------------------ MODULE Upgrade ------------------------------
(***************************************************************************)
(* mysql_upgrade (internal/actions/system.go, MySQLUpgrade): a command in  *)
(* the container of the database and, if it has changed anything, a        *)
(* restart.  Docker carries out what it was told also when the call has    *)
(* gone, and the container is replaced by that of a newer image.           *)
(***************************************************************************)
EXTENDS Naturals

CONSTANTS
    Caller,     \* the calls of the action
    Nobody,
    MaxVersion  \* bound on the replacements

ASSUME CallerAssumption == Nobody \notin Caller /\ MaxVersion \in Nat

VARIABLES
    at,       \* where a call is
    of,       \* the version of the container it has chosen
    output,   \* what its command has said
    pending,  \* the commands Docker has still to carry out
    version,  \* the version of the container there is
    tables,   \* the version the tables are made for
    loaded,   \* the version they had when the server was started
    by        \* history: the call that has upgraded them last

upgradeVars == <<at, of, output, pending, version, tables, loaded, by>>

UpgradeTypeOK ==
    /\ at \in [Caller -> {"begin", "run", "restart",
                          "already", "applied", "error", "danger"}]
    /\ of \in [Caller -> 0 .. MaxVersion]
    /\ output \in [Caller -> {"none", "already", "applied", "failed"}]
    /\ pending \subseteq Caller
    /\ version \in 0 .. MaxVersion
    /\ tables \in 0 .. version
    /\ loaded \in 0 .. tables
    /\ by \in Caller \cup {Nobody}

UpgradeInit ==
    /\ at = [c \in Caller |-> "begin"]
    /\ of = [c \in Caller |-> 0]
    /\ output = [c \in Caller |-> "none"]
    /\ pending = {}
    /\ version = 0
    /\ tables = 0
    /\ loaded = 0
    /\ by = Nobody

Goes(c, place) == at' = [at EXCEPT ![c] = place]

-----------------------------------------------------------------------------
\* The container is looked up and the command given.
Start(c) ==
    /\ at[c] = "begin"
    /\ Goes(c, "run")
    /\ of' = [of EXCEPT ![c] = version]
    /\ pending' = pending \cup {c}
    /\ UNCHANGED <<output, version, tables, loaded, by>>

\* Variant: the server is left alone.
OutputReadOnly(c) ==
    /\ at[c] = "run"
    /\ output[c] # "none"
    /\ Goes(c, IF output[c] = "failed" THEN "error" ELSE output[c])
    /\ UNCHANGED <<of, output, pending, version, tables, loaded, by>>

\* The command has ended: only what has changed is restarted.
OutputRead(c) ==
    /\ at[c] = "run"
    /\ output[c] # "none"
    /\ Goes(c, CASE output[c] = "failed" -> "error"
                 [] output[c] = "already" -> "already"
                 [] output[c] = "applied" -> "restart")
    /\ UNCHANGED <<of, output, pending, version, tables, loaded, by>>

\* There is no container, Docker fails, or the client has hung up.
Fail(c) ==
    /\ at[c] \in {"begin", "run", "restart"}
    /\ Goes(c, "danger")
    /\ UNCHANGED <<of, output, pending, version, tables, loaded, by>>

\* A container that is no longer there cannot be restarted.
Restart(c) ==
    /\ at[c] = "restart"
    /\ of[c] = version
    /\ loaded' = tables
    /\ Goes(c, "applied")
    /\ UNCHANGED <<of, output, pending, version, tables, by>>

-----------------------------------------------------------------------------
(* The container                                                            *)

\* The command: the tables are made for the version of the server, unless
\* they are already; it may fail, before that or after.
RunUpgrade(c) ==
    /\ c \in pending
    /\ pending' = pending \ {c}
    /\ \/ /\ tables < version
          /\ tables' = version
          /\ by' = c
          /\ output' = [output EXCEPT ![c] = "applied"]
       \/ /\ tables = version
          /\ output' = [output EXCEPT ![c] = "already"]
          /\ UNCHANGED <<tables, by>>
       \/ /\ output' = [output EXCEPT ![c] = "failed"]
          /\ tables' \in {tables, version}
          /\ by' = IF tables' = tables THEN by ELSE c
    /\ UNCHANGED <<at, of, version, loaded>>

\* Somebody else restarts the container, or a call that has gone.
RestartedElsewhere ==
    /\ loaded' = tables
    /\ UNCHANGED <<at, of, output, pending, version, tables, by>>

\* The container is replaced, and what ran in it is gone.
Replaced ==
    /\ version < MaxVersion
    /\ version' = version + 1
    /\ loaded' = tables
    /\ pending' = {}
    /\ UNCHANGED <<at, of, output, tables, by>>

UpgradeNext ==
    \/ \E c \in Caller : Start(c) \/ OutputRead(c) \/ Fail(c) \/ Restart(c) \/ RunUpgrade(c)
    \/ RestartedElsewhere
    \/ Replaced

UpgradeSpec == UpgradeInit /\ [][UpgradeNext]_upgradeVars

-----------------------------------------------------------------------------
(* A server that has not been restarted since its tables were upgraded is   *)
(* about to be, or the call that upgraded them has answered with an error:  *)
(* whoever is told that an upgrade was applied need not restart anything    *)
(* (system.go:104-130).                                                     *)
UpgradeIsLoaded ==
    loaded # tables => by \in Caller /\ at[by] \in {"run", "restart", "error", "danger"}
============================================================================
