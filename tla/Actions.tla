------------------------------- MODULE Actions ------------------------------
(***************************************************************************)
(* The actions of several calls in a row side by side: access lists        *)
(* (Doveadm), directories of mailboxes (Maildir), the tables of the        *)
(* database (Upgrade).  They share no state, nor a container, so every     *)
(* step is one of a single family; a behaviour is about one of them, and   *)
(* nothing that holds of one depends on where the others are.              *)
(***************************************************************************)
EXTENDS Doveadm, Maildir, Upgrade

VARIABLE about  \* what the behaviour is about

vars == <<aclVars, dirVars, upgradeVars, about>>

TypeOK == AclTypeOK /\ DirTypeOK /\ UpgradeTypeOK

Init ==
    /\ AclInit
    /\ DirInit
    /\ UpgradeInit
    /\ about \in {"lists", "directories", "tables"}

Next ==
    /\ UNCHANGED about
    /\ \/ about = "lists" /\ AclNext /\ UNCHANGED <<dirVars, upgradeVars>>
       \/ about = "directories" /\ DirNext /\ UNCHANGED <<aclVars, upgradeVars>>
       \/ about = "tables" /\ UpgradeNext /\ UNCHANGED <<aclVars, dirVars>>

Spec == Init /\ [][Next]_vars
=============================================================================
