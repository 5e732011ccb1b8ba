------------------------------ MODULE VMService ------------------------------
(***************************************************************************)
(* What the commands promise about the one virtual machine they manage,    *)
(* without files, processes or steps: a disk that is provisioned once and  *)
(* kept until it is deleted, a machine that runs on that disk and on no    *)
(* other, and a note that the disk has been configured.                    *)
(***************************************************************************)
CONSTANTS
    Images,     \* identities of disks
    NoImage     \* no disk

VARIABLES
    disk,       \* the provisioned disk, or NoImage
    running,    \* the disk the machine runs on, or NoImage when it is off
    configured  \* whether bootstrap was recorded as done

Init ==
    /\ disk = NoImage
    /\ running = NoImage
    /\ configured = FALSE

Off == running = NoImage

Provision ==
    /\ Off /\ disk = NoImage
    /\ disk' \in Images
    /\ UNCHANGED <<running, configured>>

PowerOn ==
    /\ Off /\ disk # NoImage
    /\ running' = disk
    /\ UNCHANGED <<disk, configured>>

(* Asked for, or by itself.                                                *)
PowerOff ==
    /\ ~Off
    /\ running' = NoImage
    /\ UNCHANGED <<disk, configured>>

Configure ==
    /\ disk # NoImage
    /\ configured' = TRUE
    /\ UNCHANGED <<disk, running>>

(* Deletion takes the disk and the note in either order.                   *)
Delete ==
    /\ Off /\ disk # NoImage
    /\ disk' = NoImage
    /\ UNCHANGED <<running, configured>>

Forget ==
    /\ Off
    /\ configured' = FALSE
    /\ UNCHANGED <<disk, running>>

Next == Provision \/ PowerOn \/ PowerOff \/ Configure \/ Delete \/ Forget

Spec == Init /\ [][Next]_<<disk, running, configured>>
=============================================================================
