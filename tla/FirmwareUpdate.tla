--------------------------- MODULE FirmwareUpdate ---------------------------
(***************************************************************************)
(* What an update over Wi-Fi promises of the firmware the device boots      *)
(* (ota_update.c, ota_client.c): it changes only to an application image    *)
(* that was approved, its CRC checked in flash, when its installation was   *)
(* scheduled; no other image is approved from then until the installation   *)
(* has ended; and there is nothing to boot only while the slot is           *)
(* overwritten, for ever if the power fails just then.                      *)
(***************************************************************************)
CONSTANTS Images, Apps, None   \* the applications are some of the images

VARIABLES
  boots,       \* what the device boots, or None while it can boot nothing
  approved,    \* the staged image that may be installed, or None
  target       \* the image being installed, or None

vars == <<boots, approved, target>>

Init ==
  /\ boots \in Apps
  /\ approved = None
  /\ target = None

Approve(i) ==
  /\ boots # None /\ target = None
  /\ approved = None
  /\ approved' = i
  /\ UNCHANGED <<boots, target>>

Withdraw ==
  /\ boots # None
  /\ approved' = None
  /\ UNCHANGED <<boots, target>>

Schedule ==
  /\ boots # None /\ target = None
  /\ approved \in Apps
  /\ target' = approved
  /\ UNCHANGED <<boots, approved>>

\* The task finds no flash-safe zone, or the power fails before the first flash operation.
Cancel ==
  /\ boots # None /\ target # None
  /\ target' = None
  /\ UNCHANGED <<boots, approved>>

Overwrite ==
  /\ boots # None /\ target # None
  /\ boots' = None
  /\ UNCHANGED <<approved, target>>

\* The approval ends with the installation, unless the power fails between the two.
Install ==
  /\ boots = None /\ target # None
  /\ boots' = target
  /\ target' = None
  /\ approved' \in {approved, None}

Lose ==
  /\ target # None
  /\ boots' = None
  /\ target' = None
  /\ UNCHANGED approved

Next ==
  \/ \E i \in Images : Approve(i)
  \/ Withdraw \/ Schedule \/ Cancel \/ Overwrite \/ Install \/ Lose

Spec == Init /\ [][Next]_vars

\* What is being installed was approved, and nothing else has been approved since: its
\* approval stands or has been withdrawn (ota_update.c:950-960).
InstallsApproved ==
  /\ boots \in Apps \union {None}
  /\ target # None => target \in Apps /\ approved \in {target, None}

=============================================================================
