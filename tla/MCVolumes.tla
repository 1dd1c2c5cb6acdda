------------------------------ MODULE MCVolumes ------------------------------
(* An instance of Volumes: two partitions, the first with an automount in every directory. *)
EXTENDS Volumes

MCFirst == [d \in Disks |-> IF d = 11 THEN CHOOSE t \in Forced : TRUE ELSE CHOOSE t \in Types : t \notin Forced]

MCFstab == {<<11, m>> : m \in Dirs}
=============================================================================
