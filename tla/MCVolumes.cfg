CONSTANTS
  Nodes = {n1, n2}
  Disks = {11, 12}
  Dirs = {m}
  Apps = {a}
  Types = {ext4, ntfs}
  First <- MCFirst
  Forced = {ntfs}
  Fallback = {ntfs}
  Fstab <- MCFstab
  Limit = 1
  MaxOps = 2
  MaxActs = 2
  MaxOutside = 2
  MaxFaults = 1
SPECIFICATION Spec
INVARIANTS
  TypeOK
  TouchesOnlyWhatWasMeant
  RecordIsTrue
  ListedOnce
CHECK_DEADLOCK FALSE
