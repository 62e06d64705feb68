------------------------------- MODULE MCVfs -------------------------------
(* Instances of Vfs: a root volume "/" and the card "/sd", or another volume *)
(* dev in its place, and names of files on them: in_sd ("/sd/...") lies      *)
(* under both mount points, in_root ("/...") under the root only.            *)
EXTENDS Vfs, TLC

CONSTANTS root, sd, dev, in_root, in_sd

Prefix == [n \in Names |-> IF n = in_sd THEN MountPts ELSE MountPts \ {sd, dev}]
Len1 == [m \in MountPts |-> IF m = root THEN 1 ELSE 3]
Path == [m \in MountPts |-> IF m = root THEN in_root ELSE in_sd]

\* Bounds: the count that an unsupported vfs_opendir leaks; and the volume dev,
\* whose file system has no directory operations, is mounted alone or not at all.
Bound ==
  /\ \A m \in MountPts \ DirFs : open_files[m] <= 2
  /\ \A t \in Mounters : /\ req[t].mp = dev => list.tail \in {dev, NULL}
                         /\ list.tail = dev => req[t].mp = dev

Symmetric == Permutations(Users)
=============================================================================
