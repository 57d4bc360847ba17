----------------------------- MODULE MCHelpersCache -----------------------------
(***************************************************************************)
(* HelpersCache with a storage that is mounted at one of two places, if at *)
(* all, or reached over the network, or of a kind this client lacks.       *)
(***************************************************************************)
EXTENDS HelpersCache, TLC

MCMounts == << [type |-> "fuse", top |-> "/mnt", path |-> "/mnt/onedata"],
               [type |-> "ext4", top |-> "/", path |-> "/"],
               [type |-> "nfs", top |-> "/mnt", path |-> "/mnt/a"],
               [type |-> "nfs", top |-> "/mnt", path |-> "/mnt/b"] >>
MCPoints == LET kept == MountPoints(MCMounts) IN [i \in DOMAIN kept |-> kept[i].path]

MCHelperParams == { [name |-> "DirectIO", args |-> "/provider"],
                    [name |-> "Ceph", args |-> "monitor"],
                    [name |-> "Unknown", args |-> ""] }
=================================================================================
