----------------------------- MODULE MCCampaign -----------------------------
(* Instances of Campaign: operations each on a key of its own.           *)
EXTENDS Campaign

AllPaths == {"k1", "k2", "k1.tmp", "k2.tmp", "dir"}
TmpFiles == <<"k1.tmp", "k2.tmp">>
TwoKeys == <<"k1", "k2">>
UnsafeAndInPlace == {unsafeKv, syncedInPlace}
RenameOnly == {syncedRename}
BothOrders == {ext4Journal, xfs}
OnlyXfs == {xfs}

=============================================================================
