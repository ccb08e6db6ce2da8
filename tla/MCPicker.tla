------------------------------ MODULE MCPicker ------------------------------
(***************************************************************************)
(* Two clusters; the oldest job shares its name with the newest one of the *)
(* other cluster, so that rows group across tabs.  A bank with a script at *)
(* its root, one in a directory and one two directories deep.              *)
(***************************************************************************)
EXTENDS Picker

MCClusters == <<"c1", "c2">>
MCJobs == {"j1", "j2", "j3"}
MCClusterOf == [j \in MCJobs |-> IF j = "j3" THEN "c2" ELSE "c1"]
MCNameOf == [j \in MCJobs |-> IF j = "j2" THEN "solo" ELSE "pair"]
MCNumberOf == [j \in MCJobs |-> IF j = "j1" THEN 1 ELSE IF j = "j2" THEN 2 ELSE 3]
MCFirstListings ==
    {[j \in MCJobs |-> IF j = "j1" THEN "absent" ELSE IF j = "j2" THEN "completed" ELSE "pending"]}

MCScripts == <<"top", "mine", "deep">>
MCDirectories == <<<<"d">>, <<"d", "e">>>>
MCDirectoryOf ==
    [s \in ToSet(MCScripts) |->
        IF s = "top" THEN <<>> ELSE IF s = "mine" THEN <<"d">> ELSE <<"d", "e">>]
MCOriginOf ==
    [s \in ToSet(MCScripts) |->
        IF s = "top" THEN "c1" ELSE IF s = "mine" THEN "c2" ELSE "shared"]
=============================================================================
