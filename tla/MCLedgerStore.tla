---------------------------- MODULE MCLedgerStore ----------------------------
(***************************************************************************)
(* Two updates at a time over two clusters; j1 and k1 carry the same id.   *)
(* The requests: the first complete listing of c, later ones of either     *)
(* cluster, an opening, a dismissal, a suppression and marking unread.     *)
(***************************************************************************)
EXTENDS LedgerStore

CONSTANTS j1, k1, c, d

MCJobs == {j1, k1}
MCClusters == {c, d}
MCClusterOf == [j \in MCJobs |-> IF j = j1 THEN c ELSE d]
MCIdOf == [j \in MCJobs |-> 1]
MCRequests ==
    {[op |-> "sync", jobs |-> {j1, k1}, active |-> {k1}, interactive |-> {k1},
      complete |-> {c}],
     [op |-> "sync", jobs |-> {k1}, active |-> {}, interactive |-> {}, complete |-> {}],
     [op |-> "open", job |-> j1],
     [op |-> "suppress", job |-> k1],
     [op |-> "dismiss", jobs |-> {j1, k1}, active |-> {k1}],
     [op |-> "autoAdd", enabled |-> TRUE],
     [op |-> "unread", id |-> 1]}
=============================================================================
