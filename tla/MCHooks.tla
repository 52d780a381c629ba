------------------------------ MODULE MCHooks -------------------------------
(* The runlevel needs dhcp and sync.  dhcp provides net, which sync needs;   *)
(* sync is to be started last; dhcp starts and stops it along with itself.   *)
(* static conflicts with dhcp and requires a file.                           *)
EXTENDS MainLoop

D(k, n) == [kind |-> k, on |-> n]
MCNames == {"rl", "dhcp", "sync", "static", "net"}
MCType == [s \in MCNames |-> CASE s = "rl" -> "runlevel" [] s = "net" -> "provided" [] OTHER -> "service"]
MCDeps == [rl |-> <<D("NEED", "dhcp"), D("NEED", "sync")>>,
           sync |-> <<D("NEED", "dhcp"), D("NEED", "net")>>, dhcp |-> <<>>, static |-> <<>>, net |-> <<>>]
MCOptions ==
    [s \in MCNames |->
        CASE s = "dhcp" -> [NoOptions EXCEPT !.provide = <<"net">>, !.conflict = <<"static">>, !.also_start = <<"sync">>, !.also_stop = <<"sync">>]
          [] s = "static" -> [NoOptions EXCEPT !.conflict = <<"dhcp">>, !.require_file = {"ifcfg"}]
          [] s = "sync" -> [NoOptions EXCEPT !.last = TRUE, !.lockfile = TRUE]
          [] OTHER -> NoOptions]
\* For MCWaitFile.cfg: dhcp waits for a file.
MCFileOptions == [s \in MCNames |-> IF s = "dhcp" THEN [NoOptions EXCEPT !.wait_for_file = {"ifcfg"}] ELSE NoOptions]
MCAvailable == MCNames \ {"net"}
MCIsChangeHooks == <<"also", "conflict", "critical", "lockfile", "provide">>
MCStartDepMetHooks == <<"fstat", "last", "synchron">>
=============================================================================
