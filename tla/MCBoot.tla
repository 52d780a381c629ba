------------------------------ MODULE MCBoot --------------------------------
(* A boot: the runlevel needs net and log, net requires fs, log uses net.    *)
EXTENDS MainLoop

D(k, n) == [kind |-> k, on |-> n]
MCNames == {"rl", "fs", "net", "log"}
MCType == [s \in MCNames |-> IF s = "rl" THEN "runlevel" ELSE "service"]
MCDeps == [rl |-> <<D("NEED", "net"), D("NEED", "log")>>,
           net |-> <<D("REQUIRE", "fs")>>,
           log |-> <<D("USE", "net")>>,
           fs |-> <<>>]
MCOptions == [s \in MCNames |-> NoOptions]
NoHooks == <<>>
=============================================================================
