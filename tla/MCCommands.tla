----------------------------- MODULE MCCommands -----------------------------
(* A runlevel that needs net, which requires fs; clients send commands.      *)
EXTENDS MainLoop

D(k, n) == [kind |-> k, on |-> n]
MCNames == {"rl", "fs", "net"}
MCType == [s \in MCNames |-> IF s = "rl" THEN "runlevel" ELSE "service"]
MCDeps == [rl |-> <<D("NEED", "net")>>, net |-> <<D("REQUIRE", "fs")>>, fs |-> <<>>]
MCOptions == [s \in MCNames |-> NoOptions]
NoHooks == <<>>
=============================================================================
