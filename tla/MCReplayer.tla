----------------------------- MODULE MCReplayer -----------------------------
(* Captures of three processes.  The named ones make main() block on a     *)
(* full queue while workers wait for one it has not created (Blocked),     *)
(* release full rounds (Rounds), and contain a process that is counted but *)
(* never gets a worker (Ghost); Short is every capture of two records.     *)
EXTENDS Replayer

Rec(p, k) == [pid |-> p, kind |-> k]

Blocked == <<Rec(1, "io"), Rec(1, "plain"), Rec(1, "plain"), Rec(2, "io")>>
Rounds == <<Rec(1, "io"), Rec(2, "io"), Rec(3, "io"), Rec(3, "io")>>
Ghost == <<Rec(3, "filtered"), Rec(1, "io"), Rec(2, "io"), Rec(2, "malformed"), Rec(1, "exempt")>>
Short == UNION {[1 .. n -> [pid : {1, 2}, kind : Kinds]] : n \in 0 .. 2}

ThreePids == {1, 2, 3}
Captures == {Blocked, Rounds, Ghost} \cup Short
============================================================================
