------------------------------ MODULE MCPipeline ------------------------------
(* A task with chat sources has one run, no schedule, and nobody subscribes     *)
(* before its fetch is over; the runs of a task with documents only make one    *)
(* attempt. No work is queued once every run is claimed, one cleanup callback   *)
(* waits for the lock at a time, and nothing is looked at after the end of the  *)
(* connections or the known loss of a terminal frame. A fetch is cut short in   *)
(* one place at most.                                                           *)
EXTENDS Pipeline

Bounds ==
    /\ (Claimed = Runs => task.status # "pending")
    /\ Cardinality(timers.fired) <= 1
    /\ (\E c \in Conns : conn[c].at \in {"off", "open"} /\ ~conn[c].lostEnd)
    /\ (task.kind = "document" => \A r \in Runs : run[r].model = 1 /\ run[r].attempt = 1)
    /\ (task.kind # "document" =>
        /\ Claimed \subseteq {1} /\ ~task.scheduled
        /\ (f.at # "none" => /\ Cardinality(f.cut) <= 1
                             /\ \A c \in Conns : conn[c].at = "off"))

ChannelSeqOfThree == <<"c1", "c2", "c3">>
=============================================================================
