---------------------------- MODULE MCThreadPool ----------------------------
(* Two workers, two producers, and queues of one place. *)
EXTENDS ThreadPool

MCWorkers == <<"w1", "w2">>
MCProducers == <<"p1", "p2">>
MCThreads == {"main", "w1", "w2", "p1", "p2"}
MCMutexes == {"pool", "results", "w1", "w2", "p1", "p2"}
MCConditions == {"notEmpty", "notFull", "resultsNotEmpty", "resultsNotFull",
                 "w1", "w2", "p1", "p2"}
=============================================================================
