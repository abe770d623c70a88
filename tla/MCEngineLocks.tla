---------------------------- MODULE MCEngineLocks ----------------------------
(* The timeshift thread, the statistics thread and two threads that call the *)
(* engine, rings attached and detached while the timeshift thread makes a    *)
(* pass.                                                                     *)
EXTENDS EngineLocks

MCThread == {"timeshift", "stats", "api1", "api2"}

Loop  == {"pass", "empty_pass", "ingest", "jump", "wildcard"}
Other == {"configure", "erase", "update", "add_sink", "remove_sink", "reset"}

MCConnecting == [t \in MCThread |-> CASE t = "timeshift" -> Loop
                                      [] t = "stats"     -> {"stats"}
                                      [] OTHER -> Other \cup {"connect", "disconnect", "remove"}]
=============================================================================
