---------------------------- MODULE MCModuleMesh ----------------------------
(* Instances of ModuleMesh for TLC.                                          *)
EXTENDS ModuleMesh

Three == 1..3

Typed(what, module, to, value, fits, whom) ==
  [what |-> what, module |-> module, to |-> to, value |-> value, fits |-> fits, whom |-> whom]

\* Every kind of command: to one node, the neighbours, two hops away, all, a sink.
Several ==
  {Typed("set_active", "scan", to, TRUE, FALSE, 0) : to \in {1, HopsBase + 1, HopsBase + 2}}
  \cup {Typed("set_config", "status", 0, TRUE, TRUE, 0),
        Typed("set_config", "status", 2, FALSE, TRUE, 0),
        Typed("set_config", "status", 2, TRUE, FALSE, 0),
        Typed("get_config", "status", 1, FALSE, FALSE, 0),
        Typed("get_modules", "none", 2, FALSE, FALSE, 0),
        Typed("get_status", "status", ShortestSink, FALSE, FALSE, 0),
        Typed("get_device_info", "status", 1, FALSE, FALSE, 0),
        Typed("get_nearby", "status", 1, FALSE, FALSE, 0),
        Typed("get_connections", "status", 2, FALSE, FALSE, 0),
        Typed("reset_losses", "debug", 2, FALSE, FALSE, 0),
        Typed("reset", "debug", 1, FALSE, FALSE, 0),
        Typed("data", "none", 0, FALSE, FALSE, 0),
        Typed("enroll_node_id", "enroll", 2, FALSE, FALSE, 0),
        Typed("enroll_chip_id", "enroll", 0, FALSE, FALSE, 2),
        Typed("enroll_serial", "enroll", 1, FALSE, FALSE, 1)}

=============================================================================
