------------------------------ MODULE MCRouter ------------------------------
\* One internal and one external interface.  The frames differ from a good one
\* in the one thing each check of the router looks at, and the external ones in
\* all that the policy looks at.
EXTENDS Router, TLC

MCQuota == (0 :> 2) @@ (1 :> 1) @@ (2 :> 1)
MCRetryLimit == (0 :> 3) @@ (1 :> 2) @@ (2 :> 1)

Good == [source |-> "can", segment |-> "eth", type |-> "data", priority |-> 0,
         epoch |-> 1, header |-> TRUE, token |-> FALSE, tag |-> FALSE, sequence |-> 0]

Rated == [Good EXCEPT !.source = "eth", !.priority = 2, !.token = TRUE,
                      !.tag = TRUE, !.sequence = 1]

MCInputs ==
    {[Good EXCEPT !.priority = p] : p \in 0 .. 3}
    \cup {[Good EXCEPT !.header = FALSE], [Good EXCEPT !.type = "reserved"],
          [Good EXCEPT !.epoch = 2], [Good EXCEPT !.segment = "reserved"],
          [Good EXCEPT !.type = "heartbeat", !.priority = 3]}
    \cup {[Rated EXCEPT !.sequence = n, !.segment = s] : n \in 0 .. 1, s \in {"can", "eth"}}
    \cup {[Rated EXCEPT !.priority = 1, !.segment = s] : s \in {"can", "eth"}}
    \cup {[Rated EXCEPT !.token = FALSE], [Rated EXCEPT !.tag = FALSE],
          [Rated EXCEPT !.header = FALSE]}

Full == [enabled |-> TRUE, require_authentication |-> TRUE,
         require_integrity |-> TRUE, require_replay_protection |-> TRUE,
         allow_control_path |-> TRUE]
MCPolicies == {Full, [Full EXCEPT !.enabled = FALSE],
               [Full EXCEPT !.require_replay_protection = FALSE,
                            !.allow_control_path = FALSE]}
=============================================================================
