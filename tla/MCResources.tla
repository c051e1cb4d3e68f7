---------------------------- MODULE MCResources ----------------------------
EXTENDS Resources

\* An instance with everything on that is on by default.
Default ==
    [account |-> TRUE, policy |-> TRUE, token |-> "generated", config |-> "inline", mesh |-> FALSE,
     data |-> "own", browser |-> "off", pdb |-> TRUE, hpa |-> FALSE, suspended |-> FALSE,
     schedule |-> FALSE, ingress |-> "off", route |-> FALSE, metrics |-> TRUE, monitor |-> FALSE,
     rule |-> FALSE, dashboards |-> FALSE]

\* The user toggles what belongs together.
Storage == {Default, [Default EXCEPT !.data = "claim"], [Default EXCEPT !.hpa = TRUE]}
Scaling == {[Default EXCEPT !.data = "off", !.suspended = TRUE], [Default EXCEPT !.data = "off"],
            [Default EXCEPT !.data = "off", !.hpa = TRUE],
            [Default EXCEPT !.data = "off", !.hpa = TRUE, !.suspended = TRUE]}
Browser == {[Default EXCEPT !.pdb = FALSE, !.browser = b] : b \in {"off", "own", "claim"}}
Secrets == {[Default EXCEPT !.config = "ref", !.mesh = b, !.token = t] :
               b \in {TRUE}, t \in {"generated", "theirs"}}
           \cup {[Default EXCEPT !.config = "ref", !.account = FALSE, !.policy = FALSE]}
Exposed == {[Default EXCEPT !.account = FALSE, !.ingress = i] :
               i \in {"off", "open", "traefik"}}
Observed == {[Default EXCEPT !.policy = FALSE, !.metrics = b, !.monitor = TRUE, !.rule = b, !.route = b,
                             !.dashboards = b] : b \in BOOLEAN}
            \cup {[Default EXCEPT !.policy = FALSE]}
Backups == {[Default EXCEPT !.rule = TRUE, !.schedule = b] : b \in BOOLEAN}
           \cup {[Default EXCEPT !.rule = TRUE, !.schedule = TRUE, !.data = "off"]}

AllFamilies == {Storage, Scaling, Browser, Secrets, Exposed, Observed, Backups}
=============================================================================
