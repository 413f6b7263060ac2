---------------------------- MODULE MCMobileCore ----------------------------
(* Small instances of MobileCore for TLC. *)
EXTENDS MobileCore, TLC

\* No operator tells two profiles apart otherwise than by equality.
ProfileSymmetry == Permutations(Profiles)

\* The operations that start, use and stop the Node, and a Node that reports one stage.
\* The others neither wait nor change what a waiting call waits for; get_status only
\* refreshes, as each of these does before it answers.
LifecycleNext ==
    \/ start \/ start_engine \/ stop_engine("shutdown")
    \/ \E c \in Configs : configure(c)
    \/ \E w \in Wallets : import_wallet(w)
    \/ CallStep \/ BootStep \/ NodeStop \/ finish \/ WorkerStep
    \/ \E r \in Runs : store_route_stage(r) \/ report_route_stage(r, 1)

LifecycleSpec == Init /\ [][LifecycleNext]_vars /\ Fairness
=============================================================================
