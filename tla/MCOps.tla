------------------------------- MODULE MCOps --------------------------------
(***************************************************************************)
(* What runs beside the flows, for TLC: the bounded cache, the metrics and *)
(* the life of the process.  They share no state; a behaviour is about one *)
(* of them and the others stay where they start, with nothing to do.       *)
(***************************************************************************)
EXTENDS FifoCache, Metrics, AppLifecycle, TLC

VARIABLE part   \* the component this behaviour is about (never changes)

opsVars == <<part, cacheVars, metricsVars, appVars>>

(***************************************************************************)
(* Metrics: small deployments, each about one part of the crate.           *)
(***************************************************************************)
FlowOf(name, source, sink, storage) ==
    [name |-> name, source |-> source, sink |-> sink, storage |-> storage]

One == <<FlowOf("f", "src", "snk", "sto")>>
Shared == <<FlowOf("f", "src", "snk", "sto"), FlowOf("g", "src", "snk2", "sto")>>

NoLoad ==
    [flows |-> <<>>, callers |-> <<>>, conns |-> {}, scrapers |-> {}, batches |-> {NoRows},
     maxTime |-> 0, maxRuns |-> 0, maxScrapes |-> 0]

MCList ==
   <<\* a flow is timed while the window slides, and scraped
     [NoLoad EXCEPT !.flows = One, !.scrapers = {"s1"}, !.maxTime = 4, !.maxRuns = 2,
                  !.maxScrapes = 1],
     \* more phases, to fill the window with buckets
     [NoLoad EXCEPT !.flows = One, !.maxTime = 4, !.maxRuns = 4],
     \* a flow is timed while it is scraped twice
     [NoLoad EXCEPT !.flows = One, !.scrapers = {"s1"}, !.maxTime = 1, !.maxRuns = 2,
                  !.maxScrapes = 2],
     \* two flows share the recorders of a source and of a storage
     [NoLoad EXCEPT !.flows = Shared, !.scrapers = {"s1"}, !.maxTime = 1, !.maxRuns = 1,
                  !.maxScrapes = 1],
     \* batches of both operations, and the counters they move
     [NoLoad EXCEPT !.flows = One, !.batches = [Ops -> 0 .. 1], !.scrapers = {"s1"},
                  !.maxRuns = 3, !.maxScrapes = 2],
     \* three callers of two locks
     [NoLoad EXCEPT !.flows = Shared, !.callers = [c1 |-> "src", c2 |-> "src", c3 |-> "sto"],
                  !.maxTime = 2],
     \* parallel scrapes of the process
     [NoLoad EXCEPT !.scrapers = {"s1", "s2"}, !.maxTime = 2, !.maxScrapes = 2],
     \* a pool of three connections
     [NoLoad EXCEPT !.conns = {"m1", "m2", "m3"}],
     \* a pool that is scraped
     [NoLoad EXCEPT !.conns = {"m1"}, !.scrapers = {"s1"}, !.maxScrapes = 1]>>

MCDeployments == Range(MCList)

(***************************************************************************)
(* The process: the programs of main, and tasks that use one App at the    *)
(* same time, over storages of every kind.                                 *)
(***************************************************************************)
Backend(kind, tables) ==
    [kind |-> kind, tables |-> tables, create |-> TRUE, insert |-> TRUE, rows |-> {}]

Flow(storage, cdc) == [storage |-> storage, cdc |-> cdc]

\* One flow on one storage; two flows on two storages.
Single(st) ==
    [storages |-> [s |-> st], flows |-> [f |-> Flow("s", FALSE)], order |-> <<"f">>,
     metrics |-> "disabled", daemon |-> FALSE, programs |-> [main |-> <<>>]]

Double(s1, s2) ==
    [storages |-> [s |-> s1, r |-> s2],
     flows |-> [f |-> Flow("s", FALSE), g |-> Flow("r", TRUE)], order |-> <<"f", "g">>,
     metrics |-> "enabled", daemon |-> FALSE, programs |-> [main |-> <<>>]]

Kinds == {"postgres", "cockroachdb", "mysql", "mongodb"}

\* main: the subcommands validate, migrate and run --once.
Commands ==
    {[Single(Backend(k, n)) EXCEPT !.programs = [main |-> <<m>>]] :
        k \in Kinds, n \in {0, 1, 2}, m \in {"validate", "migrate", "run_once"}}

Unprivileged ==
    {[Single([Backend(k, n) EXCEPT !.create = FALSE, !.insert = FALSE])
        EXCEPT !.programs = [main |-> <<m>>]] :
        k \in Kinds, n \in {0, 2}, m \in {"validate", "run_once"}}

\* main: the daemon, on a migrated and on a fresh storage.
Daemons ==
    {[Single(Backend("postgres", n)) EXCEPT
        !.metrics = x, !.daemon = TRUE,
        !.programs = [main |-> <<"assemble", "spawn_metrics", "run_daemon", "abort", "join">>]] :
        n \in {0, 2}, x \in {"enabled", "disabled"}}

\* Two tasks of one process.
Together ==
    {[Double(Backend("postgres", 0), Backend("mysql", 1)) EXCEPT
        !.programs = [a |-> <<"run_once">>, b |-> p]] :
        p \in {<<"run_once">>, <<"assemble", "spawn_metrics">>, <<"spawn_metrics", "validate">>,
               <<"migrate", "validate">>}}

MCSetups == Commands \union Unprivileged \union Daemons \union Together

(***************************************************************************)
(* One of the three at a time.                                             *)
(***************************************************************************)
NoTasks == [Single(Backend("postgres", 0)) EXCEPT !.programs = <<>>]
OpsDeployments == MCDeployments \union {NoLoad}
OpsSetups == MCSetups \union {NoTasks}

OpsInit ==
    /\ part \in {"cache", "metrics", "app"}
    /\ CacheInit /\ MetricsInit /\ AppInit
    /\ (part = "metrics") = (deployment # NoLoad)
    /\ (part = "app") = (setup # NoTasks)

OpsNext ==
    \/ part = "cache" /\ CacheNext /\ UNCHANGED <<part, metricsVars, appVars>>
    \/ part = "metrics" /\ MetricsNext /\ UNCHANGED <<part, cacheVars, appVars>>
    \/ part = "app" /\ AppNext /\ UNCHANGED <<part, cacheVars, metricsVars>>

OpsSpec == OpsInit /\ [][OpsNext]_opsVars /\ Fairness
=============================================================================
