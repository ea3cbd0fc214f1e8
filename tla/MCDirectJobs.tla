---------------------------- MODULE MCDirectJobs ----------------------------
EXTENDS DirectJobs, TLC

CONSTANTS c1, c2, j1, j2

Batch == c1 :> j1 @@ c2 :> j1
One == c1 :> j1 @@ c2 :> Unused
Singles == c1 :> j1 @@ c2 :> j2

MCListings == {{}, {2}, {1, 2}}
MCOccupied == {{}, {2}}

\* Every outcome of two copies at once, of an employee who is blocked or not; a
\* copy whose retries are switched and that a crash may cut; requests and mishaps
\* around jobs that copy little.
Scenario(work, listed, active, who, requests, mishaps) ==
    [work : {work}, listed : {listed}, active : active, jobs : {who},
     requests : {requests}, mishaps : {mishaps}]

MCScenarios == UNION {
    Scenario("personal", {2}, BOOLEAN, Batch, 0, 0),
    Scenario("shared", {1, 2}, BOOLEAN, Batch, 0, 0),
    Scenario("local", {1, 2}, BOOLEAN, Singles, 0, 0),
    Scenario("personal", {1, 2}, {FALSE}, One, 1, 1),
    Scenario("local", {1, 2}, {FALSE}, One, 1, 1),
    Scenario("shared", {2}, {TRUE}, One, 2, 2),
    Scenario("shared", {}, {TRUE}, Batch, 2, 1),
    Scenario("shared", {}, {TRUE}, Singles, 1, 1)}
=============================================================================
