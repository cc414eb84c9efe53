------------------------------- MODULE MCFilings -------------------------------
(* Instances of Filings for TLC: a request and the daily run in one server *)
(* process, the weekly run, which meets the filers in another order, in    *)
(* the other.  Filing 3 amends the older quarter of filer f1.              *)
EXTENDS Filings, TLC

CONSTANTS f1, f2, request, daily, weekly, p1, p2

MCFilerOf == <<f1, f2, f1>>
MCPeriod == <<2, 1, 1>>
MCPlan == (request :> <<f1>>) @@ (daily :> <<f1, f2>>) @@ (weekly :> <<f2, f1>>)
MCProcessOf == (request :> p1) @@ (daily :> p1) @@ (weekly :> p2)
MCSkipFloor == (daily :> 2) @@ (weekly :> 2)
================================================================================
