---------------------------- MODULE MCAuthority ----------------------------
(* Two agents that may both produce one kind; a worker that may be           *)
(* registered again without its tool.                                        *)
EXTENDS Authority, TLC

CONSTANTS worker, helper, search, edit, raw, out, wiki

WorkerRow == [tools |-> {search}, read |-> {raw}, write |-> out, kb |-> {wiki}]
MCRows == [a \in {worker, helper} |->
             IF a = worker THEN {WorkerRow, [WorkerRow EXCEPT !.tools = {}, !.kb = {}]}
             ELSE {[tools |-> {}, read |-> {}, write |-> out, kb |-> {}]}]
MCGrants == {[read |-> {}, write |-> None]}
Sym == Permutations(Threads) \cup Permutations(Operators)
MCRequests == [read : {raw}, write : {None}, kb : {wiki}, agent : {worker}, tool : {search}]
=============================================================================
