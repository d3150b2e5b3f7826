------------------------------ MODULE Authority ------------------------------
(***************************************************************************)
(* casa/authority: what an agent may use and touch.  The capability matrix   *)
(* holds the defaults the code registers, the grant store what operators     *)
(* configured instead, and the resolver merges the two and caches the        *)
(* answer.  Threads of the program ask; operators change grants and rows,    *)
(* and then invalidate the cache (docs/EXTENDING.md:52).                     *)
(*                                                                          *)
(* A step is what happens under one lock of the matrix, the store or the     *)
(* resolver, or one statement of a transaction of PgGrantStore; what a       *)
(* transaction writes is seen when it commits.                               *)
(***************************************************************************)
EXTENDS Integers, FiniteSets

CONSTANTS
    Agents, Tools, Kinds, Bases,  \* agents, tools, kinds of artifact, knowledge bases
    RowsOf,      \* the rows that may be registered for each agent
    DataGrants,  \* what operators may save: [read, write]
    Requests,    \* what a thread may ask: [agent, tool, read, write, kb]
    Threads, Operators,
    MaxChanges,  \* bound: changes the operators make
    Stores,      \* the kinds of grant store in use: "memory", "pg"
    None

ASSUME AuthorityAssumption ==
    /\ \A a \in Agents : RowsOf[a] \subseteq [tools : SUBSET Tools, read : SUBSET Kinds,
                                            write : Kinds \cup {None}, kb : SUBSET Bases]
    /\ DataGrants \subseteq [read : SUBSET Kinds, write : Kinds \cup {None}]
    /\ Requests \subseteq [agent : Agents, tool : Tools \cup {None}, read : Kinds \cup {None},
                          write : Kinds \cup {None}, kb : Bases \cup {None}]
    /\ Stores \subseteq {"memory", "pg"} /\ MaxChanges \in Nat
    /\ None \notin Agents \cup Tools \cup Kinds \cup Bases \cup Requests
    /\ \A a \in Agents : None \notin RowsOf[a]

VARIABLES
    store,     \* the kind of grant store
    rows,      \* CapabilityMatrix._rows
    producer,  \* CapabilityMatrix._data_producer_index
    grants,    \* tool grants: agent -> tool -> "enabled", "disabled" or "none"
    marked,    \* pg: the agents in grant_tool_agents
    data,      \* data grants; None if there is no row
    cache,     \* AuthorityResolver._cache: agent -> [tools, data]
    at, asked, \* where a thread is in check_access, and what it asked
    code, db,  \* what it has read from the matrix and from the store
    tools,     \* what resolve_tools returned to it
    verdict,   \* what check_access returned
    job,       \* what an operator is doing
    changes,
    suspect,   \* history: agents changed since the last invalidate
    overlap,   \* history: threads whose agent was changed while they resolved
    seen       \* history: what the thread's agent can do, while nothing about it changed

matrixVars == <<rows, producer>>
grantVars  == <<grants, marked, data>>
threadVars == <<at, asked, code, db, tools, verdict>>
history    == <<suspect, overlap, seen>>
vars == <<store, matrixVars, grantVars, cache, threadVars, job, changes, history>>

NoRow  == [tools |-> {}, read |-> {}, write |-> None, kb |-> {}]
Rest   == [op |-> "none", agent |-> None, tool |-> None, flag |-> FALSE]
Empty  == [tools |-> None, data |-> None]

-----------------------------------------------------------------------------
(* What an agent can do                                                      *)

RowOf(a) == IF rows[a] = None THEN NoRow ELSE rows[a]    \* tool_ids_for, data_grants_for
Enabled(a) == {t \in Tools : grants[a][t] = "enabled"}
Listed(a)  == {t \in Tools : grants[a][t] # "none"}
HasToolConfig(a) == Listed(a) # {} \/ a \in marked       \* has_tool_grant_config

\* faulty: "merge" taken for a union
MergeBoth(hasConfig, default, granted) == IF hasConfig THEN default \cup granted ELSE default

MergeTools(hasConfig, default, granted) == IF hasConfig THEN granted ELSE default
MergeData(default, grant) ==
    IF grant = None THEN [read |-> default.read, write |-> default.write, kb |-> default.kb]
    ELSE [read |-> grant.read, write |-> grant.write, kb |-> default.kb]

\* what the tables say at this moment, for the properties
Effective(a) == [tools |-> IF HasToolConfig(a) THEN Enabled(a) ELSE RowOf(a).tools,
                 data  |-> [read  |-> IF data[a] = None THEN RowOf(a).read ELSE data[a].read,
                            write |-> IF data[a] = None THEN RowOf(a).write ELSE data[a].write,
                            kb    |-> RowOf(a).kb]]

Allowed(q, can) ==
    /\ q.tool  # None => q.tool \in can.tools
    /\ q.read  # None => q.read \in can.data.read
    /\ q.write # None => q.write = can.data.write
    /\ q.kb    # None => q.kb \in can.data.kb

-----------------------------------------------------------------------------
TypeOK ==
    /\ store \in {"memory", "pg"}
    /\ \A a \in Agents : rows[a] = None \/ rows[a] \in RowsOf[a]
    /\ producer \in [Kinds -> Agents \cup {None}]
    /\ grants \in [Agents -> [Tools -> {"none", "enabled", "disabled"}]]
    /\ marked \subseteq Agents
    /\ \A a \in Agents : data[a] = None \/ data[a] \in DataGrants
    /\ \A a \in Agents : cache[a].tools = None \/ cache[a].tools \subseteq Tools
    /\ at \in [Threads -> {"idle", "tools", "toolsCode", "toolsLoad", "toolsHas", "toolsPut",
                           "data", "dataCode", "dataLoad", "dataPut", "done"}]
    /\ verdict \in [Threads -> BOOLEAN] /\ changes \in 0..MaxChanges

Init ==
    /\ store \in Stores
    /\ rows \in {f \in [Agents -> UNION {RowsOf[a] : a \in Agents}] : \A a \in Agents : f[a] \in RowsOf[a]}
    /\ \E order \in [Kinds -> Agents \cup {None}] :
          /\ \A k \in Kinds : IF \E a \in Agents : rows[a].write = k
                              THEN order[k] # None /\ rows[order[k]].write = k ELSE order[k] = None
          /\ producer = order
    /\ grants = [a \in Agents |-> [t \in Tools |-> "none"]]
    /\ marked = {} /\ data = [a \in Agents |-> None]
    /\ cache = [a \in Agents |-> Empty]
    /\ at = [th \in Threads |-> "idle"] /\ asked = [th \in Threads |-> None]
    /\ code = [th \in Threads |-> None] /\ db = [th \in Threads |-> None]
    /\ tools = [th \in Threads |-> {}] /\ verdict = [th \in Threads |-> FALSE]
    /\ job = [o \in Operators |-> Rest]
    /\ changes = 0
    /\ suspect = {} /\ overlap = {} /\ seen = [th \in Threads |-> {}]

AgreesWith(answer, can) == /\ answer.tools = None \/ answer.tools = can.tools
                           /\ answer.data = None \/ answer.data = can.data
Trusted(a) == a \notin suspect /\ \A th \in overlap : asked[th].agent # a
HasRead(th, a) == /\ at[th] \in {"toolsLoad", "toolsHas", "toolsPut", "dataLoad", "dataPut"}
                  /\ asked[th].agent = a

\* what an agent can do has changed
Touch(a) ==
    /\ suspect' = suspect \cup {a}
    /\ overlap' = overlap \cup {th \in Threads : HasRead(th, a)}
    /\ seen' = [th \in Threads |-> IF asked[th] # None /\ asked[th].agent = a THEN {} ELSE seen[th]]

-----------------------------------------------------------------------------
(* AuthorityResolver                                                         *)

Goto(th, where) == at' = [at EXCEPT ![th] = where]
Conclude(th, allowed) == Goto(th, "done") /\ verdict' = [verdict EXCEPT ![th] = allowed]
Still == UNCHANGED <<store, matrixVars, grantVars, job, changes>>

\* check_access is called
Ask(th, q) ==
    /\ at[th] = "idle"
    /\ asked' = [asked EXCEPT ![th] = q]
    /\ Goto(th, IF q.tool # None THEN "tools" ELSE "data")
    /\ seen' = [seen EXCEPT ![th] = IF Trusted(q.agent) THEN {Effective(q.agent)} ELSE {}]
    /\ UNCHANGED <<cache, code, db, tools, verdict, suspect, overlap>> /\ Still

\* resolve_tools returns: a tool that is not there ends the check
HaveTools(th, S) ==
    /\ tools' = [tools EXCEPT ![th] = S]
    /\ IF asked[th].tool \in S THEN Goto(th, "data") /\ UNCHANGED verdict ELSE Conclude(th, FALSE)

ToolsLookup(th) ==
    LET cached == cache[asked[th].agent].tools IN
    /\ at[th] = "tools"
    /\ \/ cached # None /\ HaveTools(th, cached)
       \/ cached = None /\ Goto(th, "toolsCode") /\ UNCHANGED <<tools, verdict>>
    /\ UNCHANGED <<cache, asked, code, db, history>> /\ Still

ToolsCode(th) ==
    /\ at[th] = "toolsCode" /\ Goto(th, "toolsLoad")
    /\ code' = [code EXCEPT ![th] = RowOf(asked[th].agent).tools]
    /\ UNCHANGED <<cache, asked, db, tools, verdict, history>> /\ Still

ToolsLoad(th) ==
    /\ at[th] = "toolsLoad" /\ Goto(th, "toolsHas")
    /\ db' = [db EXCEPT ![th] = Enabled(asked[th].agent)]
    /\ UNCHANGED <<cache, asked, code, tools, verdict, history>> /\ Still

ToolsHas(th) ==
    /\ at[th] = "toolsHas" /\ Goto(th, "toolsPut")
    /\ db' = [db EXCEPT ![th] = MergeTools(HasToolConfig(asked[th].agent), code[th], @)]
    /\ code' = [code EXCEPT ![th] = None]
    /\ UNCHANGED <<cache, asked, tools, verdict, history>> /\ Still

\* under the resolver's lock: an answer that another thread has put wins
Put(th, field, answer) ==
    LET a == asked[th].agent IN
    /\ \/ cache[a][field] # None /\ UNCHANGED <<cache, suspect>>
       \/ /\ cache[a][field] = None
          /\ cache' = [cache EXCEPT ![a][field] = answer]
          /\ suspect' = IF th \in overlap THEN suspect \cup {a} ELSE suspect
    /\ overlap' = overlap \ {th}
    /\ code' = [code EXCEPT ![th] = None] /\ db' = [db EXCEPT ![th] = None]

Kept(th, field, answer) ==
    LET cached == cache[asked[th].agent][field] IN IF cached = None THEN answer ELSE cached

ToolsPut(th) ==
    /\ at[th] = "toolsPut"
    /\ HaveTools(th, Kept(th, "tools", db[th]))
    /\ Put(th, "tools", db[th])
    /\ UNCHANGED <<asked, seen>> /\ Still

\* resolve_data_grants returns, and check_access with it
HaveData(th, can) == Conclude(th, Allowed(asked[th], [tools |-> tools[th], data |-> can]))

DataLookup(th) ==
    LET cached == cache[asked[th].agent].data IN
    /\ at[th] = "data"
    /\ \/ cached # None /\ HaveData(th, cached)
       \/ cached = None /\ Goto(th, "dataCode") /\ UNCHANGED verdict
    /\ UNCHANGED <<cache, asked, code, db, tools, history>> /\ Still

DataCode(th) ==
    /\ at[th] = "dataCode" /\ Goto(th, "dataLoad")
    /\ code' = [code EXCEPT ![th] = RowOf(asked[th].agent)]
    /\ UNCHANGED <<cache, asked, db, tools, verdict, history>> /\ Still

\* a data grant is never deleted, so has_data_grant_config cannot contradict it afterwards
DataLoad(th) ==
    /\ at[th] = "dataLoad" /\ Goto(th, "dataPut")
    /\ db' = [db EXCEPT ![th] = MergeData(code[th], data[asked[th].agent])]
    /\ code' = [code EXCEPT ![th] = None]
    /\ UNCHANGED <<cache, asked, tools, verdict, history>> /\ Still

DataPut(th) ==
    /\ at[th] = "dataPut"
    /\ HaveData(th, Kept(th, "data", db[th]))
    /\ Put(th, "data", db[th])
    /\ UNCHANGED <<asked, tools, seen>> /\ Still

Leave(th) ==
    /\ at[th] = "done" /\ Goto(th, "idle")
    /\ asked' = [asked EXCEPT ![th] = None] /\ tools' = [tools EXCEPT ![th] = {}]
    /\ verdict' = [verdict EXCEPT ![th] = FALSE] /\ seen' = [seen EXCEPT ![th] = {}]
    /\ UNCHANGED <<cache, code, db, suspect, overlap>> /\ Still

-----------------------------------------------------------------------------
(* The grant store and the matrix                                            *)

Begin(o) == job[o] = Rest /\ changes < MaxChanges /\ changes' = changes + 1
Work(o, op, a, t, flag) ==
    job' = [job EXCEPT ![o] = [op |-> op, agent |-> a, tool |-> t, flag |-> flag]]
\* the operator goes on to invalidate the agent's answers
Changed(o, a) ==
    /\ Work(o, "changed", a, None, FALSE)
    /\ Touch(a)
    /\ UNCHANGED <<store, cache, threadVars>>

\* InMemoryGrantStore, under its lock
SaveToolGrant(o, a, t, how) ==
    /\ store = "memory" /\ Begin(o)
    /\ grants' = [grants EXCEPT ![a][t] = how]
    /\ UNCHANGED <<matrixVars, marked, data>>
    /\ Changed(o, a)

DeleteToolGrant(o, a, t) ==
    /\ store = "memory" /\ Begin(o)
    /\ grants' = [grants EXCEPT ![a][t] = "none"]
    /\ UNCHANGED <<matrixVars, marked, data>>
    /\ Changed(o, a)

SaveDataGrant(o, a, g) ==
    /\ Begin(o)
    /\ data' = [data EXCEPT ![a] = g]
    /\ UNCHANGED <<matrixVars, grants, marked>>
    /\ Changed(o, a)

\* PgGrantStore.save_tool_grant: the marker; a marker that is being inserted makes it wait
PgSaveMarker(o, a, t) ==
    /\ store = "pg" /\ Begin(o)
    /\ \A p \in Operators : ~(job[p].op = "saving" /\ job[p].agent = a /\ job[p].flag)
    /\ Work(o, "saving", a, t, a \notin marked)
    /\ UNCHANGED <<store, matrixVars, grantVars, cache, threadVars, history>>

\* the grant, and commit; a row that is being deleted makes it wait
PgSaveGrant(o, how) ==
    LET a == job[o].agent  t == job[o].tool IN
    /\ job[o].op = "saving"
    /\ \A p \in Operators : ~(job[p].op = "deleting" /\ job[p].agent = a /\ job[p].tool = t)
    /\ grants' = [grants EXCEPT ![a][t] = how]
    /\ marked' = IF job[o].flag THEN marked \cup {a} ELSE marked
    /\ UNCHANGED <<matrixVars, data, changes>>
    /\ Changed(o, a)

\* delete_tool_grant: deletes the row, which makes others wait, or finds none, and looks for
\* other rows of the agent
PgDelete(o, a, t) ==
    /\ store = "pg" /\ Begin(o)
    /\ \/ /\ t \in Listed(a)
          /\ \A p \in Operators : ~(job[p].op = "deleting" /\ job[p].agent = a /\ job[p].tool = t)
          /\ Work(o, "deleting", a, t, Listed(a) # {t})
       \/ t \notin Listed(a) /\ Work(o, "clearing", a, t, Listed(a) # {})
    /\ UNCHANGED <<store, matrixVars, grantVars, cache, threadVars, history>>

\* without others the marker goes too; and commit
PgDeleteMarker(o) ==
    LET a == job[o].agent IN
    /\ job[o].op \in {"deleting", "clearing"}
    /\ grants' = IF job[o].op = "deleting" THEN [grants EXCEPT ![a][job[o].tool] = "none"] ELSE grants
    /\ marked' = IF job[o].flag THEN marked ELSE marked \ {a}
    /\ UNCHANGED <<matrixVars, data, changes>>
    /\ Changed(o, a)

Register(o, a, row) ==
    /\ Begin(o)
    /\ rows' = [rows EXCEPT ![a] = row]
    /\ producer' = IF row.write = None THEN producer ELSE [producer EXCEPT ![row.write] = a]
    /\ UNCHANGED grantVars
    /\ Changed(o, a)

\* faulty: the index is left alone
DeregisterRow(o, a) ==
    /\ Begin(o) /\ rows[a] # None
    /\ rows' = [rows EXCEPT ![a] = None]
    /\ UNCHANGED <<producer, grantVars>>
    /\ Changed(o, a)

Deregister(o, a) ==
    /\ Begin(o) /\ rows[a] # None
    /\ rows' = [rows EXCEPT ![a] = None]
    /\ producer' = IF rows[a].write = None THEN producer ELSE [producer EXCEPT ![rows[a].write] = None]
    /\ UNCHANGED grantVars
    /\ Changed(o, a)

\* faulty: the data grants stay cached
InvalidateTools(o) ==
    /\ job[o].op = "changed"
    /\ job' = [job EXCEPT ![o] = Rest]
    /\ cache' = [cache EXCEPT ![job[o].agent].tools = None] /\ suspect' = suspect \ {job[o].agent}
    /\ UNCHANGED <<store, matrixVars, grantVars, threadVars, changes, overlap, seen>>

\* invalidate_cache, of the agent or of all
Invalidate(o) ==
    /\ job[o].op = "changed"
    /\ job' = [job EXCEPT ![o] = Rest]
    /\ \/ cache' = [cache EXCEPT ![job[o].agent] = Empty] /\ suspect' = suspect \ {job[o].agent}
       \/ cache' = [a \in Agents |-> Empty] /\ suspect' = {}
    /\ UNCHANGED <<store, matrixVars, grantVars, threadVars, changes, overlap, seen>>

Next ==
    \/ \E th \in Threads :
          \/ \E q \in Requests : Ask(th, q)
          \/ ToolsLookup(th) \/ ToolsCode(th) \/ ToolsLoad(th) \/ ToolsHas(th) \/ ToolsPut(th)
          \/ DataLookup(th) \/ DataCode(th) \/ DataLoad(th) \/ DataPut(th)
          \/ Leave(th)
    \/ \E o \in Operators :
          \/ \E a \in Agents, t \in Tools :
                \/ \E how \in {"enabled", "disabled"} : SaveToolGrant(o, a, t, how)
                \/ DeleteToolGrant(o, a, t) \/ PgSaveMarker(o, a, t) \/ PgDelete(o, a, t)
          \/ \E how \in {"enabled", "disabled"} : PgSaveGrant(o, how)
          \/ PgDeleteMarker(o)
          \/ \E a \in Agents : \/ \E g \in DataGrants : SaveDataGrant(o, a, g)
                               \/ \E row \in RowsOf[a] : Register(o, a, row)
                               \/ Deregister(o, a)
          \/ Invalidate(o)

Spec == Init /\ [][Next]_vars

-----------------------------------------------------------------------------
(* A cached answer is what the tables say, unless they were changed and the  *)
(* cache was not invalidated since, or the thread that put the answer had    *)
(* read them before the change (AuthorityResolver.resolve_tools 65-70).      *)
CacheIsFresh ==
    \A a \in Agents : a \notin suspect => AgreesWith(cache[a], Effective(a))

(* check_access puts several reads together, each under a lock of its own,   *)
(* and may find some of them cached.  If nothing about the agent changes     *)
(* meanwhile, it allows exactly what the tables allow.                       *)
AccessIsExact ==
    \A th \in Threads : at[th] = "done" =>
        \A can \in seen[th] : verdict[th] <=> Allowed(asked[th], can)

(* Whom producer_of names is registered and writes that kind, whichever of   *)
(* several producers of one kind came, went or was registered again, if no   *)
(* agent is registered again with another kind (capability.py:132 register   *)
(* does not take the old kind from the index).                               *)
OneKindEach == \A a \in Agents : \A r, s \in RowsOf[a] : r.write = s.write
ProducerIsRegistered ==
    OneKindEach => \A k \in Kinds : producer[k] # None => RowOf(producer[k]).write = k

=============================================================================
