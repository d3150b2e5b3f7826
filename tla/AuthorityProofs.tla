--------------------------- MODULE AuthorityProofs ---------------------------
(***************************************************************************)
(* Theorems about Authority, for any number of agents, tools, threads and    *)
(* operators, for both grant stores and any number of changes.               *)
(***************************************************************************)
EXTENDS Authority, TLAPS

ReadStates == {"toolsLoad", "toolsHas", "toolsPut", "dataLoad", "dataPut"}
ToolStates == {"tools", "toolsCode", "toolsLoad", "toolsHas", "toolsPut"}
DataStates == {"data", "dataCode", "dataLoad", "dataPut"}

\* which functions there are, and who works on what
ShapeInv ==
    /\ DOMAIN at = Threads /\ DOMAIN asked = Threads /\ DOMAIN code = Threads
    /\ DOMAIN db = Threads /\ DOMAIN tools = Threads /\ DOMAIN verdict = Threads
    /\ DOMAIN seen = Threads /\ DOMAIN cache = Agents /\ DOMAIN rows = Agents
    /\ DOMAIN data = Agents /\ DOMAIN grants = Agents /\ DOMAIN job = Operators
    /\ \A a \in Agents : DOMAIN cache[a] = {"tools", "data"}
    /\ \A th \in Threads : at[th] # "idle" => asked[th] \in Requests
    /\ \A th \in Threads : at[th] \in ToolStates => asked[th].tool # None
    /\ \A o \in Operators : job[o].op # "none" => job[o].agent \in Agents
    /\ overlap \subseteq Threads
    /\ \A th \in overlap : at[th] \in ReadStates

\* What a thread has read is what the tables say, unless its agent was changed meanwhile.
ReadOf(th) ==
    th \notin overlap => \A a \in Agents : asked[th].agent = a =>
        /\ at[th] = "toolsLoad" => code[th] = RowOf(a).tools
        /\ at[th] = "toolsHas"  => code[th] = RowOf(a).tools /\ db[th] = Enabled(a)
        /\ at[th] = "toolsPut"  => db[th] = Effective(a).tools
        /\ at[th] = "dataLoad"  => code[th] = RowOf(a)
        /\ at[th] = "dataPut"   => db[th] = Effective(a).data

\* What a thread saw its agent to be able to do is still so, and what it was told agrees.
SeenOf(th) ==
    seen[th] # {} =>
        /\ at[th] # "idle"
        /\ \A a \in Agents : asked[th].agent = a =>
              /\ Trusted(a) /\ seen[th] = {Effective(a)}
              /\ at[th] \in DataStates /\ asked[th].tool # None
                 => tools[th] = Effective(a).tools /\ asked[th].tool \in tools[th]
              /\ at[th] = "done" => (verdict[th] <=> Allowed(asked[th], Effective(a)))

ReadInv == \A th \in Threads : ReadOf(th)
SeenInv == \A th \in Threads : SeenOf(th)
FreshInv == ShapeInv /\ ReadInv /\ CacheIsFresh /\ SeenInv

-----------------------------------------------------------------------------
(* The tables.                                                              *)

\* an agent whose rows nobody touched can do what it could
LEMMA TablesKept ==
  ASSUME NEW a, rows'[a] = rows[a], grants'[a] = grants[a], a \in marked' <=> a \in marked,
         data'[a] = data[a]
  PROVE  /\ RowOf(a)' = RowOf(a) /\ Enabled(a)' = Enabled(a) /\ Effective(a)' = Effective(a)
         /\ HasToolConfig(a)' <=> HasToolConfig(a)
<1>1. RowOf(a)' = RowOf(a)
  BY DEF RowOf
<1>2. Enabled(a)' = Enabled(a)
  BY DEF Enabled
<1>3. HasToolConfig(a)' <=> HasToolConfig(a)
  BY DEF HasToolConfig, Listed
<1>4. Effective(a)' = Effective(a)
  BY <1>1, <1>2, <1>3 DEF Effective
<1> QED BY <1>1, <1>2, <1>3, <1>4

LEMMA TablesStill ==
  ASSUME UNCHANGED <<matrixVars, grantVars>>
  PROVE  \A a \in Agents : RowOf(a)' = RowOf(a) /\ Enabled(a)' = Enabled(a) /\ Effective(a)' = Effective(a)
  BY TablesKept DEF matrixVars, grantVars

LEMMA AskedType ==
  ASSUME ShapeInv, NEW th \in Threads, at[th] # "idle"
  PROVE  asked[th].agent \in Agents /\ asked[th] # None /\ asked[th] \in Requests
  BY AuthorityAssumption DEF ShapeInv, AuthorityAssumption

\* a change marks all that was known of the agent
LEMMA TouchStep ==
  ASSUME FreshInv, NEW a \in Agents, Touch(a), UNCHANGED <<cache, threadVars>>,
         \A b \in Agents \ {a} : /\ rows'[b] = rows[b] /\ grants'[b] = grants[b]
                                 /\ (b \in marked' <=> b \in marked) /\ data'[b] = data[b]
  PROVE  ReadInv' /\ CacheIsFresh' /\ SeenInv'
<1>1. \A b \in Agents \ {a} :
         RowOf(b)' = RowOf(b) /\ Enabled(b)' = Enabled(b) /\ Effective(b)' = Effective(b)
  BY TablesKept
<1>2. suspect' = suspect \cup {a}
      /\ overlap' = overlap \cup {th \in Threads : HasRead(th, a)}
      /\ seen' = [th \in Threads |-> IF asked[th] # None /\ asked[th].agent = a THEN {} ELSE seen[th]]
  BY DEF Touch
<1>3. CacheIsFresh'
  BY <1>1, <1>2 DEF FreshInv, CacheIsFresh, AgreesWith
<1> SUFFICES ASSUME NEW th \in Threads PROVE ReadOf(th)' /\ SeenOf(th)'
  BY <1>3 DEF ReadInv, SeenInv
<1>u. /\ at'[th] = at[th] /\ asked'[th] = asked[th] /\ code'[th] = code[th]
      /\ db'[th] = db[th] /\ tools'[th] = tools[th] /\ verdict'[th] = verdict[th]
      /\ asked' = asked
  BY DEF threadVars
<1>4. ReadOf(th)'
  <2> SUFFICES ASSUME th \notin overlap', NEW b \in Agents, asked[th].agent = b, at[th] \in ReadStates
               PROVE  /\ at[th] = "toolsLoad" => code[th] = RowOf(b)'.tools
                      /\ at[th] = "toolsHas"  => code[th] = RowOf(b)'.tools /\ db[th] = Enabled(b)'
                      /\ at[th] = "toolsPut"  => db[th] = Effective(b)'.tools
                      /\ at[th] = "dataLoad"  => code[th] = RowOf(b)'
                      /\ at[th] = "dataPut"   => db[th] = Effective(b)'.data
    BY <1>u DEF ReadOf, ReadStates
  <2>1. b # a /\ th \notin overlap
    BY <1>2 DEF HasRead, ReadStates
  <2> QED BY <1>1, <2>1 DEF FreshInv, ReadInv, ReadOf
<1>5. SeenOf(th)'
  <2>1. CASE seen'[th] = {}
    BY <2>1 DEF SeenOf
  <2>2. CASE seen'[th] # {}
    <3>1. seen'[th] = seen[th] /\ ~(asked[th] # None /\ asked[th].agent = a)
      BY <1>2, <2>2
    <3>2. SeenOf(th) /\ at[th] # "idle" /\ asked[th].agent \in Agents \ {a}
      BY <3>1, <2>2, AskedType DEF FreshInv, SeenInv, SeenOf
    <3>3. PICK b \in Agents \ {a} : b = asked[th].agent
      BY <3>2
    <3>4. Trusted(b)
      BY <3>1, <3>2, <3>3, <2>2 DEF SeenOf
    <3>5. Trusted(b)'
      BY <1>2, <1>u, <3>3, <3>4 DEF Trusted, HasRead
    <3> QED BY <1>1, <1>u, <2>2, <3>1, <3>2, <3>3, <3>5 DEF SeenOf
  <2> QED BY <2>1, <2>2
<1> QED BY <1>4, <1>5

-----------------------------------------------------------------------------
(* Steps of a thread.                                                       *)

\* what a step of one thread leaves of the others
Apart(th) ==
    /\ \A t \in Threads \ {th} :
          /\ at'[t] = at[t] /\ asked'[t] = asked[t] /\ code'[t] = code[t] /\ db'[t] = db[t]
          /\ tools'[t] = tools[t] /\ verdict'[t] = verdict[t] /\ seen'[t] = seen[t]
          /\ t \in overlap' <=> t \in overlap
    /\ overlap' \subseteq overlap
    /\ \A t \in overlap' : asked'[t] = asked[t]
    /\ \A b \in Agents : b \in suspect' /\ b \notin suspect => th \in overlap /\ asked[th].agent = b

LEMMA TrustStays ==
  ASSUME FreshInv, NEW th \in Threads, Apart(th), NEW b \in Agents, Trusted(b)
  PROVE  Trusted(b)'
  BY DEF Trusted, Apart

LEMMA OthersStay ==
  ASSUME FreshInv, NEW th \in Threads, Apart(th), UNCHANGED <<matrixVars, grantVars>>,
         ReadOf(th)', SeenOf(th)'
  PROVE  ReadInv' /\ SeenInv'
<1> SUFFICES ASSUME NEW t \in Threads \ {th} PROVE ReadOf(t)' /\ SeenOf(t)'
  BY DEF ReadInv, SeenInv
<1>1. /\ at'[t] = at[t] /\ asked'[t] = asked[t] /\ code'[t] = code[t] /\ db'[t] = db[t]
      /\ tools'[t] = tools[t] /\ verdict'[t] = verdict[t] /\ seen'[t] = seen[t]
      /\ t \in overlap' <=> t \in overlap
  BY DEF Apart
<1>2. \A a \in Agents : RowOf(a)' = RowOf(a) /\ Enabled(a)' = Enabled(a) /\ Effective(a)' = Effective(a)
  BY TablesStill
<1>3. ReadOf(t) /\ SeenOf(t)
  BY DEF FreshInv, ReadInv, SeenInv
<1>4. ReadOf(t)'
  BY <1>1, <1>2, <1>3 DEF ReadOf
<1>5. \A b \in Agents : Trusted(b) => Trusted(b)'
  BY TrustStays
<1>6. SeenOf(t)'
  BY <1>1, <1>2, <1>3, <1>5 DEF SeenOf
<1> QED BY <1>4, <1>6

LEMMA CacheStays ==
  ASSUME FreshInv, cache' = cache, suspect' = suspect, UNCHANGED <<matrixVars, grantVars>>
  PROVE  CacheIsFresh'
<1>1. \A a \in Agents : Effective(a)' = Effective(a)
  BY TablesStill
<1> QED BY <1>1 DEF FreshInv, CacheIsFresh, AgreesWith

\* the answer a trusted thread has put together, or finds put by another, is right
LEMMA KeptIsRight ==
  ASSUME FreshInv, NEW th \in Threads, NEW a \in Agents, asked[th].agent = a, Trusted(a)
  PROVE  /\ at[th] = "tools" /\ cache[a].tools # None => cache[a].tools = Effective(a).tools
         /\ at[th] = "data" /\ cache[a].data # None => cache[a].data = Effective(a).data
         /\ at[th] = "toolsPut" => Kept(th, "tools", db[th]) = Effective(a).tools
         /\ at[th] = "dataPut" => Kept(th, "data", db[th]) = Effective(a).data
<1>1. a \notin suspect /\ th \notin overlap
  BY DEF Trusted
<1>2. AgreesWith(cache[a], Effective(a))
  BY <1>1 DEF FreshInv, CacheIsFresh
<1>3. /\ at[th] = "toolsPut" => db[th] = Effective(a).tools
      /\ at[th] = "dataPut" => db[th] = Effective(a).data
  BY <1>1 DEF FreshInv, ReadInv, ReadOf
<1> QED BY <1>2, <1>3 DEF AgreesWith, Kept

\* what a thread puts is right, or the agent is marked
LEMMA PutStep ==
  ASSUME FreshInv, NEW th \in Threads, NEW field \in {"tools", "data"}, NEW a \in Agents,
         at[th] # "idle", asked[th].agent = a, Put(th, field, db[th]),
         UNCHANGED <<matrixVars, grantVars>>,
         th \notin overlap => db[th] = Effective(a)[field]
  PROVE  CacheIsFresh'
<1>1. \A b \in Agents : Effective(b)' = Effective(b)
  BY TablesStill
<1>2. CASE cache[a][field] # None /\ UNCHANGED <<cache, suspect>>
  BY <1>1, <1>2 DEF FreshInv, CacheIsFresh, AgreesWith
<1>3. CASE /\ cache[a][field] = None
           /\ cache' = [cache EXCEPT ![a][field] = db[th]]
           /\ suspect' = IF th \in overlap THEN suspect \cup {a} ELSE suspect
  <2> SUFFICES ASSUME NEW b \in Agents, b \notin suspect' PROVE AgreesWith(cache'[b], Effective(b))
    BY <1>1 DEF CacheIsFresh
  <2>1. AgreesWith(cache[b], Effective(b))
    BY <1>3 DEF FreshInv, CacheIsFresh
  <2>2. CASE b # a
    BY <1>3, <2>1, <2>2 DEF FreshInv, ShapeInv
  <2>3. CASE b = a
    <3>1. th \notin overlap /\ db[th] = Effective(a)[field]
      BY <1>3, <2>3
    <3>2. cache'[a] = [cache[a] EXCEPT ![field] = db[th]] /\ DOMAIN cache[a] = {"tools", "data"}
      BY <1>3 DEF FreshInv, ShapeInv
    <3> QED BY <2>1, <2>3, <3>1, <3>2 DEF AgreesWith
  <2> QED BY <2>2, <2>3
<1> QED BY <1>2, <1>3 DEF Put

ThreadStep(th) ==
    \/ \E q \in Requests : Ask(th, q)
    \/ ToolsLookup(th) \/ ToolsCode(th) \/ ToolsLoad(th) \/ ToolsHas(th) \/ ToolsPut(th)
    \/ DataLookup(th) \/ DataCode(th) \/ DataLoad(th) \/ DataPut(th)
    \/ Leave(th)

LEMMA ThreadIsApart ==
  ASSUME FreshInv, NEW th \in Threads, ThreadStep(th)
  PROVE  Apart(th) /\ UNCHANGED <<matrixVars, grantVars, job>>
<1> USE DEF Still, Goto, Conclude, HaveTools, HaveData, history, Apart
<1>0. /\ DOMAIN at = Threads /\ DOMAIN asked = Threads /\ DOMAIN code = Threads
      /\ DOMAIN db = Threads /\ DOMAIN tools = Threads /\ DOMAIN verdict = Threads
      /\ DOMAIN seen = Threads /\ overlap \subseteq Threads /\ \A t \in overlap : at[t] \in ReadStates
  BY DEF FreshInv, ShapeInv
<1>1. CASE \E q \in Requests : Ask(th, q)
  BY <1>0, <1>1 DEF Ask, ReadStates
<1>2. CASE ToolsLookup(th)
  BY <1>0, <1>2 DEF ToolsLookup
<1>3. CASE ToolsCode(th)
  BY <1>0, <1>3 DEF ToolsCode
<1>4. CASE ToolsLoad(th)
  BY <1>0, <1>4 DEF ToolsLoad
<1>5. CASE ToolsHas(th)
  BY <1>0, <1>5 DEF ToolsHas
<1>6. CASE ToolsPut(th)
  BY <1>0, <1>6 DEF ToolsPut, Put
<1>7. CASE DataLookup(th)
  BY <1>0, <1>7 DEF DataLookup
<1>8. CASE DataCode(th)
  BY <1>0, <1>8 DEF DataCode
<1>9. CASE DataLoad(th)
  BY <1>0, <1>9 DEF DataLoad
<1>10. CASE DataPut(th)
  BY <1>0, <1>10 DEF DataPut, Put
<1>11. CASE Leave(th)
  BY <1>0, <1>11 DEF Leave, ReadStates
<1> QED
  BY <1>1, <1>2, <1>3, <1>4, <1>5, <1>6, <1>7, <1>8, <1>9, <1>10, <1>11 DEF ThreadStep

\* the cases of a thread's step that concern ReadOf
LEMMA ThreadReads ==
  ASSUME FreshInv, NEW th \in Threads, ThreadStep(th)
  PROVE  ReadOf(th)'
<1> USE DEF Still, Goto, Conclude, HaveTools, HaveData, history
<1>0. /\ DOMAIN at = Threads /\ DOMAIN code = Threads /\ DOMAIN db = Threads /\ DOMAIN asked = Threads
      /\ overlap \subseteq Threads /\ \A t \in overlap : at[t] \in ReadStates
  BY DEF FreshInv, ShapeInv
<1>t. \A a \in Agents : RowOf(a)' = RowOf(a) /\ Enabled(a)' = Enabled(a) /\ Effective(a)' = Effective(a)
  BY ThreadIsApart, TablesStill
<1>r. ReadOf(th)
  BY DEF FreshInv, ReadInv
<1>1. CASE \E q \in Requests : Ask(th, q)
  BY <1>0, <1>1 DEF Ask, ReadOf
<1>2. CASE ToolsLookup(th)
  BY <1>0, <1>2 DEF ToolsLookup, ReadOf
<1>3. CASE ToolsCode(th)
  BY <1>0, <1>t, <1>3 DEF ToolsCode, ReadOf
<1>4. CASE ToolsLoad(th)
  BY <1>0, <1>t, <1>r, <1>4 DEF ToolsLoad, ReadOf
<1>5. CASE ToolsHas(th)
  <2> SUFFICES ASSUME th \notin overlap, NEW a \in Agents, asked[th].agent = a
               PROVE  db'[th] = Effective(a).tools
    BY <1>0, <1>t, <1>5 DEF ToolsHas, ReadOf
  <2>1. code[th] = RowOf(a).tools /\ db[th] = Enabled(a)
    BY <1>r, <1>5 DEF ToolsHas, ReadOf
  <2>2. db'[th] = MergeTools(HasToolConfig(a), code[th], db[th])
    BY <1>0, <1>5 DEF ToolsHas
  <2> QED BY <2>1, <2>2 DEF MergeTools, Effective
<1>6. CASE ToolsPut(th)
  BY <1>0, <1>6 DEF ToolsPut, Put, ReadOf
<1>7. CASE DataLookup(th)
  BY <1>0, <1>7 DEF DataLookup, ReadOf
<1>8. CASE DataCode(th)
  BY <1>0, <1>t, <1>8 DEF DataCode, ReadOf
<1>9. CASE DataLoad(th)
  <2> SUFFICES ASSUME th \notin overlap, NEW a \in Agents, asked[th].agent = a
               PROVE  db'[th] = Effective(a).data
    BY <1>0, <1>t, <1>9 DEF DataLoad, ReadOf
  <2>1. code[th] = RowOf(a)
    BY <1>r, <1>9 DEF DataLoad, ReadOf
  <2>2. db'[th] = MergeData(code[th], data[a])
    BY <1>0, <1>9 DEF DataLoad
  <2> QED BY <2>1, <2>2 DEF MergeData, Effective
<1>10. CASE DataPut(th)
  BY <1>0, <1>10 DEF DataPut, Put, ReadOf
<1>11. CASE Leave(th)
  BY <1>0, <1>11 DEF Leave, ReadOf
<1> QED
  BY <1>1, <1>2, <1>3, <1>4, <1>5, <1>6, <1>7, <1>8, <1>9, <1>10, <1>11 DEF ThreadStep

LEMMA ThreadCache ==
  ASSUME FreshInv, NEW th \in Threads, ThreadStep(th)
  PROVE  CacheIsFresh'
<1>0. UNCHANGED <<matrixVars, grantVars>>
  BY ThreadIsApart
<1>1. CASE ToolsPut(th)
  <2>1. PICK a \in Agents : asked[th].agent = a
    BY <1>1, AskedType DEF ToolsPut, FreshInv
  <2>2. th \notin overlap => db[th] = Effective(a).tools
    BY <1>1, <2>1 DEF ToolsPut, FreshInv, ReadInv, ReadOf
  <2>3. Put(th, "tools", db[th]) /\ at[th] # "idle"
    BY <1>1 DEF ToolsPut
  <2> QED BY <1>0, <2>1, <2>2, <2>3, PutStep
<1>2. CASE DataPut(th)
  <2>1. PICK a \in Agents : asked[th].agent = a
    BY <1>2, AskedType DEF DataPut, FreshInv
  <2>2. th \notin overlap => db[th] = Effective(a).data
    BY <1>2, <2>1 DEF DataPut, FreshInv, ReadInv, ReadOf
  <2>3. Put(th, "data", db[th]) /\ at[th] # "idle"
    BY <1>2 DEF DataPut
  <2> QED BY <1>0, <2>1, <2>2, <2>3, PutStep
<1>3. CASE ~ToolsPut(th) /\ ~DataPut(th)
  <2>1. cache' = cache /\ suspect' = suspect
    BY <1>3 DEF ThreadStep, Ask, ToolsLookup, ToolsCode, ToolsLoad, ToolsHas, DataLookup, DataCode,
                DataLoad, Leave, history
  <2> QED BY <1>0, <2>1, CacheStays
<1> QED BY <1>1, <1>2, <1>3

LEMMA ThreadSees ==
  ASSUME FreshInv, NEW th \in Threads, ThreadStep(th)
  PROVE  SeenOf(th)'
<1> USE DEF Still, Goto, Conclude, HaveTools, history
<1>0. /\ DOMAIN at = Threads /\ DOMAIN asked = Threads /\ DOMAIN tools = Threads
      /\ DOMAIN verdict = Threads /\ DOMAIN seen = Threads
      /\ overlap \subseteq Threads /\ \A t \in overlap : at[t] \in ReadStates
  BY DEF FreshInv, ShapeInv
<1>t. \A a \in Agents : Effective(a)' = Effective(a)
  BY ThreadIsApart, TablesStill
<1>s. \A b \in Agents : Trusted(b) => Trusted(b)'
  BY ThreadIsApart, TrustStays
<1>1. CASE \E q \in Requests : Ask(th, q)
  <2>1. PICK q \in Requests : Ask(th, q)
    BY <1>1
  <2>2. PICK a \in Agents : q.agent = a
    BY AuthorityAssumption DEF AuthorityAssumption
  <2>3. /\ at'[th] = IF q.tool # None THEN "tools" ELSE "data"
        /\ asked'[th] = q /\ seen'[th] = IF Trusted(a) THEN {Effective(a)} ELSE {}
    BY <1>0, <2>1, <2>2 DEF Ask
  <2> QED BY <1>t, <1>s, <2>2, <2>3 DEF SeenOf, DataStates
<1>2. CASE Leave(th)
  BY <1>0, <1>2 DEF Leave, SeenOf
<1>3. CASE ~Leave(th) /\ ~(\E q \in Requests : Ask(th, q)) /\ seen[th] # {}
  <2>1. seen'[th] = seen[th] /\ asked'[th] = asked[th] /\ at[th] # "idle"
    BY <1>3 DEF ThreadStep, ToolsLookup, ToolsCode, ToolsLoad, ToolsHas, ToolsPut, DataLookup,
                DataCode, DataLoad, DataPut, Put
  <2>2. PICK a \in Agents : asked[th].agent = a
    BY <2>1, AskedType DEF FreshInv
  <2>3. /\ Trusted(a) /\ seen[th] = {Effective(a)}
        /\ at[th] \in DataStates /\ asked[th].tool # None
           => tools[th] = Effective(a).tools /\ asked[th].tool \in tools[th]
    BY <1>3, <2>2 DEF FreshInv, SeenInv, SeenOf
  <2>4. at[th] \in ToolStates => asked[th].tool # None
    BY DEF FreshInv, ShapeInv
  <2>5. Effective(a)' = Effective(a) /\ Trusted(a)' /\ (\A b \in Agents : asked'[th].agent = b => b = a)
    BY <1>t, <1>s, <2>1, <2>2, <2>3
  <2>6. ASSUME NEW S, at'[th] = IF asked[th].tool \in S THEN "data" ELSE "done",
               at'[th] = "data" => tools'[th] = S,
               at'[th] = "done" => verdict'[th] = FALSE,
               S = Effective(a).tools, asked[th].tool # None
        PROVE  SeenOf(th)'
    <3>1. at'[th] = "done" => ~Allowed(asked[th], Effective(a))
      BY <2>6 DEF Allowed
    <3>2. at'[th] = "done" => (verdict'[th] <=> Allowed(asked[th], Effective(a)))
      BY <3>1, <2>6
    <3> QED BY <2>1, <2>2, <2>3, <2>5, <2>6, <3>2 DEF SeenOf, DataStates
  <2>7. ASSUME NEW can, can = Effective(a).data, at[th] \in DataStates, HaveData(th, can)
        PROVE  SeenOf(th)'
    <3>1. Allowed(asked[th], [tools |-> tools[th], data |-> can]) <=> Allowed(asked[th], Effective(a))
      BY <2>3, <2>7 DEF Allowed
    <3>2. at'[th] = "done" /\ verdict'[th] = Allowed(asked[th], [tools |-> tools[th], data |-> can])
      BY <1>0, <2>7 DEF HaveData
    <3>3. verdict'[th] <=> Allowed(asked[th], Effective(a))
      BY <3>1, <3>2, Zenon
    <3> QED BY <2>1, <2>2, <2>3, <2>5, <3>2, <3>3 DEF SeenOf, DataStates
  <2>8. CASE ToolsLookup(th)
    <3>1. at[th] = "tools" /\ at[th] \in ToolStates
      BY <2>8 DEF ToolsLookup, ToolStates
    <3>2. CASE cache[a].tools = None
      BY <1>0, <2>1, <2>2, <2>3, <2>5, <2>8, <3>2 DEF ToolsLookup, SeenOf, DataStates
    <3>3. CASE cache[a].tools # None
      <4>1. cache[a].tools = Effective(a).tools
        BY <2>2, <2>3, <3>1, <3>3, KeptIsRight
      <4>2. HaveTools(th, cache[a].tools)
        BY <2>2, <2>8, <3>3 DEF ToolsLookup
      <4> QED BY <1>0, <2>4, <2>6, <3>1, <4>1, <4>2
    <3> QED BY <3>2, <3>3
  <2>9. CASE ToolsPut(th)
    <3>1. at[th] \in ToolStates /\ HaveTools(th, Kept(th, "tools", db[th]))
      BY <2>9 DEF ToolsPut, ToolStates
    <3>2. Kept(th, "tools", db[th]) = Effective(a).tools
      BY <2>2, <2>3, <2>9, KeptIsRight DEF ToolsPut
    <3> QED BY <1>0, <2>4, <2>6, <3>1, <3>2
  <2>10. CASE DataLookup(th)
    <3>1. at[th] = "data" /\ at[th] \in DataStates
      BY <2>10 DEF DataLookup, DataStates
    <3>2. CASE cache[a].data = None
      BY <1>0, <2>1, <2>2, <2>3, <2>5, <2>10, <3>1, <3>2 DEF DataLookup, SeenOf, DataStates
    <3>3. CASE cache[a].data # None
      <4>1. cache[a].data = Effective(a).data
        BY <2>2, <2>3, <3>1, <3>3, KeptIsRight
      <4>2. HaveData(th, cache[a].data)
        BY <2>2, <2>10, <3>3 DEF DataLookup
      <4> QED BY <2>7, <3>1, <4>1, <4>2
    <3> QED BY <3>2, <3>3
  <2>11. CASE DataPut(th)
    <3>1. at[th] \in DataStates /\ HaveData(th, Kept(th, "data", db[th]))
      BY <2>11 DEF DataPut, DataStates
    <3>2. Kept(th, "data", db[th]) = Effective(a).data
      BY <2>2, <2>3, <2>11, KeptIsRight DEF DataPut
    <3> QED BY <2>7, <3>1, <3>2
  <2>12. CASE ToolsCode(th) \/ ToolsLoad(th) \/ ToolsHas(th)
    BY <1>0, <2>1, <2>2, <2>3, <2>5, <2>12 DEF ToolsCode, ToolsLoad, ToolsHas, SeenOf, DataStates
  <2>13. CASE DataCode(th) \/ DataLoad(th)
    BY <1>0, <2>1, <2>2, <2>3, <2>5, <2>13 DEF DataCode, DataLoad, SeenOf, DataStates
  <2> QED BY <1>3, <2>8, <2>9, <2>10, <2>11, <2>12, <2>13 DEF ThreadStep
<1>4. CASE ~Leave(th) /\ ~(\E q \in Requests : Ask(th, q)) /\ seen[th] = {}
  <2>1. seen'[th] = seen[th]
    BY <1>4 DEF ThreadStep, ToolsLookup, ToolsCode, ToolsLoad, ToolsHas, ToolsPut, DataLookup,
                DataCode, DataLoad, DataPut, Put
  <2> QED BY <1>4, <2>1 DEF SeenOf
<1> QED BY <1>1, <1>2, <1>3, <1>4

LEMMA ThreadShape ==
  ASSUME FreshInv, NEW th \in Threads, ThreadStep(th)
  PROVE  ShapeInv'
<1> USE DEF Still, Goto, Conclude, HaveTools, HaveData, history, matrixVars, grantVars
<1>0. ShapeInv
  BY DEF FreshInv
<1>a. asked[th] \in Requests => asked[th].agent \in Agents
  BY AuthorityAssumption DEF AuthorityAssumption
<1>1. CASE \E q \in Requests : Ask(th, q)
  BY <1>0, <1>1 DEF Ask, ShapeInv, ReadStates, ToolStates
<1>2. CASE ToolsLookup(th)
  BY <1>0, <1>2 DEF ToolsLookup, ShapeInv, ReadStates, ToolStates
<1>3. CASE ToolsCode(th)
  BY <1>0, <1>3 DEF ToolsCode, ShapeInv, ReadStates, ToolStates
<1>4. CASE ToolsLoad(th)
  BY <1>0, <1>4 DEF ToolsLoad, ShapeInv, ReadStates, ToolStates
<1>5. CASE ToolsHas(th)
  BY <1>0, <1>5 DEF ToolsHas, ShapeInv, ReadStates, ToolStates
<1>6. CASE ToolsPut(th)
  BY <1>0, <1>a, <1>6 DEF ToolsPut, Put, ShapeInv, ReadStates, ToolStates
<1>7. CASE DataLookup(th)
  BY <1>0, <1>7 DEF DataLookup, ShapeInv, ReadStates, ToolStates
<1>8. CASE DataCode(th)
  BY <1>0, <1>8 DEF DataCode, ShapeInv, ReadStates, ToolStates
<1>9. CASE DataLoad(th)
  BY <1>0, <1>9 DEF DataLoad, ShapeInv, ReadStates, ToolStates
<1>10. CASE DataPut(th)
  BY <1>0, <1>a, <1>10 DEF DataPut, Put, ShapeInv, ReadStates, ToolStates
<1>11. CASE Leave(th)
  BY <1>0, <1>11 DEF Leave, ShapeInv, ReadStates, ToolStates
<1> QED
  BY <1>1, <1>2, <1>3, <1>4, <1>5, <1>6, <1>7, <1>8, <1>9, <1>10, <1>11 DEF ThreadStep

LEMMA ThreadKeeps ==
  ASSUME FreshInv, NEW th \in Threads, ThreadStep(th)
  PROVE  FreshInv'
<1>1. ReadOf(th)' /\ SeenOf(th)'
  BY ThreadReads, ThreadSees
<1>2. ReadInv' /\ SeenInv'
  BY <1>1, ThreadIsApart, OthersStay
<1> QED BY <1>2, ThreadShape, ThreadCache DEF FreshInv

-----------------------------------------------------------------------------
(* Steps of an operator.                                                    *)

\* nothing that threads or the tables know has moved
LEMMA JobOnly ==
  ASSUME FreshInv, UNCHANGED <<matrixVars, grantVars, cache, threadVars, history>>, ShapeInv'
  PROVE  FreshInv'
<1>1. \A a \in Agents : RowOf(a)' = RowOf(a) /\ Enabled(a)' = Enabled(a) /\ Effective(a)' = Effective(a)
  BY TablesStill
<1>2. CacheIsFresh'
  BY CacheStays DEF history
<1>3. \A a \in Agents : Trusted(a) <=> Trusted(a)'
  BY DEF Trusted, history, threadVars
<1> SUFFICES ASSUME NEW th \in Threads PROVE ReadOf(th)' /\ SeenOf(th)'
  BY <1>2 DEF FreshInv, ReadInv, SeenInv
<1>4. ReadOf(th) /\ SeenOf(th)
  BY DEF FreshInv, ReadInv, SeenInv
<1>5. ReadOf(th)'
  BY <1>1, <1>4 DEF ReadOf, history, threadVars
<1>6. SeenOf(th)'
  BY <1>1, <1>3, <1>4 DEF SeenOf, history, threadVars
<1> QED BY <1>5, <1>6

LEMMA InvalidateKeeps ==
  ASSUME FreshInv, NEW o \in Operators, Invalidate(o)
  PROVE  FreshInv'
<1>0. job[o].agent \in Agents /\ ShapeInv
  BY DEF Invalidate, FreshInv, ShapeInv
<1>1. \A a \in Agents : RowOf(a)' = RowOf(a) /\ Enabled(a)' = Enabled(a) /\ Effective(a)' = Effective(a)
  BY TablesStill DEF Invalidate
<1>2. /\ \A a \in Agents : a \notin suspect' => a \notin suspect \/ cache'[a] = Empty
      /\ \A a \in Agents : cache'[a] = cache[a] \/ cache'[a] = Empty
      /\ suspect' \subseteq suspect /\ DOMAIN cache' = Agents
  BY <1>0 DEF Invalidate, ShapeInv
<1>3. CacheIsFresh'
  BY <1>1, <1>2 DEF FreshInv, CacheIsFresh, AgreesWith, Empty
<1>4. ShapeInv'
  BY <1>0, <1>2 DEF Invalidate, ShapeInv, Rest, Empty, matrixVars, grantVars, threadVars
<1>5. \A a \in Agents : Trusted(a) => Trusted(a)'
  BY <1>2 DEF Trusted, Invalidate, threadVars
<1> SUFFICES ASSUME NEW th \in Threads PROVE ReadOf(th)' /\ SeenOf(th)'
  BY <1>3, <1>4 DEF FreshInv, ReadInv, SeenInv
<1>6. ReadOf(th) /\ SeenOf(th)
  BY DEF FreshInv, ReadInv, SeenInv
<1>7. ReadOf(th)'
  BY <1>1, <1>6 DEF ReadOf, Invalidate, threadVars
<1>8. SeenOf(th)'
  BY <1>1, <1>5, <1>6 DEF SeenOf, Invalidate, threadVars
<1> QED BY <1>7, <1>8

\* a change of one agent's rows or grants
LEMMA ChangedKeeps ==
  ASSUME FreshInv, NEW o \in Operators, NEW a \in Agents, Changed(o, a),
         \A b \in Agents \ {a} : /\ rows'[b] = rows[b] /\ grants'[b] = grants[b]
                                 /\ (b \in marked' <=> b \in marked) /\ data'[b] = data[b],
         DOMAIN rows' = Agents, DOMAIN grants' = Agents, DOMAIN data' = Agents
  PROVE  FreshInv'
<1>1. Touch(a) /\ UNCHANGED <<cache, threadVars>>
  BY DEF Changed
<1>2. ReadInv' /\ CacheIsFresh' /\ SeenInv'
  BY <1>1, TouchStep
<1>3. ShapeInv'
  BY DEF FreshInv, ShapeInv, Changed, Work, Touch, HasRead, ReadStates, ToolStates, threadVars
<1> QED BY <1>2, <1>3 DEF FreshInv

OperatorStep(o) ==
    \/ \E a \in Agents, t \in Tools :
          \/ \E how \in {"enabled", "disabled"} : SaveToolGrant(o, a, t, how)
          \/ DeleteToolGrant(o, a, t) \/ PgSaveMarker(o, a, t) \/ PgDelete(o, a, t)
    \/ \E how \in {"enabled", "disabled"} : PgSaveGrant(o, how)
    \/ PgDeleteMarker(o)
    \/ \E a \in Agents : \/ \E g \in DataGrants : SaveDataGrant(o, a, g)
                         \/ \E row \in RowsOf[a] : Register(o, a, row)
                         \/ Deregister(o, a)
    \/ Invalidate(o)

LEMMA OperatorKeeps ==
  ASSUME FreshInv, NEW o \in Operators, OperatorStep(o)
  PROVE  FreshInv'
<1>0. /\ DOMAIN rows = Agents /\ DOMAIN grants = Agents /\ DOMAIN data = Agents /\ ShapeInv
      /\ job[o].op # "none" => job[o].agent \in Agents
  BY DEF FreshInv, ShapeInv
<1>1. ASSUME NEW a \in Agents, NEW t \in Tools, NEW how, SaveToolGrant(o, a, t, how)
      PROVE  FreshInv'
  BY <1>0, <1>1, ChangedKeeps DEF SaveToolGrant, matrixVars
<1>2. ASSUME NEW a \in Agents, NEW t \in Tools, DeleteToolGrant(o, a, t)
      PROVE  FreshInv'
  BY <1>0, <1>2, ChangedKeeps DEF DeleteToolGrant, matrixVars
<1>3. ASSUME NEW a \in Agents, NEW t \in Tools, PgSaveMarker(o, a, t) \/ PgDelete(o, a, t)
      PROVE  FreshInv'
  <2>1. UNCHANGED <<matrixVars, grantVars, cache, threadVars, history>>
    BY <1>3 DEF PgSaveMarker, PgDelete
  <2>2. ShapeInv'
    BY <1>0, <1>3, <2>1 DEF PgSaveMarker, PgDelete, Work, ShapeInv, matrixVars, grantVars,
                            threadVars, history
  <2> QED BY <2>1, <2>2, JobOnly
<1>4. ASSUME NEW how, PgSaveGrant(o, how)
      PROVE  FreshInv'
  <2>1. PICK a \in Agents : a = job[o].agent
    BY <1>0, <1>4 DEF PgSaveGrant
  <2> QED BY <1>0, <1>4, <2>1, ChangedKeeps DEF PgSaveGrant, matrixVars
<1>5. ASSUME PgDeleteMarker(o)
      PROVE  FreshInv'
  <2>1. PICK a \in Agents : a = job[o].agent
    BY <1>0, <1>5 DEF PgDeleteMarker
  <2> QED BY <1>0, <1>5, <2>1, ChangedKeeps DEF PgDeleteMarker, matrixVars
<1>6. ASSUME NEW a \in Agents, NEW g, SaveDataGrant(o, a, g)
      PROVE  FreshInv'
  BY <1>0, <1>6, ChangedKeeps DEF SaveDataGrant, matrixVars
<1>7. ASSUME NEW a \in Agents, NEW row, Register(o, a, row)
      PROVE  FreshInv'
  BY <1>0, <1>7, ChangedKeeps DEF Register, grantVars
<1>8. ASSUME NEW a \in Agents, Deregister(o, a)
      PROVE  FreshInv'
  BY <1>0, <1>8, ChangedKeeps DEF Deregister, grantVars
<1> QED
  BY <1>1, <1>2, <1>3, <1>4, <1>5, <1>6, <1>7, <1>8, InvalidateKeeps DEF OperatorStep

-----------------------------------------------------------------------------
LEMMA FreshInit == Init => FreshInv
<1> SUFFICES ASSUME Init PROVE FreshInv
  OBVIOUS
<1>1. ShapeInv
  BY DEF Init, ShapeInv, Empty, Rest, ReadStates, ToolStates
<1>2. ReadInv
  BY DEF Init, ReadInv, ReadOf
<1>3. CacheIsFresh
  BY DEF Init, CacheIsFresh, AgreesWith, Empty
<1>4. SeenInv
  BY DEF Init, SeenInv, SeenOf
<1> QED BY <1>1, <1>2, <1>3, <1>4 DEF FreshInv

LEMMA FreshNext == FreshInv /\ [Next]_vars => FreshInv'
<1> SUFFICES ASSUME FreshInv, [Next]_vars PROVE FreshInv'
  OBVIOUS
<1>1. ASSUME NEW th \in Threads, ThreadStep(th) PROVE FreshInv'
  BY <1>1, ThreadKeeps
<1>2. ASSUME NEW o \in Operators, OperatorStep(o) PROVE FreshInv'
  BY <1>2, OperatorKeeps
<1>3. CASE UNCHANGED vars
  <2>1. UNCHANGED <<matrixVars, grantVars, cache, threadVars, history, job>>
    BY <1>3 DEF vars
  <2>2. ShapeInv'
    BY <2>1 DEF FreshInv, ShapeInv, matrixVars, grantVars, threadVars, history
  <2> QED BY <2>1, <2>2, JobOnly
<1>4. ASSUME Next
      PROVE (\E th \in Threads : ThreadStep(th)) \/ (\E o \in Operators : OperatorStep(o))
  BY <1>4 DEF Next, ThreadStep, OperatorStep
<1> QED BY <1>1, <1>2, <1>3, <1>4

LEMMA FreshHolds == Spec => []FreshInv
  BY FreshInit, FreshNext, PTL DEF Spec

(* Whatever threads and operators do, and in whatever order, a cached answer *)
(* is what the tables say, except where a change or a read that a change     *)
(* overtook has been marked since the last invalidation of the agent.        *)
THEOREM CacheIsRight == Spec => []CacheIsFresh
<1>1. FreshInv => CacheIsFresh
  BY DEF FreshInv
<1> QED BY <1>1, FreshHolds, PTL

(* check_access, which puts its answer together from cached and from fresh   *)
(* reads, allows exactly what the tables allow if nothing about the agent    *)
(* changed while it asked.                                                  *)
THEOREM AccessIsRight == Spec => []AccessIsExact
<1>1. FreshInv => AccessIsExact
  <2> SUFFICES ASSUME FreshInv, NEW th \in Threads, at[th] = "done", NEW can \in seen[th]
               PROVE  verdict[th] <=> Allowed(asked[th], can)
    BY DEF AccessIsExact
  <2>1. PICK a \in Agents : asked[th].agent = a
    BY AskedType DEF FreshInv
  <2>2. SeenOf(th)
    BY DEF FreshInv, SeenInv
  <2>3. seen[th] = {Effective(a)} /\ (verdict[th] <=> Allowed(asked[th], Effective(a)))
    BY <2>1, <2>2 DEF SeenOf
  <2>4. can = Effective(a)
    BY <2>3
  <2> QED BY <2>3, <2>4
<1> QED BY <1>1, FreshHolds, PTL

-----------------------------------------------------------------------------
(* The index of producers.                                                  *)

IndexInv ==
    /\ DOMAIN rows = Agents /\ DOMAIN producer = Kinds
    /\ \A a \in Agents : rows[a] = None \/ rows[a] \in RowsOf[a]
    /\ \A k \in Kinds : producer[k] # None => producer[k] \in Agents
    /\ OneKindEach => \A k \in Kinds, p \in Agents :
          producer[k] = p => rows[p] # None /\ rows[p].write = k

LEMMA IndexNext == IndexInv /\ [Next]_vars => IndexInv'
<1> SUFFICES ASSUME IndexInv, [Next]_vars PROVE IndexInv'
  OBVIOUS
<1>0. /\ None \notin Agents /\ None \notin Kinds
      /\ \A a \in Agents : \A r \in RowsOf[a] : r # None => r.write \in Kinds \cup {None}
  BY AuthorityAssumption DEF AuthorityAssumption
<1>r. \A a \in Agents : \A r \in RowsOf[a] : r # None
  BY AuthorityAssumption DEF AuthorityAssumption
<1>1. ASSUME NEW o \in Operators, NEW a \in Agents, NEW row \in RowsOf[a], Register(o, a, row)
      PROVE  IndexInv'
  <2>1. /\ rows' = [rows EXCEPT ![a] = row]
        /\ producer' = IF row.write = None THEN producer ELSE [producer EXCEPT ![row.write] = a]
    BY <1>1 DEF Register
  <2>2. row.write \in Kinds \cup {None} /\ row # None
    BY <1>0, <1>r
  <2>3. ASSUME OneKindEach, NEW k \in Kinds, NEW p \in Agents, producer'[k] = p
        PROVE  rows'[p] # None /\ rows'[p].write = k
    <3>1. CASE row.write = k
      BY <1>0, <2>1, <2>2, <2>3, <3>1 DEF IndexInv
    <3>2. CASE row.write # k
      <4>1. producer[k] = p /\ rows[p] # None /\ rows[p].write = k
        BY <2>1, <2>2, <2>3, <3>2 DEF IndexInv
      <4>2. p # a
        BY <2>3, <3>2, <4>1 DEF OneKindEach, IndexInv
      <4> QED BY <2>1, <4>1, <4>2 DEF IndexInv
    <3> QED BY <3>1, <3>2
  <2>4. /\ DOMAIN rows' = Agents /\ DOMAIN producer' = Kinds
        /\ \A b \in Agents : rows'[b] = None \/ rows'[b] \in RowsOf[b]
        /\ \A k \in Kinds : producer'[k] # None => producer'[k] \in Agents
    BY <2>1, <2>2 DEF IndexInv
  <2> QED BY <2>3, <2>4 DEF IndexInv
<1>2. ASSUME NEW o \in Operators, NEW a \in Agents, Deregister(o, a)
      PROVE  IndexInv'
  <2>1. /\ rows[a] # None /\ rows' = [rows EXCEPT ![a] = None]
        /\ producer' = IF rows[a].write = None THEN producer
                       ELSE [producer EXCEPT ![rows[a].write] = None]
    BY <1>2 DEF Deregister
  <2>2. rows[a].write \in Kinds \cup {None}
    BY <1>0, <2>1 DEF IndexInv
  <2>3. ASSUME OneKindEach, NEW k \in Kinds, NEW p \in Agents, producer'[k] = p
        PROVE  rows'[p] # None /\ rows'[p].write = k
    <3>1. producer[k] = p /\ rows[p] # None /\ rows[p].write = k
      BY <1>0, <2>1, <2>2, <2>3 DEF IndexInv
    <3>2. p # a
      BY <1>0, <2>1, <2>2, <2>3, <3>1 DEF IndexInv
    <3> QED BY <2>1, <3>1, <3>2 DEF IndexInv
  <2>4. /\ DOMAIN rows' = Agents /\ DOMAIN producer' = Kinds
        /\ \A b \in Agents : rows'[b] = None \/ rows'[b] \in RowsOf[b]
        /\ \A k \in Kinds : producer'[k] # None => producer'[k] \in Agents
    BY <2>1, <2>2 DEF IndexInv
  <2> QED BY <2>3, <2>4 DEF IndexInv
<1>3. ASSUME UNCHANGED matrixVars PROVE IndexInv'
  BY <1>3 DEF matrixVars, IndexInv
<1>4. ASSUME Next
      PROVE  \/ UNCHANGED matrixVars
             \/ \E o \in Operators, a \in Agents :
                   (\E row \in RowsOf[a] : Register(o, a, row)) \/ Deregister(o, a)
  <2>1. \A o \in Operators, a \in Agents, t \in Tools :
           PgSaveMarker(o, a, t) \/ PgDelete(o, a, t) => UNCHANGED matrixVars
    BY DEF PgSaveMarker, PgDelete
  <2>2. \A o \in Operators : \A how : PgSaveGrant(o, how) \/ PgDeleteMarker(o) => UNCHANGED matrixVars
    BY DEF PgSaveGrant, PgDeleteMarker
  <2> QED BY <1>4, <2>1, <2>2 DEF Next, Ask, ToolsLookup, ToolsCode, ToolsLoad, ToolsHas, ToolsPut, DataLookup, DataCode,
              DataLoad, DataPut, Leave, Still, SaveToolGrant, DeleteToolGrant, SaveDataGrant, Invalidate
<1>5. CASE UNCHANGED vars
  BY <1>3, <1>5 DEF vars
<1> QED BY <1>1, <1>2, <1>3, <1>4, <1>5

(* However agents come, go and are registered again, whom the index names as *)
(* the producer of a kind is registered and writes that kind.                *)
THEOREM IndexIsRight == Spec => []ProducerIsRegistered
<1>0. /\ None \notin Agents
      /\ \A a \in Agents : \A r \in RowsOf[a] : r # None
  BY AuthorityAssumption DEF AuthorityAssumption
<1>1. Init => IndexInv
  <2> SUFFICES ASSUME Init PROVE IndexInv
    OBVIOUS
  <2>1. /\ DOMAIN rows = Agents /\ \A a \in Agents : rows[a] \in RowsOf[a]
    BY DEF Init
  <2>2. /\ producer \in [Kinds -> Agents \cup {None}]
        /\ \A k \in Kinds : producer[k] # None => rows[producer[k]].write = k
    BY DEF Init
  <2> QED BY <1>0, <2>1, <2>2 DEF IndexInv
<1>2. IndexInv => ProducerIsRegistered
  BY DEF IndexInv, ProducerIsRegistered, RowOf
<1> QED BY <1>1, <1>2, IndexNext, PTL DEF Spec
=============================================================================
