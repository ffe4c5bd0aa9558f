---------------------------- MODULE ServerProofs ----------------------------
(***************************************************************************)
(* Proofs about module Server, for any number of threads, requests,        *)
(* symbols and changes, and any TTL.                                       *)
(***************************************************************************)
EXTENDS Server, FiniteSetTheorems, TLAPS

-----------------------------------------------------------------------------
(* Handlers: all of them run a statement, and only those of the HTTP       *)
(* server use the cache.                                                   *)
GoodHandler(h) == /\ h.statements \in Nat \ {0} /\ h.cached \in BOOLEAN
                  /\ h.parts \subseteq Parts /\ "rest" \in h.parts
Plain(h) == GoodHandler(h) /\ ~h.cached

LEMMA HttpHandlers ==
  ASSUME NEW m \in DOMAIN jsonrpc_handler
  PROVE  GoodHandler(jsonrpc_handler[m])
<1>1. /\ GoodHandler(handle_read) /\ GoodHandler(handle_neighbors)
      /\ GoodHandler(handle_impact) /\ GoodHandler(handle_search)
  BY DEF GoodHandler, Handler, Parts, Records, handle_read, handle_neighbors, handle_impact, handle_search
<1>2. /\ GoodHandler(handle_stats) /\ GoodHandler(handle_edit_plan)
      /\ GoodHandler(handle_verify) /\ GoodHandler(handle_impact_deep)
  BY DEF GoodHandler, Handler, Parts, Records, handle_stats, handle_edit_plan, handle_verify, handle_impact_deep
<1>3. /\ GoodHandler(handle_dead_code_verify) /\ GoodHandler(handle_cross_module_move)
      /\ GoodHandler(handle_signature_migration_check)
  BY DEF GoodHandler, Handler, Parts, Records, handle_dead_code_verify, handle_cross_module_move,
         handle_signature_migration_check
<1>4. jsonrpc_handler[m] \in
        {handle_read, handle_neighbors, handle_impact, handle_search,
         handle_stats, handle_edit_plan, handle_verify, handle_impact_deep,
         handle_dead_code_verify, handle_cross_module_move, handle_signature_migration_check}
  BY DEF jsonrpc_handler
<1> QED BY <1>1, <1>2, <1>3, <1>4

LEMMA StdioHandlers ==
  ASSUME NEW m \in DOMAIN handle_tools_call
  PROVE  Plain(handle_tools_call[m])
<1>1. /\ Plain(tool_stats) /\ Plain(tool_search)
      /\ Plain(tool_list_file_symbols) /\ Plain(tool_neighbors)
  BY DEF Plain, GoodHandler, Handler, Parts, Records, tool_stats, tool_search, tool_list_file_symbols,
         tool_neighbors
<1>2. Plain(tool_impact) /\ Plain(tool_edit_plan) /\ Plain(tool_verify) /\ Plain(tool_impact_deep)
  BY DEF Plain, GoodHandler, Handler, Parts, Records, tool_impact, tool_edit_plan, tool_verify, tool_impact_deep
<1>3. /\ Plain(tool_dead_code_verify) /\ Plain(tool_cross_module_move)
      /\ Plain(tool_signature_migration_check)
  BY DEF Plain, GoodHandler, Handler, Parts, Records, tool_dead_code_verify, tool_cross_module_move,
         tool_signature_migration_check
<1>4. handle_tools_call[m] \in
        {tool_stats, tool_search, tool_list_file_symbols, tool_neighbors,
         tool_impact, tool_edit_plan, tool_verify, tool_impact_deep,
         tool_dead_code_verify, tool_cross_module_move, tool_signature_migration_check}
  BY DEF handle_tools_call
<1> QED BY <1>1, <1>2, <1>3, <1>4

LEMMA RestHandlers ==
  ASSUME NEW m \in DOMAIN create_router
  PROVE  Plain(create_router[m])
<1>1. Plain(rest_stats) /\ Plain(rest_search) /\ Plain(rest_neighbors)
  BY DEF Plain, GoodHandler, Handler, Parts, Records, rest_stats, rest_search, rest_neighbors
<1>2. create_router[m] \in
        {rest_stats, rest_search, rest_neighbors}
  BY DEF create_router
<1> QED BY <1>1, <1>2

LEMMA Handled ==
  ASSUME NEW q \in Requests, ~Refused(q)
  PROVE  /\ GoodHandler(HandlerOf(q)) /\ (HandlerOf(q).cached => q.over = "http")
         /\ Statements(q) \in Nat \ {0}
<1>1. q.over \in {"http", "stdio", "rest"} /\ q.method \in DOMAIN Handlers[q.over]
  BY ServerAssumption DEF RequestType, Handlers, Refused, Unknown
<1>2. q.over = "http" => GoodHandler(HandlerOf(q))
  BY <1>1, HttpHandlers DEF Handlers, HandlerOf
<1>3. q.over = "stdio" => Plain(HandlerOf(q))
  BY <1>1, StdioHandlers DEF Handlers, HandlerOf
<1>4. q.over = "rest" => Plain(HandlerOf(q))
  BY <1>1, RestHandlers DEF Handlers, HandlerOf
<1>5. GoodHandler(HandlerOf(q)) => Statements(q) \in Nat \ {0}
  BY DEF GoodHandler, Statements
<1> QED BY <1>1, <1>2, <1>3, <1>4, <1>5 DEF Plain
-----------------------------------------------------------------------------
(* What a thread is doing.                                                 *)
RequestSteps == {"lookup", "select", "lock", "query", "store"}

AskingType == [q : Requests, time : Nat, index : Nat, swept : Nat]
ReadType   == [statements : Nat, from : Nat, failed : SUBSET Nat]
RankRow    == {r \in [degrees : 0 .. MaxChanges, edges : 0 .. MaxChanges] : r.degrees <= r.edges}

RequestWork == [step : RequestSteps, asking : AskingType, read : ReadType]
DeleteWork  == [step : {"delete"}, keys : SUBSET Keys]
DegreesWork == [step : {"degrees"}, alone : BOOLEAN]
EdgesWork   == [step : {"edges"}, alone : BOOLEAN, degrees : 0 .. MaxChanges,
                left : SUBSET Symbols]
UpsertWork  == [step : {"upsert"}, alone : BOOLEAN, left : SUBSET Symbols, rank : RankRow]

Work == {Idle} \cup RequestWork \cup DeleteWork \cup DegreesWork \cup EdgesWork \cup UpsertWork

ResultType == [of : Requests, from : Nat, failed : SUBSET Nat, parts : SUBSET Parts]
RowType    == {r \in [result : ResultType, expires : Nat, stored : Nat, begun : Nat] :
                r.expires = r.stored + TTL}

RestType ==
  /\ index \in 0 .. MaxChanges /\ now \in 0 .. MaxTime /\ asked \in 0 .. MaxAsked
  /\ cache \in [Keys -> {None} \cup RowType]
  /\ ranks \in [Symbols -> {None} \cup RankRow]
  /\ sweeps \in [begun : Nat, finished : Nat]

(* Where a request can be, by its handler.                                 *)
Request(w) ==
  LET h == HandlerOf(Question(w))
      n == work[w].read.statements
  IN /\ ~Refused(Question(w))
     /\ w \in Others => Question(w).over = "stdio"
     /\ work[w].step \in {"lookup", "select", "store"} => h.cached
     /\ work[w].step \in {"lookup", "select", "lock"} => n = 0
     /\ work[w].step = "query" => n < Statements(Question(w))
     /\ work[w].step = "store" => n = Statements(Question(w))

(* Where a thread can be, and the locks it holds there.                    *)
Place(w) ==
  /\ w \in Threads => /\ work[w].step \in RequestSteps \cup {"idle", "delete"}
                      /\ dbLock = w <=> work[w].step \in {"query", "store"}
                      /\ cacheLock = w <=> work[w].step = "select"
  /\ w \in Others => work[w].step \in {"idle", "query"} \cup RankSteps
  /\ work[w].step \in RequestSteps => Request(w)
  /\ work[w].step = "edges" => work[w].degrees <= index

SInv == RestType /\ work \in [Workers -> Work] /\ \A w \in Workers : Place(w)

LEMMA IdleFacts == Idle \in Work /\ Idle.step = "idle"
BY DEF Work, Idle

LEMMA WorkFacts ==
  ASSUME NEW x \in Work
  PROVE  /\ x.step \in RequestSteps => x \in RequestWork
         /\ x.step = "delete" => x \in DeleteWork
         /\ x.step = "degrees" => x \in DegreesWork
         /\ x.step = "edges" => x \in EdgesWork
         /\ x.step = "upsert" => x \in UpsertWork
BY DEF Work, Idle, RequestWork, DeleteWork, DegreesWork, EdgesWork, UpsertWork, RequestSteps

LEMMA SInvInit == Init => SInv
<1> SUFFICES ASSUME Init PROVE SInv
  OBVIOUS
<1>1. RestType
  BY ServerAssumption DEF Init, RestType
<1>2. \A w \in Workers : work[w] = Idle /\ dbLock # w /\ cacheLock # w
  BY ServerAssumption DEF Init, Nobody, Workers
<1>3. work \in [Workers -> Work]
  BY IdleFacts DEF Init
<1> QED BY <1>1, <1>2, <1>3, IdleFacts DEF SInv, Place, RequestSteps, RankSteps

(* Of the threads, only w moves.                                           *)
Only(w) == \A v \in Workers \ {w} : work'[v] = work[v]

LEMMA Moves ==
  ASSUME SInv, RestType', NEW w \in Workers, NEW x \in Work, work' = [work EXCEPT ![w] = x],
         \A v \in Threads \ {w} : (dbLock' = v <=> dbLock = v)
                                 /\ (cacheLock' = v <=> cacheLock = v),
         index' = index,
         Place(w)'
  PROVE  SInv'
<1>1. work' \in [Workers -> Work] /\ Only(w)
  BY DEF SInv, Only
<1>2. ASSUME NEW v \in Workers \ {w} PROVE Place(v)'
  BY <1>1, <1>2 DEF SInv, Place, Only, Request, Question
<1> QED BY <1>1, <1>2 DEF SInv

(* A thread that becomes idle gives its locks back.                        *)
LEMMA Ends ==
  ASSUME SInv, RestType', NEW w \in Workers, work' = [work EXCEPT ![w] = Idle],
         index' = index,
         (dbLock' = dbLock /\ dbLock # w) \/ dbLock' = (IF dbLock = w THEN Nobody ELSE dbLock),
         (cacheLock' = cacheLock /\ cacheLock # w) \/ (cacheLock = w /\ cacheLock' = Nobody)
  PROVE  SInv'
<1>1. \A v \in Workers : v # Nobody
  BY ServerAssumption DEF Nobody
<1>2. work'[w] = Idle /\ dbLock' # w /\ cacheLock' # w
  BY <1>1 DEF SInv
<1>3. Place(w)'
  BY <1>2, IdleFacts DEF Place, RequestSteps, RankSteps
<1>4. \A v \in Threads \ {w} : (dbLock' = v <=> dbLock = v) /\ (cacheLock' = v <=> cacheLock = v)
  BY <1>1 DEF Workers
<1> QED BY <1>3, <1>4, IdleFacts, Moves

(* Nobody moves.                                                           *)
LEMMA Still ==
  ASSUME SInv, RestType', UNCHANGED <<work, dbLock, cacheLock>>, index <= index' PROVE SInv'
<1>1. ASSUME NEW w \in Workers PROVE Place(w)'
  <2>1. Request(w) => Request(w)'
    BY DEF Request, Question
  <2>2. work[w].step = "edges" => work[w].degrees <= index'
    <3>1. work[w].step = "edges" => work[w].degrees \in Nat /\ index \in Nat /\ index' \in Nat
      BY WorkFacts, ServerAssumption DEF SInv, RestType, EdgesWork
    <3> QED BY <3>1 DEF SInv, Place
  <2> QED BY <2>1, <2>2 DEF SInv, Place
<1> QED BY <1>1 DEF SInv
-----------------------------------------------------------------------------
(* The world, and the maintenance of the cache.                            *)
LEMMA WorldSteps == ASSUME SInv, Change \/ Tick \/ purge_expired PROVE SInv'
<1>1. MaxChanges \in Nat /\ MaxTime \in Nat
  BY ServerAssumption
<1>2. CASE Change
  BY <1>1, <1>2, Still DEF Change, SInv, RestType
<1>3. CASE Tick
  BY <1>1, <1>3, Still DEF Tick, SInv, RestType
<1>4. CASE purge_expired
  <2>1. cache' \in [Keys -> {None} \cup RowType]
    BY <1>4 DEF purge_expired, SInv, RestType
  <2> QED BY <1>1, <1>4, <2>1, Still DEF purge_expired, SInv, RestType
<1> QED BY <1>2, <1>3, <1>4

LEMMA RestartStep == ASSUME SInv, Restart PROVE SInv'
<1>1. RestType'
  BY DEF Restart, SInv, RestType
<1>2. work' = [w \in Workers |-> IF w \in Threads THEN Idle ELSE work[w]]
      /\ dbLock' = Nobody /\ cacheLock' = Nobody /\ index' = index
  BY DEF Restart
<1>3. work' \in [Workers -> Work]
  BY <1>2, IdleFacts DEF SInv
<1>4. \A w \in Threads : work'[w] = Idle /\ dbLock' # w /\ cacheLock' # w
  BY <1>2, ServerAssumption DEF Workers, Nobody
<1>5. \A w \in Workers \ Threads : work'[w] = work[w]
  BY <1>2
<1>6. ASSUME NEW w \in Workers PROVE Place(w)'
  <2>1. CASE w \in Threads
    <3>1. w \notin Others
      BY <2>1, ServerAssumption
    <3> QED BY <1>4, <2>1, <3>1, IdleFacts DEF Place, RequestSteps
  <2>2. CASE w \notin Threads
    BY <1>2, <1>5, <2>2 DEF SInv, Place, Request, Question
  <2> QED BY <2>1, <2>2
<1> QED BY <1>1, <1>3, <1>6 DEF SInv

LEMMA SweepSteps ==
  ASSUME SInv, NEW w \in Workers, (w \in Threads /\ Invalidate(w)) \/ DeleteOne(w) PROVE SInv'
<1>1. CASE w \in Threads /\ Invalidate(w)
  <2> DEFINE x == [step |-> "delete", keys |-> {k \in Keys : Live(k) /\ Mentions(cache[k])}]
  <2>1. /\ work' = [work EXCEPT ![w] = x] /\ UNCHANGED <<index, dbLock, cacheLock>>
        /\ w \in Threads /\ work[w] = Idle
    BY <1>1 DEF Invalidate, Takes, Busy
  <2>2. x \in Work /\ x.step = "delete"
    BY DEF Work, DeleteWork
  <2> HIDE DEF x
  <2>3. RestType'
    BY <1>1 DEF Invalidate, SInv, RestType
  <2>4. work'[w] = x /\ w \notin Others /\ dbLock # w /\ cacheLock # w
    BY <2>1, ServerAssumption, IdleFacts DEF SInv, Place
  <2>5. Place(w)'
    BY <2>1, <2>2, <2>4 DEF Place, RequestSteps
  <2> QED BY <2>1, <2>2, <2>3, <2>5, Moves
<1>2. CASE DeleteOne(w)
  <2>1. work[w].step = "delete" /\ work[w] \in DeleteWork /\ w \in Threads /\ w \notin Others
    BY <1>2, WorkFacts, ServerAssumption
       DEF DeleteOne, SInv, Place, RequestSteps, RankSteps, Workers
  <2>2. dbLock # w /\ cacheLock # w /\ UNCHANGED <<index, dbLock, cacheLock>>
    BY <1>2, <2>1 DEF DeleteOne, SInv, Place
  <2>3. RestType'
    <3>1. cache' \in [Keys -> {None} \cup RowType]
      BY <1>2 DEF DeleteOne, SInv, RestType
    <3>2. sweeps' \in [begun : Nat, finished : Nat]
      BY <1>2 DEF DeleteOne, SInv, RestType
    <3> QED BY <1>2, <3>1, <3>2 DEF DeleteOne, SInv, RestType
  <2>4. CASE work' = [work EXCEPT ![w] = Idle]
    <3>1. (dbLock' = dbLock /\ dbLock # w) \/ dbLock' = (IF dbLock = w THEN Nobody ELSE dbLock)
      BY <2>2
    <3>2. (cacheLock' = cacheLock /\ cacheLock # w) \/ (cacheLock = w /\ cacheLock' = Nobody)
      BY <2>2
    <3>3. index' = index
      BY <2>2
    <3> QED BY <2>3, <2>4, <3>1, <3>2, <3>3, Ends
  <2>5. ASSUME NEW k, work' = [work EXCEPT ![w].keys = @ \ {k}] PROVE SInv'
    <3> DEFINE x == [work[w] EXCEPT !.keys = @ \ {k}]
    <3>1. x \in Work /\ x.step = "delete" /\ work' = [work EXCEPT ![w] = x]
      BY <2>1, <2>5 DEF DeleteWork, Work, SInv
    <3> HIDE DEF x
    <3>2. work'[w] = x
      BY <3>1 DEF SInv
    <3>3. Place(w)'
      BY <2>1, <2>2, <3>1, <3>2 DEF Place, RequestSteps
    <3> QED BY <2>2, <2>3, <3>1, <3>3, Moves
  <2> QED BY <1>2, <2>4, <2>5 DEF DeleteOne
<1> QED BY <1>1, <1>2
-----------------------------------------------------------------------------
(* The steps of a request.                                                 *)
LEMMA RequestFacts ==
  ASSUME SInv, NEW w \in Workers, work[w].step \in RequestSteps
  PROVE  /\ work[w] \in RequestWork /\ Question(w) \in Requests
         /\ Request(w) /\ GoodHandler(HandlerOf(Question(w)))
         /\ HandlerOf(Question(w)).cached => w \in Threads
         /\ work[w].step # "query" => w \in Threads
         /\ make_key(Question(w)) \in Keys
         /\ Statements(Question(w)) \in Nat \ {0}
<1>1. work[w] \in RequestWork /\ Request(w)
  BY WorkFacts DEF SInv, Place
<1>2. Question(w) \in Requests
  BY <1>1 DEF RequestWork, AskingType, Question
<1>3. GoodHandler(HandlerOf(Question(w)))
      /\ (HandlerOf(Question(w)).cached => Question(w).over = "http")
      /\ Statements(Question(w)) \in Nat \ {0}
  BY <1>1, <1>2, Handled DEF Request
<1>4. w \in Others => Question(w).over = "stdio" /\ work[w].step \in {"idle", "query"} \cup RankSteps
  BY <1>1 DEF SInv, Place, Request
<1> QED BY <1>1, <1>2, <1>3, <1>4 DEF Workers, Keys, RankSteps, RequestSteps

(* A request goes to another of its steps.                                 *)
LEMMA GoesOn ==
  ASSUME SInv, NEW w \in Workers, work[w].step \in RequestSteps,
         NEW to \in RequestSteps, Goes(w, to)
  PROVE  \E x \in Work : /\ work' = [work EXCEPT ![w] = x] /\ work'[w] = x
                         /\ x \in RequestWork /\ x.step = to
                         /\ x.asking = work[w].asking /\ x.read = work[w].read
<1> DEFINE x == [work[w] EXCEPT !.step = to]
<1>1. x \in RequestWork /\ x.step = to /\ x.asking = work[w].asking /\ x.read = work[w].read
  BY RequestFacts DEF RequestWork
<1>2. work' = [work EXCEPT ![w] = x] /\ work'[w] = x
  BY DEF Goes, SInv
<1> HIDE DEF x
<1> QED BY <1>1, <1>2 DEF Work

(* Its place follows from the fields that are left alone.                  *)
LEMMA RequestStays ==
  ASSUME SInv, NEW w \in Workers, work[w].step \in RequestSteps,
         work'[w].asking = work[w].asking, work'[w].read = work[w].read,
         work'[w].step \in {"select", "store"} => HandlerOf(Question(w)).cached,
         work'[w].step \in {"select", "lock"} => work[w].read.statements = 0,
         work'[w].step = "query" => work[w].read.statements < Statements(Question(w)),
         work'[w].step \notin {"lookup", "store"}
  PROVE  Request(w)'
BY RequestFacts DEF Request, Question

LEMMA AskStep ==
  ASSUME SInv, NEW w \in Workers, NEW q \in Requests, Ask(w, q) PROVE SInv'
<1>1. /\ UNCHANGED <<index, now, cache, ranks, dbLock, cacheLock, sweeps>>
      /\ asked < MaxAsked /\ asked' = asked + 1 /\ work[w] = Idle
      /\ w \in (IF q.over = "stdio" THEN Others ELSE Threads)
  BY DEF Ask, Asks, Takes, Busy
<1>2. RestType'
  BY <1>1, ServerAssumption DEF SInv, RestType
<1>3. dbLock # w \/ w \notin Threads
  BY <1>1, IdleFacts DEF SInv, Place
<1>4. cacheLock # w \/ w \notin Threads
  BY <1>1, IdleFacts DEF SInv, Place
<1>5. CASE Refused(q)
  <2>1. UNCHANGED work
    BY <1>5 DEF Ask
  <2> QED BY <1>1, <1>2, <2>1, Still DEF SInv, RestType
<1>6. CASE ~Refused(q)
  <2> DEFINE to == IF HandlerOf(q).cached THEN "lookup"
                   ELSE IF w \in Threads THEN "lock" ELSE "query"
             x == [step |-> to, asking |-> Asking(q), read |-> Blank]
  <2>1. work' = [work EXCEPT ![w] = x]
    BY <1>6 DEF Ask
  <2>2. to \in {"lookup", "lock", "query"}
    OBVIOUS
  <2>3. Statements(q) \in Nat \ {0} /\ HandlerOf(q).cached \in BOOLEAN
        /\ (HandlerOf(q).cached => q.over = "http")
    BY <1>6, Handled DEF GoodHandler
  <2>4. /\ w \in Others => to = "query" /\ q.over = "stdio"
        /\ w \in Threads => to \in {"lookup", "lock"}
        /\ to = "lookup" => HandlerOf(q).cached
    BY <1>1, <2>3, ServerAssumption
  <2>5. Asking(q) \in AskingType /\ Asking(q).q = q
    BY ServerAssumption DEF Asking, AskingType, SInv, RestType
  <2>6. Blank \in ReadType /\ Blank.statements = 0
    BY DEF Blank, ReadType
  <2>7. x \in RequestWork /\ x.step = to /\ x.asking.q = q /\ x.read.statements = 0
    BY <2>2, <2>5, <2>6 DEF RequestWork, RequestSteps
  <2> HIDE DEF x, to
  <2>8. work'[w] = x /\ x \in Work
    BY <2>1, <2>7 DEF SInv, Work
  <2>9. Request(w)'
    BY <1>6, <2>2, <2>3, <2>4, <2>7, <2>8 DEF Request, Question
  <2>10. Place(w)'
    <3>1. w \in Threads => dbLock' # w /\ cacheLock' # w
      BY <1>1, <1>3, <1>4
    <3> QED BY <2>2, <2>4, <2>7, <2>8, <2>9, <3>1 DEF Place, RequestSteps
  <2> QED BY <1>1, <1>2, <2>1, <2>8, <2>10, Moves
<1> QED BY <1>5, <1>6

LEMMA LookupStep == ASSUME SInv, NEW w \in Workers, Lookup(w) PROVE SInv'
<1>1. /\ work[w].step = "lookup" /\ cacheLock = Nobody
      /\ UNCHANGED <<index, now, cache, ranks, dbLock, asked, sweeps>>
  BY DEF Lookup
<1>2. PICK to \in {"select", "lock"} : /\ Goes(w, to)
                                      /\ cacheLock' = IF to = "select" THEN w ELSE cacheLock
  BY DEF Lookup
<1>3. RestType'
  BY <1>1 DEF SInv, RestType
<1>4. /\ w \in Threads /\ w \notin Others /\ work[w].read.statements = 0
      /\ HandlerOf(Question(w)).cached
  BY <1>1, RequestFacts, ServerAssumption DEF RequestSteps, Request
<1>5. PICK x \in Work : /\ work' = [work EXCEPT ![w] = x] /\ work'[w] = x
                       /\ x \in RequestWork /\ x.step = to
                       /\ x.asking = work[w].asking /\ x.read = work[w].read
  BY <1>1, <1>2, GoesOn DEF RequestSteps
<1>6. Request(w)'
  BY <1>1, <1>2, <1>4, <1>5, RequestStays DEF RequestSteps
<1>7. dbLock # w /\ \A v \in Threads : v # Nobody
  BY <1>1, <1>4, ServerAssumption DEF SInv, Place, Nobody, Workers
<1>8. Place(w)'
  BY <1>1, <1>2, <1>4, <1>5, <1>6, <1>7 DEF Place, RequestSteps
<1> QED BY <1>1, <1>2, <1>3, <1>5, <1>7, <1>8, Moves

LEMMA SelectStep == ASSUME SInv, NEW w \in Workers, Select(w) PROVE SInv'
<1>1. /\ work[w].step = "select" /\ cacheLock' = Nobody
      /\ UNCHANGED <<index, now, cache, ranks, dbLock, asked, sweeps>>
  BY DEF Select, DropCache
<1>2. RestType'
  BY <1>1 DEF SInv, RestType
<1>3. /\ w \in Threads /\ w \notin Others /\ work[w].read.statements = 0
      /\ HandlerOf(Question(w)).cached
  BY <1>1, RequestFacts, ServerAssumption DEF RequestSteps, Request
<1>4. cacheLock = w /\ dbLock # w /\ \A v \in Threads : v # Nobody
  BY <1>1, <1>3, ServerAssumption DEF SInv, Place, Nobody, Workers
<1>5. CASE work' = [work EXCEPT ![w] = Idle]
  BY <1>1, <1>2, <1>4, <1>5, Ends
<1>6. CASE Goes(w, "lock")
  <2>1. PICK x \in Work : /\ work' = [work EXCEPT ![w] = x] /\ work'[w] = x
                         /\ x \in RequestWork /\ x.step = "lock"
                         /\ x.asking = work[w].asking /\ x.read = work[w].read
    BY <1>1, <1>6, GoesOn DEF RequestSteps
  <2>2. Request(w)'
    BY <1>1, <1>3, <2>1, RequestStays DEF RequestSteps
  <2>3. Place(w)'
    BY <1>1, <1>3, <1>4, <2>1, <2>2 DEF Place, RequestSteps
  <2> QED BY <1>1, <1>2, <1>4, <2>1, <2>3, Moves
<1> QED BY <1>5, <1>6 DEF Select, Answer

LEMMA TakeDbStep == ASSUME SInv, NEW w \in Workers, TakeDb(w) PROVE SInv'
<1>1. /\ work[w].step = "lock" /\ dbLock = Nobody /\ dbLock' = w /\ Goes(w, "query")
      /\ UNCHANGED <<index, now, cache, ranks, cacheLock, asked, sweeps>>
  BY DEF TakeDb
<1>2. RestType'
  BY <1>1 DEF SInv, RestType
<1>3. /\ w \in Threads /\ w \notin Others /\ work[w].read.statements = 0
      /\ Statements(Question(w)) \in Nat \ {0}
  BY <1>1, RequestFacts, ServerAssumption DEF RequestSteps, Request, GoodHandler
<1>4. cacheLock # w /\ \A v \in Threads : v # Nobody
  BY <1>1, <1>3, ServerAssumption DEF SInv, Place, Nobody, Workers
<1>5. PICK x \in Work : /\ work' = [work EXCEPT ![w] = x] /\ work'[w] = x
                       /\ x \in RequestWork /\ x.step = "query"
                       /\ x.asking = work[w].asking /\ x.read = work[w].read
  BY <1>1, GoesOn DEF RequestSteps
<1>6. Request(w)'
  BY <1>1, <1>3, <1>5, RequestStays DEF RequestSteps
<1>7. Place(w)'
  BY <1>1, <1>3, <1>4, <1>5, <1>6 DEF Place, RequestSteps
<1> QED BY <1>1, <1>2, <1>4, <1>5, <1>7, Moves

(* An answer, an error or a result that is stored, ends the request.       *)
LEMMA QueryEnds ==
  ASSUME SInv, NEW w \in Workers, work[w].step \in {"query", "store"}, RestType',
         work' = [work EXCEPT ![w] = Idle], Release(w), UNCHANGED <<index, cacheLock>>
  PROVE  SInv'
<1>1. dbLock' = (IF dbLock = w THEN Nobody ELSE dbLock)
  BY DEF Release
<1>2. CASE w \in Threads
  <2>1. (cacheLock' = cacheLock /\ cacheLock # w) \/ (cacheLock = w /\ cacheLock' = Nobody)
    BY <1>2 DEF SInv, Place
  <2>2. (dbLock' = dbLock /\ dbLock # w) \/ dbLock' = (IF dbLock = w THEN Nobody ELSE dbLock)
    BY <1>1
  <2>3. index' = index
    OBVIOUS
  <2> QED BY <2>1, <2>2, <2>3, Ends
<1>3. CASE w \in Others
  <2>1. Place(w)'
    <3>1. work'[w] = Idle /\ w \notin Threads
      BY <1>3, ServerAssumption DEF SInv
    <3> QED BY <3>1, IdleFacts DEF Place, RequestSteps, RankSteps
  <2>2. \A v \in Threads \ {w} : (dbLock' = v <=> dbLock = v) /\ (cacheLock' = v <=> cacheLock = v)
    <3>1. \A v \in Threads : v # Nobody
      BY ServerAssumption DEF Nobody, Workers
    <3> QED BY <1>1, <3>1
  <2> QED BY <2>1, <2>2, IdleFacts, Moves
<1> QED BY <1>2, <1>3 DEF Workers

LEMMA QueryStep == ASSUME SInv, NEW w \in Workers, Query(w) PROVE SInv'
<1>1. /\ work[w].step = "query"
      /\ UNCHANGED <<index, now, cache, ranks, cacheLock, asked, sweeps>>
  BY DEF Query
<1>2. RestType'
  BY <1>1 DEF SInv, RestType
<1> DEFINE q == Question(w)
           i == work[w].read.statements + 1
<1>3. CASE work' = [work EXCEPT ![w] = Idle] /\ Release(w)
  BY <1>1, <1>2, <1>3, QueryEnds
<1>4. ASSUME NEW read,
             read.statements = i, read \in ReadType,
             ~(i = Statements(q) /\ ~HandlerOf(q).cached),
             work' = [work EXCEPT ![w].read = read,
                         ![w].step = IF i < Statements(q) THEN @ ELSE "store"],
             UNCHANGED dbLock
      PROVE  SInv'
  <2> DEFINE to == IF i < Statements(q) THEN "query" ELSE "store"
             x == [work[w] EXCEPT !.read = read, !.step = to]
  <2>1. /\ work[w] \in RequestWork /\ Request(w) /\ GoodHandler(HandlerOf(q))
        /\ HandlerOf(q).cached => w \in Threads
        /\ Statements(q) \in Nat
    BY <1>1, RequestFacts DEF RequestSteps
  <2>2. work' = [work EXCEPT ![w] = x]
    BY <1>1, <1>4, <2>1 DEF RequestWork, SInv
  <2>3. to \in RequestSteps
    BY DEF RequestSteps
  <2>4. x \in RequestWork /\ x.step = to /\ x.asking = work[w].asking /\ x.read = read
    BY <1>4, <2>1, <2>3 DEF RequestWork
  <2>5. /\ to = "query" => i < Statements(q)
        /\ to = "store" => i = Statements(q) /\ HandlerOf(q).cached
        /\ to \in {"query", "store"}
    <3>1. /\ work[w].read.statements \in Nat /\ Statements(q) \in Nat
          /\ HandlerOf(q).cached \in BOOLEAN /\ work[w].read.statements < Statements(q)
      BY <1>1, <2>1 DEF RequestWork, ReadType, GoodHandler, Request
    <3>2. to = "store" => i = Statements(q)
      BY <3>1
    <3> QED BY <1>4, <3>1, <3>2
  <2> HIDE DEF x, to
  <2>6. work'[w] = x /\ x \in Work
    BY <2>2, <2>4 DEF SInv, Work
  <2>7. Question(w)' = q
    BY <2>4, <2>6 DEF Question
  <2>8. Request(w)'
    BY <1>4, <2>1, <2>4, <2>5, <2>6, <2>7 DEF Request
  <2>9. Place(w)'
    <3>1. w \in Others => to = "query"
      BY <2>1, <2>5, ServerAssumption
    <3>2. w \in Threads => dbLock' = w /\ cacheLock' # w
      BY <1>1, <1>4 DEF SInv, Place
    <3> QED BY <2>4, <2>5, <2>6, <2>8, <3>1, <3>2 DEF Place, RequestSteps
  <2> QED BY <1>1, <1>2, <1>4, <2>2, <2>6, <2>9, Moves
<1>5. PICK ok \in BOOLEAN :
        LET read == [statements |-> i, from |-> IF i = 1 THEN index ELSE work[w].read.from,
                     failed |-> work[w].read.failed \cup (IF ok THEN {} ELSE {i})]
        IN IF (~ok /\ i \notin HiddenFailures(q)) \/ (i = 1 /\ NotFound(q))
           THEN Answer(w, Error(work[w].asking, "failed", FailedCode(q))) /\ Release(w)
           ELSE IF i = Statements(q) /\ ~HandlerOf(q).cached
           THEN Finish(w, read) /\ Release(w)
           ELSE /\ work' = [work EXCEPT ![w].read = read,
                            ![w].step = IF i < Statements(q) THEN @ ELSE "store"]
                /\ NoAnswer
                /\ UNCHANGED dbLock
  BY DEF Query
<1> DEFINE read == [statements |-> i, from |-> IF i = 1 THEN index ELSE work[w].read.from,
                    failed |-> work[w].read.failed \cup (IF ok THEN {} ELSE {i})]
<1>6. read \in ReadType /\ read.statements = i
  <2>1. work[w].read \in ReadType /\ index \in Nat
    <3>1. work[w].read \in ReadType
      BY <1>1, RequestFacts DEF RequestSteps, RequestWork
    <3>2. index \in Nat
      BY ServerAssumption DEF SInv, RestType
    <3> QED BY <3>1, <3>2
  <2>2. i \in Nat /\ work[w].read.from \in Nat /\ work[w].read.failed \in SUBSET Nat
    BY <2>1 DEF ReadType
  <2> QED BY <2>1, <2>2 DEF ReadType
<1>7. \/ work' = [work EXCEPT ![w] = Idle] /\ Release(w)
      \/ /\ ~(i = Statements(q) /\ ~HandlerOf(q).cached)
         /\ work' = [work EXCEPT ![w].read = read,
                         ![w].step = IF i < Statements(q) THEN @ ELSE "store"]
         /\ UNCHANGED dbLock
  BY <1>5 DEF Answer, Finish
<1> HIDE DEF read, i, q
<1> QED BY <1>3, <1>4, <1>6, <1>7

LEMMA StoreStep == ASSUME SInv, NEW w \in Workers, Store(w) PROVE SInv'
<1>1. /\ work[w].step = "store" /\ work' = [work EXCEPT ![w] = Idle] /\ Release(w)
      /\ UNCHANGED <<index, now, ranks, cacheLock, asked, sweeps>>
  BY DEF Store, Finish, Answer
<1>2. work[w] \in RequestWork /\ Question(w) \in Requests
  BY <1>1, RequestFacts DEF RequestSteps
<1>3. ResultOf(Question(w), work[w].read) \in ResultType
  <2>1. PartsOf(Question(w)) \subseteq Parts /\ {"rest"} \subseteq Parts
    BY <1>1, RequestFacts DEF PartsOf, Parts, RequestSteps, GoodHandler
  <2>2. work[w].read \in ReadType
    BY <1>2 DEF RequestWork
  <2> QED BY <1>2, <2>1, <2>2 DEF ResultOf, ResultType, ReadType
<1> DEFINE row == [result |-> ResultOf(Question(w), work[w].read),
                   expires |-> now + TTL, stored |-> now, begun |-> sweeps.begun]
<1>4. row \in RowType
  <2>1. now \in Nat /\ TTL \in Nat /\ now + TTL \in Nat /\ sweeps.begun \in Nat
    BY ServerAssumption DEF SInv, RestType
  <2> QED BY <1>3, <2>1 DEF RowType
<1>5. cache' = [cache EXCEPT ![make_key(Question(w))] = row] \/ cache' = cache
  BY DEF Store
<1> HIDE DEF row
<1>6. cache' \in [Keys -> {None} \cup RowType]
  BY <1>4, <1>5 DEF SInv, RestType
<1>7. RestType'
  BY <1>1, <1>6 DEF SInv, RestType
<1> QED BY <1>1, <1>7, QueryEnds
-----------------------------------------------------------------------------
(* The steps of a rank command: what it does next is x.                    *)
LEMMA RankMoves ==
  ASSUME SInv, RestType', NEW w \in Others, NEW x \in Work, work' = [work EXCEPT ![w] = x],
         UNCHANGED <<index, dbLock, cacheLock>>,
         x.step \in {"idle"} \cup RankSteps,
         x.step = "edges" => x.degrees <= index
  PROVE  SInv'
<1>1. w \in Workers /\ w \notin Threads /\ work'[w] = x
  BY ServerAssumption DEF Workers, SInv
<1>2. Place(w)'
  BY <1>1 DEF Place, RequestSteps, RankSteps
<1> QED BY <1>1, <1>2, Moves

LEMMA RankWork ==
  ASSUME SInv, NEW w \in Workers, Ranking(w)
  PROVE  /\ work[w] \in DegreesWork \cup EdgesWork \cup UpsertWork
         /\ work[w].alone \in BOOLEAN
BY WorkFacts DEF SInv, Ranking, RankSteps, DegreesWork, EdgesWork, UpsertWork

LEMMA RankClearStep == ASSUME SInv, NEW w \in Others, RankClear(w) PROVE SInv'
<1>1. /\ UNCHANGED <<index, now, cache, dbLock, cacheLock, sweeps>>
      /\ asked < MaxAsked /\ asked' = asked + 1 /\ ranks' = [s \in Symbols |-> None]
  BY DEF RankClear, Asks, clear_ranks
<1> DEFINE alone == \A u \in Others \ {w} : ~Ranking(u)
<1>2. work' = [v \in Workers |->
                IF v = w THEN [step |-> "degrees", alone |-> alone]
                ELSE IF Ranking(v) THEN [work[v] EXCEPT !.alone = FALSE] ELSE work[v]]
  BY DEF RankClear
<1>3. alone \in BOOLEAN
  OBVIOUS
<1> HIDE DEF alone
<1>4. RestType'
  BY <1>1, ServerAssumption DEF SInv, RestType
<1>5. w \in Workers /\ w \notin Threads
  BY ServerAssumption DEF Workers
<1>6. ASSUME NEW v \in Workers PROVE work'[v] \in Work /\ Place(v)'
  <2>1. CASE v = w
    <3>1. work'[v] = [step |-> "degrees", alone |-> alone]
      BY <1>2, <1>5, <2>1
    <3>2. [step |-> "degrees", alone |-> alone] \in Work
      BY <1>3 DEF Work, DegreesWork
    <3> QED BY <1>5, <2>1, <3>1, <3>2 DEF Place, RequestSteps, RankSteps
  <2>2. CASE v # w /\ Ranking(v)
    <3> DEFINE x == [work[v] EXCEPT !.alone = FALSE]
    <3>1. work'[v] = x
      BY <1>2, <2>2
    <3>2. /\ work[v] \in Work /\ work[v].step \in RankSteps /\ v \notin Threads
          /\ work[v].step = "edges" => work[v].degrees <= index
      BY <2>2 DEF SInv, Ranking, Place, RankSteps, RequestSteps
    <3>3. /\ x \in Work /\ x.step = work[v].step
          /\ x.step = "edges" => x.degrees = work[v].degrees
      BY <2>2, RankWork DEF Work, DegreesWork, EdgesWork, UpsertWork
    <3> HIDE DEF x
    <3> QED BY <1>1, <3>1, <3>2, <3>3 DEF Place, RequestSteps, RankSteps
  <2>3. CASE v # w /\ ~Ranking(v)
    <3>1. work'[v] = work[v]
      BY <1>2, <2>3
    <3> QED BY <1>1, <3>1 DEF SInv, Place, Request, Question
  <2> QED BY <2>1, <2>2, <2>3
<1>7. work' \in [Workers -> Work]
  <2>1. work' = [v \in Workers |-> work'[v]]
    BY <1>2
  <2> QED BY <1>6, <2>1
<1> QED BY <1>4, <1>6, <1>7 DEF SInv

LEMMA RankDegreesStep == ASSUME SInv, NEW w \in Others, RankDegrees(w) PROVE SInv'
<1> DEFINE x == [step |-> "edges", alone |-> work[w].alone, degrees |-> index,
                 left |-> SymbolsAt(index)]
<1>1. /\ work[w].step = "degrees" /\ w \in Workers
      /\ UNCHANGED <<index, now, cache, ranks, dbLock, cacheLock, asked, sweeps>>
  BY DEF RankDegrees, Workers
<1>2. RestType'
  BY <1>1 DEF SInv, RestType
<1>3. work' = [work EXCEPT ![w] = x]
  BY <1>1 DEF RankDegrees, SInv
<1>4. index \in 0 .. MaxChanges /\ index \in Nat /\ SymbolsAt(index) \subseteq Symbols
  BY ServerAssumption DEF SInv, RestType
<1>5. work[w].alone \in BOOLEAN
  BY <1>1, RankWork DEF Ranking, RankSteps
<1>6. x \in Work /\ x.step = "edges" /\ x.degrees <= index
  BY <1>4, <1>5 DEF Work, EdgesWork
<1> HIDE DEF x
<1> QED BY <1>1, <1>2, <1>3, <1>6, RankMoves DEF RankSteps

LEMMA RankEdgesStep == ASSUME SInv, NEW w \in Others, RankEdges(w) PROVE SInv'
<1> DEFINE row == [degrees |-> work[w].degrees, edges |-> index]
           x == [step |-> "upsert", alone |-> work[w].alone, left |-> work[w].left, rank |-> row]
<1>1. /\ work[w].step = "edges" /\ w \in Workers
      /\ UNCHANGED <<index, now, cache, ranks, dbLock, cacheLock, asked, sweeps>>
  BY DEF RankEdges, Workers
<1>2. RestType'
  BY <1>1 DEF SInv, RestType
<1>3. work' = [work EXCEPT ![w] = x]
  BY <1>1 DEF RankEdges, SInv
<1>4. work[w] \in EdgesWork /\ work[w].degrees <= index /\ index \in 0 .. MaxChanges
  BY <1>1, WorkFacts DEF SInv, RestType, Place
<1>5. row \in RankRow
  BY <1>4 DEF RankRow, EdgesWork
<1> HIDE DEF row
<1>6. x \in Work /\ x.step = "upsert"
  BY <1>4, <1>5 DEF Work, EdgesWork, UpsertWork
<1> HIDE DEF x
<1> QED BY <1>1, <1>2, <1>3, <1>6, RankMoves DEF RankSteps

LEMMA RankUpsertStep == ASSUME SInv, NEW w \in Others, RankUpsert(w) PROVE SInv'
<1>1. /\ work[w].step = "upsert" /\ w \in Workers
      /\ UNCHANGED <<index, now, cache, dbLock, cacheLock, asked, sweeps>>
  BY DEF RankUpsert, Workers
<1>2. work[w] \in UpsertWork
  BY <1>1, WorkFacts DEF SInv
<1>3. CASE work[w].left = {}
  <2>1. work' = [work EXCEPT ![w] = Idle] /\ UNCHANGED ranks
    BY <1>3 DEF RankUpsert
  <2>2. RestType'
    BY <1>1, <2>1 DEF SInv, RestType
  <2> QED BY <1>1, <2>1, <2>2, IdleFacts, RankMoves
<1>4. CASE work[w].left # {}
  <2>1. PICK s \in work[w].left : /\ ranks' = [ranks EXCEPT ![s] = work[w].rank]
                                  /\ work' = [work EXCEPT ![w].left = @ \ {s}]
    BY <1>4 DEF RankUpsert
  <2> DEFINE x == [work[w] EXCEPT !.left = @ \ {s}]
  <2>2. work' = [work EXCEPT ![w] = x]
    BY <1>1, <2>1 DEF SInv
  <2>3. x \in Work /\ x.step = "upsert"
    BY <1>2 DEF Work, UpsertWork
  <2> HIDE DEF x
  <2>4. RestType'
    <3>1. work[w].rank \in RankRow
      BY <1>2 DEF UpsertWork
    <3>2. ranks' \in [Symbols -> {None} \cup RankRow]
      BY <2>1, <3>1 DEF SInv, RestType
    <3> QED BY <1>1, <3>2 DEF SInv, RestType
  <2> QED BY <1>1, <2>2, <2>3, <2>4, RankMoves DEF RankSteps
<1> QED BY <1>3, <1>4

LEMMA RankStopStep == ASSUME SInv, NEW w \in Others, RankStop(w) PROVE SInv'
<1>1. /\ work' = [work EXCEPT ![w] = Idle]
      /\ UNCHANGED <<index, now, cache, ranks, dbLock, cacheLock, asked, sweeps>>
  BY DEF RankStop
<1>2. RestType'
  BY <1>1 DEF SInv, RestType
<1> QED BY <1>1, <1>2, IdleFacts, RankMoves

LEMMA SInvNext == SInv /\ [Next]_vars => SInv'
<1> SUFFICES ASSUME SInv, [Next]_vars PROVE SInv'
  OBVIOUS
<1>1. CASE Change \/ Tick \/ purge_expired
  BY <1>1, WorldSteps
<1>2. CASE Restart
  BY <1>2, RestartStep
<1>3. ASSUME NEW w \in Workers, (\E q \in Requests : Ask(w, q)) \/ Handle(w) PROVE SInv'
  BY <1>3, AskStep, LookupStep, SelectStep, TakeDbStep, QueryStep, StoreStep, SweepSteps
     DEF Handle
<1>4. ASSUME NEW w \in Threads, Invalidate(w) PROVE SInv'
  BY <1>4, SweepSteps DEF Workers
<1>5. ASSUME NEW w \in Others, RankClear(w) \/ Rank(w) \/ RankStop(w) PROVE SInv'
  BY <1>5, RankClearStep, RankDegreesStep, RankEdgesStep, RankUpsertStep, RankStopStep DEF Rank
<1>6. CASE UNCHANGED vars
  <2>1. RestType'
    BY <1>6 DEF vars, SInv, RestType
  <2>2. index <= index'
    BY <1>6, ServerAssumption DEF vars, SInv, RestType
  <2> QED BY <1>6, <2>1, <2>2, Still DEF vars
<1> QED BY <1>1, <1>2, <1>3, <1>4, <1>5, <1>6 DEF Next

LEMMA ServerInvariant == Spec => []SInv
<1> QED BY SInvInit, SInvNext, PTL DEF Spec

LEMMA SInvTypeOK == SInv => ServerTypeOK
<1> SUFFICES ASSUME SInv PROVE ServerTypeOK
  OBVIOUS
<1>1. index \in 0 .. MaxChanges /\ now \in 0 .. MaxTime /\ asked \in 0 .. MaxAsked
  BY DEF SInv, RestType
<1>2. ASSUME NEW k \in Keys, cache[k] # None
      PROVE  cache[k].result.of \in Requests /\ cache[k].expires = cache[k].stored + TTL
  BY <1>2 DEF SInv, RestType, RowType, ResultType
<1>3. ASSUME NEW s \in Symbols, ranks[s] # None PROVE ranks[s].degrees <= ranks[s].edges
  BY <1>3 DEF SInv, RestType, RankRow
<1>4. ASSUME NEW w \in Threads
      PROVE  /\ dbLock = w <=> work[w].step \in {"query", "store"}
             /\ cacheLock = w <=> work[w].step = "select"
  BY DEF SInv, Place, Workers
<1> QED BY <1>1, <1>2, <1>3, <1>4 DEF ServerTypeOK

(* Whatever the requests and the number of threads, a mutex is held by the *)
(* thread that is at a step that needs it, a cached row expires the TTL    *)
(* after it was stored, and no rank is of edges read before its degrees.   *)
THEOREM ServerTypeCorrect == Spec => []ServerTypeOK
<1> QED BY ServerInvariant, SInvTypeOK, PTL
-----------------------------------------------------------------------------
(* A rank command that is still alone when it ends has found no rank in    *)
(* its way: the table was empty when it read the degrees, and what is in   *)
(* it afterwards it has stored.                                            *)
Holds(table, rank, left) ==
  \A s \in Symbols : table[s] = IF s \in SymbolsAt(rank.degrees) \ left THEN rank ELSE None

Stored(rank, left) == Holds(ranks, rank, left)

Alone(w) ==
  /\ \A u \in Others \ {w} : ~Ranking(u)
  /\ work[w].step \in {"degrees", "edges"} => \A s \in Symbols : ranks[s] = None
  /\ work[w].step = "edges" => work[w].left = SymbolsAt(work[w].degrees)
  /\ work[w].step = "upsert" => /\ work[w].left \subseteq SymbolsAt(work[w].rank.degrees)
                                /\ Stored(work[w].rank, work[w].left)

RankInv ==
  /\ standing # None => Stored(standing, {}) /\ \A w \in Others : ~Ranking(w)
  /\ \A w \in Others : Ranking(w) /\ work[w].alone => Alone(w)

(* The steps of everyone else leave the ranks and the commands alone.      *)
Spectates(w) == /\ Only(w) /\ ~Ranking(w) /\ ~Ranking(w)'
                /\ UNCHANGED <<ranks, standing>>

LEMMA GoesOnly ==
  ASSUME SInv, NEW w \in Workers, work[w].step \in RequestSteps, NEW to \in RequestSteps,
         Goes(w, to), UNCHANGED <<ranks, standing>>
  PROVE  Spectates(w)
<1>1. PICK x \in Work : work' = [work EXCEPT ![w] = x] /\ work'[w] = x /\ x.step = to
  BY GoesOn
<1> QED BY <1>1 DEF Spectates, Only, Ranking, RankSteps, RequestSteps, SInv

LEMMA BecomesOnly ==
  ASSUME SInv, NEW w \in Workers, ~Ranking(w), NEW x, work' = [work EXCEPT ![w] = x],
         x.step \notin RankSteps, UNCHANGED <<ranks, standing>>
  PROVE  Spectates(w)
BY DEF Spectates, Only, Ranking, SInv

LEMMA OthersSpectate ==
  ASSUME SInv, NEW w \in Workers,
         \/ \E q \in Requests : Ask(w, q)
         \/ Handle(w)
         \/ w \in Threads /\ Invalidate(w)
  PROVE  Spectates(w)
<1>1. ASSUME NEW q \in Requests, Ask(w, q) PROVE Spectates(w)
  <2>1. work[w] = Idle /\ UNCHANGED <<ranks, standing>>
    BY <1>1 DEF Ask, Asks, Takes, Busy
  <2>2. ~Ranking(w)
    BY <2>1, IdleFacts DEF Ranking, RankSteps
  <2>3. CASE Refused(q)
    BY <1>1, <2>1, <2>2, <2>3 DEF Ask, Spectates, Only, Ranking
  <2>4. CASE ~Refused(q)
    <3> DEFINE to == IF HandlerOf(q).cached THEN "lookup"
                     ELSE IF w \in Threads THEN "lock" ELSE "query"
               x == [step |-> to, asking |-> Asking(q), read |-> Blank]
    <3>1. work' = [work EXCEPT ![w] = x] /\ x.step \notin RankSteps
      BY <1>1, <2>4 DEF Ask, RankSteps
    <3> HIDE DEF x
    <3> QED BY <2>1, <2>2, <3>1, BecomesOnly
  <2> QED BY <2>3, <2>4
<1>2. CASE Lookup(w)
  <2>1. PICK to \in {"select", "lock"} : Goes(w, to)
    BY <1>2 DEF Lookup
  <2>2. work[w].step \in RequestSteps /\ to \in RequestSteps /\ UNCHANGED <<ranks, standing>>
    BY <1>2 DEF Lookup, RequestSteps
  <2> QED BY <2>1, <2>2, GoesOnly
<1>3. CASE Select(w)
  <2>1. work[w].step \in RequestSteps /\ ~Ranking(w) /\ UNCHANGED <<ranks, standing>>
    BY <1>3 DEF Select, RequestSteps, Ranking, RankSteps
  <2>2. CASE work' = [work EXCEPT ![w] = Idle]
    BY <2>1, <2>2, IdleFacts, BecomesOnly DEF RankSteps
  <2>3. CASE Goes(w, "lock")
    BY <2>1, <2>3, GoesOnly DEF RequestSteps
  <2> QED BY <1>3, <2>2, <2>3 DEF Select, Answer
<1>4. CASE TakeDb(w)
  <2>1. work[w].step \in RequestSteps /\ Goes(w, "query") /\ UNCHANGED <<ranks, standing>>
    BY <1>4 DEF TakeDb, RequestSteps
  <2> QED BY <2>1, GoesOnly DEF RequestSteps
<1>5. CASE Query(w)
  <2>1. work[w].step = "query" /\ ~Ranking(w) /\ UNCHANGED <<ranks, standing>>
        /\ work[w] \in RequestWork
    BY <1>5, RequestFacts DEF Query, RequestSteps, Ranking, RankSteps
  <2>2. CASE work' = [work EXCEPT ![w] = Idle]
    BY <2>1, <2>2, IdleFacts, BecomesOnly DEF RankSteps
  <2>3. ASSUME NEW read, NEW last \in BOOLEAN,
               work' = [work EXCEPT ![w].read = read,
                                    ![w].step = IF last THEN @ ELSE "store"]
        PROVE  Spectates(w)
    <3> DEFINE x == [work[w] EXCEPT !.read = read, !.step = IF last THEN @ ELSE "store"]
    <3>1. work' = [work EXCEPT ![w] = x]
      BY <2>1, <2>3 DEF RequestWork, SInv
    <3>2. x.step \notin RankSteps
      BY <2>1 DEF RequestWork, RankSteps
    <3> HIDE DEF x
    <3> QED BY <2>1, <3>1, <3>2, BecomesOnly
  <2> DEFINE last == work[w].read.statements + 1 < Statements(Question(w))
  <2>4. \/ work' = [work EXCEPT ![w] = Idle]
        \/ \E read : work' = [work EXCEPT ![w].read = read,
                                         ![w].step = IF last THEN @ ELSE "store"]
    BY <1>5 DEF Query, Answer, Finish
  <2>5. last \in BOOLEAN
    OBVIOUS
  <2> HIDE DEF last
  <2> QED BY <2>2, <2>3, <2>4, <2>5
<1>6. CASE Store(w)
  <2>1. work[w].step = "store" /\ ~Ranking(w) /\ UNCHANGED <<ranks, standing>>
        /\ work' = [work EXCEPT ![w] = Idle]
    BY <1>6 DEF Store, Finish, Answer, Ranking, RankSteps
  <2> QED BY <2>1, IdleFacts, BecomesOnly DEF RankSteps
<1>7. CASE DeleteOne(w)
  <2>1. work[w].step = "delete" /\ ~Ranking(w) /\ UNCHANGED <<ranks, standing>>
        /\ work[w] \in DeleteWork
    BY <1>7, WorkFacts DEF DeleteOne, Ranking, RankSteps, SInv
  <2>2. CASE work' = [work EXCEPT ![w] = Idle]
    BY <2>1, <2>2, IdleFacts, BecomesOnly DEF RankSteps
  <2>3. ASSUME NEW k, work' = [work EXCEPT ![w].keys = @ \ {k}] PROVE Spectates(w)
    <3> DEFINE x == [work[w] EXCEPT !.keys = @ \ {k}]
    <3>1. work' = [work EXCEPT ![w] = x] /\ x.step \notin RankSteps
      BY <2>1, <2>3 DEF DeleteWork, SInv, RankSteps
    <3> HIDE DEF x
    <3> QED BY <2>1, <3>1, BecomesOnly
  <2> QED BY <1>7, <2>2, <2>3 DEF DeleteOne
<1>8. CASE w \in Threads /\ Invalidate(w)
  <2> DEFINE x == [step |-> "delete", keys |-> {k \in Keys : Live(k) /\ Mentions(cache[k])}]
  <2>1. /\ work' = [work EXCEPT ![w] = x] /\ x.step \notin RankSteps
        /\ work[w] = Idle /\ UNCHANGED <<ranks, standing>>
    BY <1>8 DEF Invalidate, Takes, Busy, RankSteps
  <2> HIDE DEF x
  <2>2. ~Ranking(w)
    BY <2>1, IdleFacts DEF Ranking, RankSteps
  <2> QED BY <2>1, <2>2, BecomesOnly
<1> QED BY <1>1, <1>2, <1>3, <1>4, <1>5, <1>6, <1>7, <1>8 DEF Handle
LEMMA SpectatorStep ==
  ASSUME SInv, RankInv, NEW w \in Workers, Spectates(w) PROVE RankInv'
<1>1. \A v \in Others : /\ Ranking(v)' <=> Ranking(v)
                        /\ Ranking(v) => work'[v] = work[v]
  BY DEF Spectates, Only, Ranking, Workers
<1>2. ranks' = ranks /\ standing' = standing
  BY DEF Spectates
<1>3. standing' # None => Stored(standing, {})' /\ \A v \in Others : ~Ranking(v)'
  BY <1>1, <1>2 DEF RankInv, Stored, Holds
<1>4. ASSUME NEW v \in Others, Ranking(v)', work'[v].alone PROVE Alone(v)'
  <2>1. Ranking(v) /\ work'[v] = work[v] /\ Alone(v)
    BY <1>1, <1>4 DEF RankInv
  <2> QED BY <1>1, <1>2, <2>1 DEF Alone, Stored, Holds
<1> QED BY <1>3, <1>4 DEF RankInv

LEMMA NobodyMoves ==
  ASSUME SInv, RankInv, UNCHANGED <<ranks, standing>>,
         \A v \in Others : work'[v] = work[v]
  PROVE  RankInv'
<1>1. \A v \in Others : Ranking(v)' <=> Ranking(v)
  BY DEF Ranking
<1>2. standing' # None => Stored(standing, {})' /\ \A v \in Others : ~Ranking(v)'
  BY <1>1 DEF RankInv, Stored, Holds
<1>3. ASSUME NEW v \in Others, Ranking(v)', work'[v].alone PROVE Alone(v)'
  BY <1>1, <1>3 DEF RankInv, Alone, Stored, Holds
<1> QED BY <1>2, <1>3 DEF RankInv

(* A step of a rank command after which it still ranks, to x.              *)
LEMMA RankerMoves ==
  ASSUME SInv, RankInv, NEW w \in Others, NEW x, work' = [work EXCEPT ![w] = x],
         Ranking(w), x.step \in RankSteps, x.alone = work[w].alone, standing' = standing,
         work[w].alone => /\ x.step = "edges" => /\ x.left = SymbolsAt(x.degrees)
                                                 /\ \A s \in Symbols : ranks'[s] = None
                          /\ x.step # "degrees"
                          /\ x.step = "upsert" => /\ x.left \subseteq SymbolsAt(x.rank.degrees)
                                                  /\ Holds(ranks', x.rank, x.left)
  PROVE  RankInv'
<1>1. work'[w] = x /\ \A v \in Others \ {w} : work'[v] = work[v]
  BY DEF SInv, Workers
<1>2. standing' = None
  BY DEF RankInv
<1>3. \A v \in Others : Ranking(v)' <=> Ranking(v)
  BY <1>1 DEF Ranking
<1>4. ASSUME NEW v \in Others, Ranking(v)', work'[v].alone PROVE Alone(v)'
  <2>1. CASE v = w
    <3>1. work[w].alone /\ \A u \in Others \ {w} : ~Ranking(u)'
      BY <1>1, <1>3, <1>4, <2>1 DEF RankInv, Alone
    <3> QED BY <1>1, <2>1, <3>1 DEF Alone, Stored, Holds
  <2>2. CASE v # w
    <3>1. Alone(v)
      BY <1>1, <1>3, <1>4, <2>2 DEF RankInv
    <3> QED BY <2>2, <3>1 DEF Alone
  <2> QED BY <2>1, <2>2
<1> QED BY <1>2, <1>4 DEF RankInv

LEMMA RankInvClear == ASSUME SInv, RankInv, NEW w \in Others, RankClear(w) PROVE RankInv'
<1> DEFINE alone == \A u \in Others \ {w} : ~Ranking(u)
<1>1. /\ standing' = None /\ ranks' = [s \in Symbols |-> None]
      /\ work' = [v \in Workers |->
                   IF v = w THEN [step |-> "degrees", alone |-> alone]
                   ELSE IF Ranking(v) THEN [work[v] EXCEPT !.alone = FALSE] ELSE work[v]]
  BY DEF RankClear, clear_ranks
<1>2. w \in Workers /\ work'[w] = [step |-> "degrees", alone |-> alone]
  BY <1>1 DEF Workers
<1>3. ASSUME NEW v \in Others \ {w}
      PROVE  /\ Ranking(v)' <=> Ranking(v)
             /\ Ranking(v) => ~work'[v].alone
  <2>1. CASE Ranking(v)
    <3>1. work'[v] = [work[v] EXCEPT !.alone = FALSE]
      BY <1>1, <2>1 DEF Workers
    <3>2. work'[v].step = work[v].step /\ work'[v].alone = FALSE
      BY <2>1, <3>1, RankWork DEF Workers, DegreesWork, EdgesWork, UpsertWork
    <3> QED BY <2>1, <3>2 DEF Ranking
  <2>2. CASE ~Ranking(v)
    BY <1>1, <2>2 DEF Workers, Ranking
  <2> QED BY <2>1, <2>2
<1>4. work'[w].alone => Alone(w)'
  <2>1. ASSUME work'[w].alone PROVE \A u \in Others \ {w} : ~Ranking(u)
    BY <1>2, <2>1
  <2>2. work'[w].step = "degrees"
    BY <1>2
  <2> HIDE DEF alone
  <2> QED BY <1>1, <1>3, <2>1, <2>2 DEF Alone
<1> QED BY <1>1, <1>3, <1>4 DEF RankInv

LEMMA RankInvDegrees == ASSUME SInv, RankInv, NEW w \in Others, RankDegrees(w) PROVE RankInv'
<1> DEFINE x == [step |-> "edges", alone |-> work[w].alone, degrees |-> index,
                 left |-> SymbolsAt(index)]
<1>1. /\ work[w].step = "degrees" /\ ranks' = ranks /\ standing' = standing /\ Ranking(w)
      /\ work' = [work EXCEPT ![w] = x]
  BY DEF RankDegrees, Workers, SInv, Ranking, RankSteps
<1>2. work[w].alone => \A s \in Symbols : ranks'[s] = None
  BY <1>1 DEF RankInv, Alone
<1>3. /\ x.step = "edges" /\ x.alone = work[w].alone /\ x.left = SymbolsAt(x.degrees)
  OBVIOUS
<1> HIDE DEF x
<1> QED BY <1>1, <1>2, <1>3, RankerMoves DEF RankSteps

LEMMA RankInvEdges == ASSUME SInv, RankInv, NEW w \in Others, RankEdges(w) PROVE RankInv'
<1> DEFINE row == [degrees |-> work[w].degrees, edges |-> index]
           x == [step |-> "upsert", alone |-> work[w].alone, left |-> work[w].left, rank |-> row]
<1>1. /\ work[w].step = "edges" /\ ranks' = ranks /\ standing' = standing /\ Ranking(w)
      /\ work' = [work EXCEPT ![w] = x]
  BY DEF RankEdges, Workers, SInv, Ranking, RankSteps
<1>2. ASSUME work[w].alone
      PROVE  /\ \A s \in Symbols : ranks'[s] = None
             /\ work[w].left = SymbolsAt(row.degrees)
  BY <1>1, <1>2 DEF RankInv, Alone
<1>3. /\ x.step = "upsert" /\ x.alone = work[w].alone /\ x.left = work[w].left
      /\ x.rank = row
  OBVIOUS
<1> HIDE DEF row, x
<1>4. work[w].alone => x.left \subseteq SymbolsAt(x.rank.degrees) /\ Holds(ranks', x.rank, x.left)
  BY <1>2, <1>3 DEF Stored, Holds
<1> QED BY <1>1, <1>3, <1>4, RankerMoves DEF RankSteps

LEMMA RankInvUpsert == ASSUME SInv, RankInv, NEW w \in Others, RankUpsert(w) PROVE RankInv'
<1>1. work[w].step = "upsert" /\ Ranking(w) /\ w \in Workers /\ standing = None
  BY DEF RankUpsert, Ranking, RankSteps, Workers, RankInv
<1>2. work[w] \in UpsertWork
  BY <1>1, WorkFacts DEF SInv
<1>3. CASE work[w].left = {}
  <2>1. /\ work' = [work EXCEPT ![w] = Idle] /\ ranks' = ranks
        /\ standing' = IF work[w].alone THEN work[w].rank ELSE standing
    BY <1>3 DEF RankUpsert
  <2>2. work'[w] = Idle /\ ~Ranking(w)' /\ \A v \in Others \ {w} : work'[v] = work[v]
    BY <1>1, <2>1, IdleFacts DEF SInv, Workers, Ranking, RankSteps
  <2>3. CASE work[w].alone
    <3>1. Stored(work[w].rank, {}) /\ \A u \in Others \ {w} : ~Ranking(u)
      BY <1>1, <1>3, <2>3 DEF RankInv, Alone
    <3>2. \A u \in Others : ~Ranking(u)'
      BY <2>2, <3>1 DEF Ranking
    <3>3. Stored(standing, {})'
      BY <2>1, <2>3, <3>1 DEF Stored, Holds
    <3> QED BY <3>2, <3>3 DEF RankInv
  <2>4. CASE ~work[w].alone
    <3>1. standing' = None
      BY <1>1, <2>1, <2>4
    <3>2. ASSUME NEW v \in Others, Ranking(v)', work'[v].alone PROVE Alone(v)'
      <4>1. v # w /\ Ranking(v) /\ work[v].alone
        BY <2>2, <3>2 DEF Ranking
      <4> QED BY <1>1, <4>1 DEF RankInv, Alone
    <3> QED BY <3>1, <3>2 DEF RankInv
  <2> QED BY <2>3, <2>4
<1>4. CASE work[w].left # {}
  <2>1. PICK s \in work[w].left : /\ ranks' = [ranks EXCEPT ![s] = work[w].rank]
                                  /\ work' = [work EXCEPT ![w].left = @ \ {s}]
                                  /\ standing' = standing
    BY <1>4 DEF RankUpsert
  <2> DEFINE x == [work[w] EXCEPT !.left = @ \ {s}]
  <2>2. work' = [work EXCEPT ![w] = x]
    BY <1>1, <2>1 DEF SInv
  <2>3. /\ x.step = "upsert" /\ x.alone = work[w].alone /\ x.rank = work[w].rank
        /\ x.left = work[w].left \ {s}
    BY <1>1, <1>2 DEF UpsertWork
  <2> HIDE DEF x
  <2>4. ASSUME work[w].alone
        PROVE  x.left \subseteq SymbolsAt(x.rank.degrees) /\ Holds(ranks', x.rank, x.left)
    <3>1. /\ work[w].left \subseteq SymbolsAt(work[w].rank.degrees)
          /\ Stored(work[w].rank, work[w].left)
      BY <1>1, <2>4 DEF RankInv, Alone
    <3>2. ASSUME NEW t \in Symbols
          PROVE  ranks'[t] = IF t \in SymbolsAt(x.rank.degrees) \ x.left THEN x.rank ELSE None
      <4>1. ranks'[t] = IF t = s THEN work[w].rank ELSE ranks[t]
        BY <2>1 DEF SInv, RestType
      <4> QED BY <2>3, <3>1, <4>1 DEF Stored, Holds
    <3> QED BY <2>3, <3>1, <3>2 DEF Stored, Holds
  <2> QED BY <1>1, <2>1, <2>2, <2>3, <2>4, RankerMoves DEF RankSteps
<1> QED BY <1>3, <1>4

LEMMA RankInvStop == ASSUME SInv, RankInv, NEW w \in Others, RankStop(w) PROVE RankInv'
<1>1. /\ Ranking(w) /\ work' = [work EXCEPT ![w] = Idle] /\ ranks' = ranks
      /\ standing' = standing /\ standing = None
  BY DEF RankStop, RankInv
<1>2. work'[w] = Idle /\ ~Ranking(w)' /\ \A v \in Others \ {w} : work'[v] = work[v]
  BY <1>1, IdleFacts DEF SInv, Workers, Ranking, RankSteps
<1>3. ASSUME NEW v \in Others, Ranking(v)', work'[v].alone PROVE Alone(v)'
  <2>1. v # w /\ Ranking(v) /\ work[v].alone
    BY <1>2, <1>3 DEF Ranking
  <2> QED BY <1>1, <2>1 DEF RankInv, Alone
<1> QED BY <1>1, <1>3 DEF RankInv

LEMMA RankInvNext == SInv /\ RankInv /\ [Next]_vars => RankInv'
<1> SUFFICES ASSUME SInv, RankInv, [Next]_vars PROVE RankInv'
  OBVIOUS
<1>1. CASE Change \/ Tick \/ purge_expired \/ UNCHANGED vars
  <2>1. UNCHANGED <<work, ranks, standing>>
    BY <1>1 DEF Change, Tick, purge_expired, vars
  <2> QED BY <2>1, NobodyMoves
<1>2. CASE Restart
  <2>1. UNCHANGED <<ranks, standing>> /\ \A v \in Others : work'[v] = work[v]
    BY <1>2, ServerAssumption DEF Restart, Workers
  <2> QED BY <2>1, NobodyMoves
<1>3. ASSUME NEW w \in Workers, (\E q \in Requests : Ask(w, q)) \/ Handle(w) PROVE RankInv'
  BY <1>3, OthersSpectate, SpectatorStep
<1>4. ASSUME NEW w \in Threads, Invalidate(w) PROVE RankInv'
  BY <1>4, OthersSpectate, SpectatorStep DEF Workers
<1>5. ASSUME NEW w \in Others, RankClear(w) \/ Rank(w) \/ RankStop(w) PROVE RankInv'
  BY <1>5, RankInvClear, RankInvDegrees, RankInvEdges, RankInvUpsert, RankInvStop DEF Rank
<1> QED BY <1>1, <1>2, <1>3, <1>4, <1>5 DEF Next

(* Whatever else the servers do, a rank command that was alone from its    *)
(* start to its end leaves the ranks of one pair of readings, and no       *)
(* others, until another command starts.                                   *)
THEOREM AloneIsExact == Spec => []RanksAreOneReading
<1>1. Init => RankInv
  BY IdleFacts DEF Init, RankInv, Ranking, RankSteps, Workers
<1>2. RankInv => RanksAreOneReading
  BY DEF RankInv, RanksAreOneReading, Stored, Holds
<1> QED BY <1>1, <1>2, RankInvNext, ServerInvariant, PTL DEF Spec
=============================================================================
