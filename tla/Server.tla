------------------------------- MODULE Server -------------------------------
(***************************************************************************)
(* The daemon's HTTP server, a stdio server and rank commands on one       *)
(* index, which the watcher and other commands change meanwhile.           *)
(*                                                                         *)
(* Requests over HTTP are handled by worker threads that share one         *)
(* database connection (ServerState::db) and one connection of the cache   *)
(* (AgentCache::db), each behind a mutex.  A stdio server is a process     *)
(* with one thread and connections of its own; so is a rank command.       *)
(***************************************************************************)
EXTENDS Protocol, FiniteSets

CONSTANTS Threads,     \* worker threads of the HTTP server, numbered
          Others,      \* stdio servers and commands: threads of their own
          Requests,    \* the requests that may be made
          Symbols,     \* the symbols that have a rank
          SymbolsAt(_),\* those in the index after so many changes
          TTL,         \* how long a cached result is served
          MaxAsked,    \* bound: requests and commands
          MaxSweeps,   \* bound: invalidations
          MaxChanges,  \* bound: changes of the index
          MaxTime      \* bound: the clock

VARIABLES index,     \* how many times the index has been changed
          now,       \* the clock of the cache
          cache,     \* table agent_cache: the row of each key
          ranks,     \* table symbol_rank: the row of each symbol
          dbLock, cacheLock,
          work,      \* what each thread is doing
          asked,
          reply,     \* the answer the last step gave, if it gave one
          \* history variables
          sweeps,    \* invalidations begun and finished
          standing   \* the ranks the last command stored alone

vars == <<index, now, cache, ranks, dbLock, cacheLock, work, asked, reply, sweeps, standing>>

None == [none |-> TRUE]
Nobody == -1
Workers == Threads \cup Others

ASSUME ServerAssumption == /\ Workers \subseteq Nat /\ IsFiniteSet(Workers)
                           /\ Threads \cap Others = {}
                           /\ Requests \subseteq RequestType
                           /\ \A q \in Requests : get_token_budget(q) \in Nat \cup {NoBudget}
                           /\ {TTL, MaxAsked, MaxSweeps, MaxChanges, MaxTime} \subseteq Nat
                           /\ \A v \in 0 .. MaxChanges : SymbolsAt(v) \subseteq Symbols

Idle == [step |-> "idle"]
Busy(w) == work[w] # Idle

(* Idle threads are all alike: the first of them takes what is asked.      *)
Takes(w, these) == /\ w \in these
                   /\ ~Busy(w)
                   /\ \A v \in these : v < w => Busy(v)

Asks(w, these) == asked < MaxAsked /\ Takes(w, these) /\ asked' = asked + 1

Keys == {make_key(q) : q \in Requests}

NoAnswer == reply' = None

Goes(w, step) == work' = [work EXCEPT ![w].step = step]

Init == /\ index = 0 /\ now = 0 /\ asked = 0
        /\ cache = [k \in Keys |-> None]
        /\ ranks = [s \in Symbols |-> None]
        /\ dbLock = Nobody /\ cacheLock = Nobody
        /\ work = [w \in Workers |-> Idle]
        /\ sweeps = [begun |-> 0, finished |-> 0]
        /\ standing = None
        /\ reply = None
-----------------------------------------------------------------------------
(* The world: the index changes and time passes.                           *)

Change == /\ index < MaxChanges
          /\ index' = index + 1
          /\ NoAnswer
          /\ UNCHANGED <<now, cache, ranks, dbLock, cacheLock, work, asked, sweeps, standing>>

Tick == /\ now < MaxTime
        /\ now' = now + 1
        /\ NoAnswer
        /\ UNCHANGED <<index, cache, ranks, dbLock, cacheLock, work, asked, sweeps, standing>>

(* A request arrives.  Of what was true then, the reply is judged by: the  *)
(* time, the index, and the invalidations that were over.                  *)
Asking(q) == [q |-> q, time |-> now, index |-> index, swept |-> sweeps.finished]

Error(asking, why, code) == [asking |-> asking, why |-> why, error |-> code]

Result(asking, result, said, hit) ==
  [asking |-> asking, result |-> result, said |-> said, hit |-> hit]

Answer(w, r) == reply' = r /\ work' = [work EXCEPT ![w] = Idle]


MissingCode(q) == CASE q.over = "rest" -> 400
                    [] q.over = "http" \/ Unknown(q) -> -32601
                    [] OTHER -> -1

FailedCode(q) == CASE q.over = "rest" -> 500
                   [] q.over = "http" -> -32603
                   [] OTHER -> -1

Blank == [statements |-> 0, from |-> 0, failed |-> {}]

Ask(w, q) ==
  /\ Asks(w, IF q.over = "stdio" THEN Others ELSE Threads)
  /\ IF Refused(q)
     THEN reply' = Error(Asking(q), "refused", MissingCode(q)) /\ UNCHANGED work
     ELSE /\ work' = [work EXCEPT ![w] =
                       [step |-> IF HandlerOf(q).cached THEN "lookup"
                                 ELSE IF w \in Threads THEN "lock" ELSE "query",
                        asking |-> Asking(q), read |-> Blank]]
          /\ NoAnswer
  /\ UNCHANGED <<index, now, cache, ranks, dbLock, cacheLock, sweeps, standing>>
-----------------------------------------------------------------------------
(* AgentCache::get, under the mutex of the cache's connection: an UPDATE   *)
(* that counts the hit if the row is live, then a SELECT of the row.       *)

Question(w) == work[w].asking.q

Live_Always(key) == cache[key] # None

Live(key) == cache[key] # None /\ cache[key].expires > now

Lookup(w) ==
  /\ work[w].step = "lookup"
  /\ cacheLock = Nobody
  /\ IF Live(make_key(Question(w)))
     THEN Goes(w, "select") /\ cacheLock' = w
     ELSE Goes(w, "lock") /\ UNCHANGED cacheLock
  /\ NoAnswer
  /\ UNCHANGED <<index, now, cache, ranks, dbLock, asked, sweeps, standing>>

(* The guard of the cache's mutex is dropped at the end of get.            *)
DropCache_Not == UNCHANGED cacheLock

DropCache == cacheLock' = Nobody

(* A hit is answered as it was stored, whatever the budget.  A SELECT that *)
(* fails is a miss.                                                        *)
Select(w) ==
  /\ work[w].step = "select"
  /\ \/ LET row == cache[make_key(Question(w))]
        IN Answer(w, Result(work[w].asking, row.result, Untouched(row.result.parts), row))
     \/ Goes(w, "lock") /\ NoAnswer
  /\ DropCache
  /\ UNCHANGED <<index, now, cache, ranks, dbLock, asked, sweeps, standing>>

TakeDb(w) ==
  /\ work[w].step = "lock"
  /\ dbLock = Nobody
  /\ dbLock' = w
  /\ Goes(w, "query")
  /\ NoAnswer
  /\ UNCHANGED <<index, now, cache, ranks, cacheLock, asked, sweeps, standing>>

Release_Not(w) == UNCHANGED dbLock

Release(w) == dbLock' = IF dbLock = w THEN Nobody ELSE dbLock

(* What is left when a failure is hidden; without the potential references *)
(* it is the rest of the result.                                           *)
ResultOf(q, read) ==
  [of |-> q, from |-> read.from, failed |-> read.failed,
   parts |-> IF read.failed \subseteq StringRefs(q) THEN PartsOf(q) ELSE {"rest"}]

Finish(w, read) ==
  LET result == ResultOf(Question(w), read)
  IN Answer(w, Result(work[w].asking, result, Budgeted(Question(w), result.parts), None))

(* A statement of the query, each on the index as it is then; it may fail  *)
(* (the database is busy), and the first one may find that there is no     *)
(* such symbol.                                                            *)
NotFound(q) == MustExist(q) /\ q.about \notin SymbolsAt(index)

Query(w) ==
  /\ work[w].step = "query"
  /\ LET q == Question(w)
         i == work[w].read.statements + 1
     IN \E ok \in BOOLEAN :
          LET read == [statements |-> i, from |-> IF i = 1 THEN index ELSE work[w].read.from,
                       failed |-> work[w].read.failed \cup (IF ok THEN {} ELSE {i})]
          IN IF (~ok /\ i \notin HiddenFailures(q)) \/ (i = 1 /\ NotFound(q))
             THEN Answer(w, Error(work[w].asking, "failed", FailedCode(q))) /\ Release(w)
             ELSE IF i = Statements(q) /\ ~HandlerOf(q).cached
             THEN Finish(w, read) /\ Release(w)
             ELSE /\ work' = [work EXCEPT ![w].read = read,
                              ![w].step = IF i < Statements(q) THEN @ ELSE "store"]
                  /\ NoAnswer
                  /\ UNCHANGED dbLock
  /\ UNCHANGED <<index, now, cache, ranks, cacheLock, asked, sweeps, standing>>

(* AgentCache::set, while the index's connection is still locked; a set    *)
(* that fails is let go.  The result is stored before it is reduced.       *)
Store(w) ==
  /\ work[w].step = "store"
  /\ cacheLock = Nobody
  /\ \/ cache' = [cache EXCEPT ![make_key(Question(w))] =
                    [result |-> ResultOf(Question(w), work[w].read),
                     expires |-> now + TTL, stored |-> now, begun |-> sweeps.begun]]
     \/ UNCHANGED cache
  /\ Finish(w, work[w].read)
  /\ Release(w)
  /\ UNCHANGED <<index, now, ranks, cacheLock, asked, sweeps, standing>>

(* The daemon is stopped and started: its requests are dropped, the cache  *)
(* is in the database and stays.                                           *)
Restart ==
  /\ \E w \in Threads : Busy(w)
  /\ work' = [w \in Workers |-> IF w \in Threads THEN Idle ELSE work[w]]
  /\ dbLock' = Nobody
  /\ cacheLock' = Nobody
  /\ NoAnswer
  /\ UNCHANGED <<index, now, cache, ranks, asked, sweeps, standing>>
-----------------------------------------------------------------------------
(* Maintenance of the cache, by threads of the server that would call it.  *)

(* invalidate_for_file, of a file all results but those of stats mention,  *)
(* unless a failed statement left them without rows.                       *)
Mentions(row) == row.result.of.method # "stats" /\ row.result.parts # {"rest"}

Invalidate(w) ==
  /\ Takes(w, Threads)
  /\ sweeps.begun < MaxSweeps
  /\ cacheLock = Nobody
  /\ sweeps' = [sweeps EXCEPT !.begun = @ + 1]
  /\ work' = [work EXCEPT ![w] =
                [step |-> "delete", keys |-> {k \in Keys : Live(k) /\ Mentions(cache[k])}]]
  /\ NoAnswer
  /\ UNCHANGED <<index, now, cache, ranks, dbLock, cacheLock, asked, standing>>

DeleteOne(w) ==
  /\ work[w].step = "delete"
  /\ cacheLock = Nobody
  /\ IF work[w].keys = {}
     THEN /\ work' = [work EXCEPT ![w] = Idle]
          /\ sweeps' = [sweeps EXCEPT !.finished = @ + 1]
          /\ UNCHANGED cache
     ELSE \E k \in work[w].keys :
            /\ cache' = [cache EXCEPT ![k] = None]
            /\ work' = [work EXCEPT ![w].keys = @ \ {k}]
            /\ UNCHANGED sweeps
  /\ NoAnswer
  /\ UNCHANGED <<index, now, ranks, dbLock, cacheLock, asked, standing>>

purge_expired ==
  /\ cacheLock = Nobody
  /\ cache' = [k \in Keys |-> IF Live(k) THEN cache[k] ELSE None]
  /\ cache' # cache
  /\ NoAnswer
  /\ UNCHANGED <<index, now, ranks, dbLock, cacheLock, work, asked, sweeps, standing>>
-----------------------------------------------------------------------------
(* compute_and_store_ranks: the ranks are deleted; the degrees of the      *)
(* symbols and the edges are read; the ranks are stored one by one, each   *)
(* of the degrees and of the page rank the edges give.                     *)

clear_ranks_Not == UNCHANGED ranks

clear_ranks == ranks' = [s \in Symbols |-> None]

RankSteps == {"degrees", "edges", "upsert"}

Ranking(w) == work[w].step \in RankSteps

(* A command that begins is not alone, and no other is from now on.        *)
RankClear(w) ==
  /\ Asks(w, Others)
  /\ clear_ranks
  /\ work' = [v \in Workers |->
       IF v = w THEN [step |-> "degrees", alone |-> \A u \in Others \ {w} : ~Ranking(u)]
       ELSE IF Ranking(v) THEN [work[v] EXCEPT !.alone = FALSE] ELSE work[v]]
  /\ standing' = None
  /\ NoAnswer
  /\ UNCHANGED <<index, now, cache, dbLock, cacheLock, sweeps>>

RankDegrees(w) ==
  /\ work[w].step = "degrees"
  /\ work' = [work EXCEPT ![w] = [step |-> "edges", alone |-> @.alone, degrees |-> index,
                                  left |-> SymbolsAt(index)]]
  /\ NoAnswer
  /\ UNCHANGED <<index, now, cache, ranks, dbLock, cacheLock, asked, sweeps, standing>>

RankEdges(w) ==
  /\ work[w].step = "edges"
  /\ work' = [work EXCEPT ![w] = [step |-> "upsert", alone |-> @.alone, left |-> @.left,
                                  rank |-> [degrees |-> @.degrees, edges |-> index]]]
  /\ NoAnswer
  /\ UNCHANGED <<index, now, cache, ranks, dbLock, cacheLock, asked, sweeps, standing>>

RankUpsert(w) ==
  /\ work[w].step = "upsert"
  /\ IF work[w].left = {}
     THEN /\ work' = [work EXCEPT ![w] = Idle]
          /\ standing' = IF work[w].alone THEN work[w].rank ELSE standing
          /\ UNCHANGED ranks
     ELSE \E s \in work[w].left :
            /\ ranks' = [ranks EXCEPT ![s] = work[w].rank]
            /\ work' = [work EXCEPT ![w].left = @ \ {s}]
            /\ UNCHANGED standing
  /\ NoAnswer
  /\ UNCHANGED <<index, now, cache, dbLock, cacheLock, asked, sweeps>>

(* A command is interrupted, or one of its statements fails.               *)
RankStop(w) ==
  /\ Ranking(w)
  /\ work' = [work EXCEPT ![w] = Idle]
  /\ NoAnswer
  /\ UNCHANGED <<index, now, cache, ranks, dbLock, cacheLock, asked, sweeps, standing>>
-----------------------------------------------------------------------------
Handle(w) == \/ Lookup(w) \/ Select(w) \/ TakeDb(w) \/ Query(w) \/ Store(w) \/ DeleteOne(w)

Rank(w) == \/ RankDegrees(w) \/ RankEdges(w) \/ RankUpsert(w)

Next == \/ Change \/ Tick \/ Restart \/ purge_expired
        \/ \E w \in Workers : (\E q \in Requests : Ask(w, q)) \/ Handle(w)
        \/ \E w \in Threads : Invalidate(w)
        \/ \E w \in Others : RankClear(w) \/ Rank(w) \/ RankStop(w)

Spec == Init /\ [][Next]_vars

(* Some thread that can go on does: which one a mutex is granted to is not *)
(* said, as there are MaxAsked requests at most.                           *)
FairSpec == Spec /\ WF_vars(\E w \in Workers : Handle(w) \/ Rank(w))
-----------------------------------------------------------------------------
IsResult == reply # None /\ "result" \in DOMAIN reply

(* Rows, locks and threads are what the code keeps them as; a lock is held *)
(* by a thread that is at a step that needs it.                            *)
ServerTypeOK ==
  /\ index \in 0 .. MaxChanges /\ now \in 0 .. MaxTime /\ asked \in 0 .. MaxAsked
  /\ \A k \in Keys : cache[k] # None => /\ cache[k].result.of \in Requests
                                        /\ cache[k].expires = cache[k].stored + TTL
  /\ \A s \in Symbols : ranks[s] # None => ranks[s].degrees <= ranks[s].edges
  /\ \A w \in Threads : /\ dbLock = w <=> work[w].step \in {"query", "store"}
                        /\ cacheLock = w <=> work[w].step = "select"

(* An answer that does not show the index as it was when it was asked for  *)
(* is from the cache: it was stored less than the TTL before, and not      *)
(* before an invalidation that was over when it was asked for.  It may be  *)
(* older than that by the time its query took.                             *)
StaleHasCause ==
  IsResult /\ reply.result.from < reply.asking.index =>
    LET row == reply.hit
        q == reply.asking.q
    IN /\ row # None
       /\ q.over = "http" /\ HandlerOf(q).cached
       /\ reply.asking.time < row.stored + TTL
       /\ Mentions(row) => reply.asking.swept <= row.begun

(* What one request has as parameters the other may have as text at the    *)
(* end of its string; and a parameter is the same if its text is.          *)
HasAsText(p, q) ==
  \E n \in 0 .. Len(Params(q)) : /\ p.tail = q.tail \o SubSeq(Params(q), 1, n)
                                 /\ Params(p) = SubSeq(Params(q), n + 1, Len(Params(q)))

SameButForQuotes(p, q) == /\ p.over = "http" /\ q.over = "http" /\ HandlerOf(q).cached
                          /\ p.method = q.method /\ p.given = q.given /\ p.about = q.about
                          /\ HasAsText(p, q) \/ HasAsText(q, p)

(* An answer is one to the question: the same method, parameters and       *)
(* budget.  A cached one may be that of a request that differs from it in  *)
(* nothing but quotes: a boolean or a number where the other has a string, *)
(* or parameters where the other has a string that reads like them behind  *)
(* a comma.  A request is refused if its method is none of those there     *)
(* are, or if it leaves out a parameter tools/list says is required, and   *)
(* then only; and an answer with nothing to show for a failed statement is *)
(* one of a method that hides it.                                          *)
AnswersTheQuestion ==
  reply # None =>
    LET q == reply.asking.q
        tools == handle_tools_list
        refused == q.method \notin DOMAIN tools \/ ~(tools[q.method] \subseteq q.given)
    IN IF IsResult
       THEN LET of == reply.result.of
            IN /\ of = q \/ (reply.hit # None /\ SameButForQuotes(of, q))
               /\ q.over = "stdio" => ~refused
               /\ reply.result.failed # {} =>
                    q.method \in {"stats", "verify", "impact", "edit_plan", "impact_deep",
                                  "dead_code_verify", "cross_module_move",
                                  "signature_migration_check"}
                    \/ Like(of)
       ELSE q.over = "stdio" => (reply.why = "refused" <=> refused)

(* An answer over the budget it was asked with is one of the cache, one of *)
(* a method without budgets, or has nothing left to remove.  What was      *)
(* reduced is said to be, was not reduced further than it had to be, and   *)
(* is called truncated over stdio; over HTTP only if it still is too long. *)
OverBudgetHasCause ==
  IsResult =>
    LET q == reply.asking.q
        said == reply.said
        full == reply.result.parts
        budget == get_token_budget(q)
        over(parts) == budget # NoBudget /\ estimate_json_tokens(parts) > budget
    IN /\ over(said.parts) => \/ reply.hit # None
                              \/ ~HandlerOf(q).budgeted
                              \/ said.parts = {"rest"}
       /\ said.parts # full => /\ said.applied # "none"
                               /\ over(said.parts \cup ({said.applied} \cap full))
                               /\ said.truncated <=> q.over = "stdio" \/ over(said.parts)

(* After a rank command that was alone from its start to its end, and      *)
(* until another starts, the symbols it found have their ranks, all of one *)
(* pair of readings, and no other symbol has one.                          *)
RanksAreOneReading ==
  standing # None =>
    \A s \in Symbols : ranks[s] = IF s \in SymbolsAt(standing.degrees) THEN standing ELSE None

(* No thread waits for ever: time and again all requests are answered (or  *)
(* dropped with the daemon), and all invalidations and rank commands over. *)
EveryRequestEnds == []<>(\A w \in Workers : ~Busy(w))
=============================================================================
