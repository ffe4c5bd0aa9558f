------------------------- MODULE ServerAnswerProofs -------------------------
(***************************************************************************)
(* How old an answer of module Server may be, which question it is the     *)
(* answer to, and how long it is: for any number of threads, requests,     *)
(* invalidations and changes of the index, any TTL and any token count.    *)
(***************************************************************************)
EXTENDS ServerProofs, SequenceTheorems

(* Threads in an invalidation, and those of them that will not delete k.   *)
Deleting == {w \in Threads : work[w].step = "delete"}
Sparing(k) == {w \in Deleting : k \notin work[w].keys}

(* A request was asked before now, and its statements ran after that.      *)
AskedBefore(w) ==
  work[w].step \in RequestSteps =>
    /\ work[w].asking.time <= now
    /\ work[w].asking.index <= index
    /\ work[w].asking.swept <= sweeps.finished
    /\ work[w].read.statements # 0 => work[w].asking.index <= work[w].read.from

(* What is true of a row that is served to a request.                      *)
MayServe(row, asking) == /\ row # None
                         /\ asking.time < row.expires
                         /\ Mentions(row) => asking.swept <= row.begun

HitAt(w) == work[w].step = "select" => MayServe(cache[make_key(Question(w))], work[w].asking)

(* An invalidation that is over has not spared a live row that mentions    *)
(* the file, unless it began before the row was stored; one under way may  *)
(* still do so.                                                            *)
Counted == sweeps.finished + Cardinality(Deleting) <= sweeps.begun
Spared(k) == Live(k) /\ Mentions(cache[k]) =>
               sweeps.finished + Cardinality(Sparing(k)) <= cache[k].begun

FreshInv == /\ \A w \in Workers : AskedBefore(w) /\ HitAt(w)
            /\ Counted
            /\ \A k \in Keys : Spared(k)

LEMMA Counts ==
  ASSUME NEW S \in SUBSET Threads
  PROVE  /\ IsFiniteSet(S) /\ Cardinality(S) \in Nat
         /\ \A T \in SUBSET S : IsFiniteSet(T) /\ Cardinality(T) \in Nat
                                /\ Cardinality(T) <= Cardinality(S)
<1>1. IsFiniteSet(Threads)
  BY ServerAssumption, FS_Subset DEF Workers
<1> QED BY <1>1, FS_Subset, FS_CardinalityType

LEMMA NumbersOf ==
  ASSUME SInv
  PROVE  /\ index \in Nat /\ now \in Nat /\ TTL \in Nat
         /\ sweeps.begun \in Nat /\ sweeps.finished \in Nat
         /\ \A k \in Keys : cache[k] # None => /\ cache[k] \in RowType /\ cache[k].begun \in Nat
                                               /\ cache[k].expires \in Nat
                                               /\ cache[k].stored \in Nat
<1>1. MaxChanges \in Nat /\ MaxTime \in Nat /\ TTL \in Nat
  BY ServerAssumption
<1>2. index \in Nat /\ now \in Nat
  BY <1>1 DEF SInv, RestType
<1>3. sweeps.begun \in Nat /\ sweeps.finished \in Nat
  BY DEF SInv, RestType
<1>4. \A k \in Keys : cache[k] # None => cache[k] \in RowType
  BY DEF SInv, RestType
<1> QED BY <1>1, <1>2, <1>3, <1>4 DEF RowType

LEMMA FreshInit == Init => FreshInv
<1> SUFFICES ASSUME Init PROVE FreshInv
  OBVIOUS
<1>1. \A w \in Workers : work[w] = Idle /\ work[w].step = "idle"
  BY IdleFacts DEF Init
<1>2. Deleting = {} /\ Cardinality(Deleting) = 0
  BY <1>1, FS_EmptySet DEF Deleting, Workers
<1>3. Counted
  BY <1>2 DEF Init, Counted
<1>4. \A k \in Keys : Spared(k)
  BY DEF Init, Spared, Live
<1> QED BY <1>1, <1>3, <1>4 DEF FreshInv, AskedBefore, HitAt, RequestSteps

(* Steps that leave invalidations as they are.                             *)
LEMMA SameCounts ==
  ASSUME SInv, FreshInv, sweeps' = sweeps,
         \A v \in Threads : /\ work'[v].step = "delete" <=> work[v].step = "delete"
                            /\ work'[v].step = "delete" => work'[v].keys = work[v].keys
  PROVE  /\ Counted'
         /\ \A k \in Keys : Sparing(k)' = Sparing(k)
<1>1. Deleting' = Deleting
  BY DEF Deleting
<1>2. \A k \in Keys : Sparing(k)' = Sparing(k)
  BY <1>1 DEF Sparing, Deleting
<1> QED BY <1>1, <1>2 DEF Counted, FreshInv

(* A row is as it was, or is gone, or is no longer live.                   *)
LEMMA SameRows ==
  ASSUME SInv, SInv', FreshInv, sweeps' = sweeps, NEW k \in Keys, Sparing(k)' = Sparing(k),
         cache'[k] = cache[k] \/ cache'[k] = None,
         now <= now'
  PROVE  Spared(k)'
<1>1. CASE cache'[k] = None
  BY <1>1 DEF Spared, Live
<1>2. CASE cache'[k] = cache[k] /\ cache[k] # None
  <2>1. cache[k].expires \in Nat /\ now \in Nat /\ now' \in Nat
    <3>1. now' \in Nat
      BY ServerAssumption DEF SInv, RestType
    <3> QED BY <1>2, <3>1, NumbersOf
  <2>2. Live(k)' => Live(k)
    BY <1>2, <2>1 DEF Live
  <2> QED BY <1>2, <2>2 DEF Spared, FreshInv
<1> QED BY <1>1, <1>2

LEMMA RankersAsk ==
  ASSUME NEW v, Ranking(v)' \/ work'[v].step \in {"idle", "delete"}
  PROVE  AskedBefore(v)' /\ HitAt(v)'
BY DEF Ranking, RankSteps, AskedBefore, HitAt, RequestSteps

(* A step of w that changes neither the cache nor the invalidations.       *)
LEMMA RequestMoves ==
  ASSUME SInv, SInv', FreshInv, UNCHANGED <<cache, sweeps, now, index>>, NEW w \in Workers,
         \A v \in Workers \ {w} : work'[v] = work[v] \/ (Ranking(v) /\ Ranking(v)'),
         work[w].step # "delete", work'[w].step # "delete",
         AskedBefore(w)', HitAt(w)'
  PROVE  FreshInv'
<1>1. \A v \in Threads : /\ work'[v].step = "delete" <=> work[v].step = "delete"
                         /\ work'[v].step = "delete" => work'[v].keys = work[v].keys
  BY DEF Workers, Ranking, RankSteps
<1>2. Counted' /\ \A k \in Keys : Sparing(k)' = Sparing(k)
  BY <1>1, SameCounts
<1>3. now <= now'
  BY NumbersOf
<1>4. \A k \in Keys : Spared(k)'
  BY <1>2, <1>3, SameRows
<1>5. ASSUME NEW v \in Workers \ {w} PROVE AskedBefore(v)' /\ HitAt(v)'
  <2>1. CASE work'[v] = work[v]
    BY <2>1 DEF FreshInv, AskedBefore, HitAt, Question
  <2>2. CASE Ranking(v)'
    BY <2>2, RankersAsk
  <2> QED BY <2>1, <2>2
<1> QED BY <1>2, <1>4, <1>5 DEF FreshInv

(* While the mutex of the cache is free nobody has seen a hit.             *)
LEMMA NobodySelects ==
  ASSUME SInv, cacheLock = Nobody, NEW w \in Workers PROVE work[w].step # "select"
BY ServerAssumption DEF SInv, Place, Workers, Nobody, RankSteps

(* A step of the world, which no thread takes.                             *)
LEMMA WorldMoves ==
  ASSUME SInv, SInv', FreshInv, UNCHANGED <<work, sweeps>>, index <= index', now <= now',
         \A k \in Keys : cache'[k] = cache[k] \/ cache'[k] = None,
         cache' = cache \/ cacheLock = Nobody
  PROVE  FreshInv'
<1>1. Counted' /\ \A k \in Keys : Sparing(k)' = Sparing(k)
  BY SameCounts
<1>2. \A k \in Keys : Spared(k)'
  BY <1>1, SameRows
<1>3. ASSUME NEW v \in Workers PROVE AskedBefore(v)'
  <2>1. AskedBefore(v)
    BY DEF FreshInv
  <2>2. work[v].step \in RequestSteps => work[v].asking.time \in Nat /\ work[v].asking.index \in Nat
    BY RequestFacts DEF RequestWork, AskingType
  <2>3. index \in Nat /\ now \in Nat /\ index' \in Nat /\ now' \in Nat
    BY NumbersOf, ServerAssumption DEF SInv, RestType
  <2> QED BY <2>1, <2>2, <2>3 DEF AskedBefore
<1>4. ASSUME NEW v \in Workers PROVE HitAt(v)'
  BY NobodySelects DEF FreshInv, HitAt, Question
<1> QED BY <1>1, <1>2, <1>3, <1>4 DEF FreshInv

LEMMA FreshWorld ==
  ASSUME SInv, SInv', FreshInv, Change \/ Tick \/ purge_expired \/ UNCHANGED vars
  PROVE  FreshInv'
<1>1. /\ UNCHANGED <<work, sweeps>>
      /\ \A k \in Keys : cache'[k] = cache[k] \/ cache'[k] = None
      /\ cache' = cache \/ cacheLock = Nobody
  BY DEF Change, Tick, purge_expired, vars
<1>2. index <= index' /\ now <= now'
  BY NumbersOf DEF Change, Tick, purge_expired, vars
<1> QED BY <1>1, <1>2, WorldMoves

LEMMA FreshRestart == ASSUME SInv, SInv', FreshInv, Restart PROVE FreshInv'
<1>1. /\ \A v \in Threads : work'[v] = Idle
      /\ \A v \in Others : work'[v] = work[v]
      /\ UNCHANGED <<index, now, cache, sweeps>>
  BY ServerAssumption DEF Restart, Workers
<1>2. /\ Deleting' = {} /\ Cardinality(Deleting)' = 0
      /\ \A k \in Keys : Cardinality(Sparing(k))' = 0
  <2>1. Deleting' = {} /\ \A k \in Keys : Sparing(k)' = {}
    BY <1>1, IdleFacts DEF Deleting, Sparing
  <2> QED BY <2>1, FS_EmptySet
<1>3. \A k \in Keys : /\ Cardinality(Sparing(k)) \in Nat
                      /\ Cardinality(Deleting) \in Nat
  BY Counts DEF Sparing, Deleting
<1>4. Counted'
  BY <1>1, <1>2, <1>3, NumbersOf, Counts DEF Counted, FreshInv, Deleting
<1>5. ASSUME NEW k \in Keys PROVE Spared(k)'
  <2>1. Live(k)' => Live(k) /\ cache[k].begun \in Nat
    BY <1>1, NumbersOf DEF Live
  <2>2. sweeps'.finished \in Nat /\ sweeps'.finished = sweeps.finished
    BY <1>1, NumbersOf
  <2> QED BY <1>1, <1>2, <1>3, <2>1, <2>2 DEF Spared, FreshInv
<1>6. ASSUME NEW v \in Workers PROVE AskedBefore(v)' /\ HitAt(v)'
  <2>1. CASE v \in Threads
    BY <1>1, <2>1, IdleFacts, RankersAsk
  <2>2. CASE v \in Others
    BY <1>1, <2>2 DEF FreshInv, AskedBefore, HitAt, Question
  <2> QED BY <2>1, <2>2 DEF Workers
<1> QED BY <1>4, <1>5, <1>6 DEF FreshInv
-----------------------------------------------------------------------------
(* The steps of a request.                                                 *)
LEMMA FreshAsk ==
  ASSUME SInv, SInv', FreshInv, NEW w \in Workers, NEW q \in Requests, Ask(w, q)
  PROVE  FreshInv'
<1>1. work[w] = Idle /\ UNCHANGED <<cache, sweeps, now, index>>
  BY DEF Ask, Asks, Takes, Busy
<1>2. CASE Refused(q)
  <2>1. work' = work
    BY <1>2 DEF Ask
  <2>2. index <= index' /\ now <= now'
    BY <1>1, NumbersOf
  <2> QED BY <1>1, <2>1, <2>2, WorldMoves
<1>3. CASE ~Refused(q)
  <2> DEFINE to == IF HandlerOf(q).cached THEN "lookup"
                   ELSE IF w \in Threads THEN "lock" ELSE "query"
             x == [step |-> to, asking |-> Asking(q), read |-> Blank]
  <2>1. work' = [work EXCEPT ![w] = x]
    BY <1>3 DEF Ask
  <2>2. x.step \notin {"delete", "select"} /\ x.asking = Asking(q) /\ x.read = Blank
    OBVIOUS
  <2> HIDE DEF x, to
  <2>3. work'[w] = x /\ \A v \in Workers \ {w} : work'[v] = work[v]
    BY <2>1 DEF SInv
  <2>4. AskedBefore(w)' /\ HitAt(w)'
    BY <1>1, <2>2, <2>3, NumbersOf DEF AskedBefore, HitAt, Asking, Blank
  <2>5. work[w].step # "delete" /\ work'[w].step # "delete"
    BY <1>1, <2>2, <2>3, IdleFacts
  <2> QED BY <1>1, <2>3, <2>4, <2>5, RequestMoves
<1> QED BY <1>2, <1>3

(* A request goes on; what it was asked and has read stays.                *)
LEMMA FreshGoes ==
  ASSUME SInv, SInv', FreshInv, NEW w \in Workers, work[w].step \in RequestSteps,
         NEW to \in RequestSteps, Goes(w, to), UNCHANGED <<cache, sweeps, now, index>>,
         to = "select" => MayServe(cache[make_key(Question(w))], work[w].asking)
  PROVE  FreshInv'
<1>1. PICK x \in Work : /\ work' = [work EXCEPT ![w] = x] /\ work'[w] = x
                       /\ x \in RequestWork /\ x.step = to
                       /\ x.asking = work[w].asking /\ x.read = work[w].read
  BY GoesOn
<1>2. AskedBefore(w)' /\ HitAt(w)'
  BY <1>1 DEF FreshInv, AskedBefore, HitAt, Question
<1>3. \A v \in Workers \ {w} : work'[v] = work[v]
  BY <1>1
<1>4. work[w].step # "delete" /\ work'[w].step # "delete"
  BY <1>1 DEF RequestSteps
<1> QED BY <1>2, <1>3, <1>4, RequestMoves

(* The mutexes are free of those who do nothing.                           *)
LEMMA FreshEnds ==
  ASSUME SInv, SInv', FreshInv, NEW w \in Workers, work[w].step # "delete",
         work' = [work EXCEPT ![w] = Idle], UNCHANGED <<cache, sweeps, now, index>>
  PROVE  FreshInv'
<1>1. work'[w] = Idle /\ \A v \in Workers \ {w} : work'[v] = work[v]
  BY DEF SInv
<1>2. work'[w].step = "idle"
  BY <1>1, IdleFacts
<1> QED BY <1>1, <1>2, RankersAsk, RequestMoves

LEMMA FreshLookup ==
  ASSUME SInv, SInv', FreshInv, NEW w \in Workers, Lookup(w) PROVE FreshInv'
<1> DEFINE k == make_key(Question(w))
<1>1. work[w].step \in RequestSteps /\ UNCHANGED <<cache, sweeps, now, index>>
  BY DEF Lookup, RequestSteps
<1>2. work[w].asking \in AskingType /\ k \in Keys
  BY <1>1, RequestFacts DEF RequestWork
<1>3. ASSUME Live(k) PROVE MayServe(cache[k], work[w].asking)
  <2>1. cache[k] # None /\ cache[k].expires > now
    BY <1>3 DEF Live
  <2>2. cache[k].expires \in Nat /\ cache[k].begun \in Nat /\ now \in Nat /\ sweeps.finished \in Nat
    BY <1>2, <2>1, NumbersOf
  <2>3. work[w].asking.time <= now /\ work[w].asking.swept <= sweeps.finished
    BY <1>1 DEF FreshInv, AskedBefore
  <2>4. work[w].asking.time \in Nat /\ work[w].asking.swept \in Nat
    BY <1>2 DEF AskingType
  <2>5. work[w].asking.time < cache[k].expires
    BY <2>1, <2>2, <2>3, <2>4
  <2>6. Mentions(cache[k]) => work[w].asking.swept <= cache[k].begun
    <3>1. Cardinality(Sparing(k)) \in Nat
      BY Counts DEF Sparing, Deleting
    <3>2. Mentions(cache[k]) => sweeps.finished + Cardinality(Sparing(k)) <= cache[k].begun
      BY <1>2, <1>3 DEF FreshInv, Spared
    <3> QED BY <2>2, <2>3, <2>4, <3>1, <3>2
  <2> QED BY <2>1, <2>5, <2>6 DEF MayServe
<1>4. CASE Live(k) /\ Goes(w, "select")
  BY <1>1, <1>3, <1>4, FreshGoes DEF RequestSteps
<1>5. CASE Goes(w, "lock")
  BY <1>1, <1>5, FreshGoes DEF RequestSteps
<1> QED BY <1>4, <1>5 DEF Lookup

LEMMA FreshSelect ==
  ASSUME SInv, SInv', FreshInv, NEW w \in Workers, Select(w) PROVE FreshInv'
<1>1. work[w].step = "select" /\ UNCHANGED <<cache, sweeps, now, index>>
  BY DEF Select
<1>2. CASE work' = [work EXCEPT ![w] = Idle]
  BY <1>1, <1>2, FreshEnds
<1>3. CASE Goes(w, "lock")
  BY <1>1, <1>3, FreshGoes DEF RequestSteps
<1> QED BY <1>2, <1>3 DEF Select, Answer

LEMMA FreshTakeDb ==
  ASSUME SInv, SInv', FreshInv, NEW w \in Workers, TakeDb(w) PROVE FreshInv'
BY FreshGoes DEF TakeDb, RequestSteps

(* Of the statements of a request that goes on, those fail that may.       *)
Hides(w, read) == read.failed \subseteq work[w].read.failed \cup HiddenFailures(Question(w))

Fails(w) == reply' = Error(work[w].asking, "failed", FailedCode(Question(w)))

LEMMA FailsIsNoResult ==
  ASSUME NEW w, Fails(w)
  PROVE  /\ ~IsResult' /\ reply' # None
         /\ reply'.asking = work[w].asking /\ reply'.why = "failed"
<1>1. reply' = [asking |-> work[w].asking, why |-> "failed", error |-> FailedCode(Question(w))]
  BY DEF Fails, Error
<1>2. "result" \notin DOMAIN reply' /\ "why" \in DOMAIN reply' /\ "why" \notin DOMAIN None
  BY <1>1 DEF None
<1> QED BY <1>1, <1>2 DEF IsResult

(* What Query does to the request.                                         *)
LEMMA QueryDoes ==
  ASSUME SInv, NEW w \in Workers, Query(w)
  PROVE  \E read :
           /\ read.statements = work[w].read.statements + 1
           /\ read.from = IF read.statements = 1 THEN index ELSE work[w].read.from
           /\ \/ work' = [work EXCEPT ![w] = Idle] /\ Fails(w)
              \/ Finish(w, read) /\ Hides(w, read)
              \/ /\ \E to \in {"query", "store"} :
                      work' = [work EXCEPT ![w] = [@ EXCEPT !.read = read, !.step = to]]
                 /\ NoAnswer /\ Hides(w, read)
<1> DEFINE q == Question(w)
           i == work[w].read.statements + 1
<1>1. PICK ok \in BOOLEAN :
        LET read == [statements |-> i, from |-> IF i = 1 THEN index ELSE work[w].read.from,
                     failed |-> work[w].read.failed \cup (IF ok THEN {} ELSE {i})]
        IN IF (~ok /\ i \notin HiddenFailures(q)) \/ (i = 1 /\ NotFound(q))
           THEN Answer(w, Error(work[w].asking, "failed", FailedCode(q))) /\ Release(w)
           ELSE IF i = Statements(q) /\ ~HandlerOf(q).cached
           THEN Finish(w, read) /\ Release(w)
           ELSE /\ work' = [work EXCEPT ![w].read = read,
                            ![w].step = IF i < Statements(q) THEN @ ELSE "store"]
                /\ NoAnswer
                /\ UNCHANGED dbLock
  BY DEF Query
<1> DEFINE read == [statements |-> i, from |-> IF i = 1 THEN index ELSE work[w].read.from,
                    failed |-> work[w].read.failed \cup (IF ok THEN {} ELSE {i})]
           to == IF i < Statements(q) THEN "query" ELSE "store"
<1>2. read.statements = i /\ read.from = IF i = 1 THEN index ELSE work[w].read.from
  OBVIOUS
<1>3. to \in {"query", "store"}
  OBVIOUS
<1>4. work[w].step = "query" /\ work[w] \in RequestWork
  BY RequestFacts DEF Query, RequestSteps
<1>5. CASE Answer(w, Error(work[w].asking, "failed", FailedCode(q)))
  BY <1>2, <1>5 DEF Answer, Fails
<1>6. ok \/ i \in HiddenFailures(q) => Hides(w, read)
  BY DEF Hides
<1>7. CASE Finish(w, read) /\ Hides(w, read)
  BY <1>2, <1>7
<1>8. CASE /\ work' = [work EXCEPT ![w].read = read,
                          ![w].step = IF i < Statements(q) THEN @ ELSE "store"]
           /\ NoAnswer /\ Hides(w, read)
  <2>1. work' = [work EXCEPT ![w] = [@ EXCEPT !.read = read, !.step = to]]
    BY <1>4, <1>8 DEF SInv, RequestWork
  <2> HIDE DEF read, to
  <2> QED BY <1>2, <1>3, <1>8, <2>1
<1> QED BY <1>1, <1>5, <1>6, <1>7, <1>8

LEMMA FreshQuery ==
  ASSUME SInv, SInv', FreshInv, NEW w \in Workers, Query(w) PROVE FreshInv'
<1>1. work[w].step = "query" /\ UNCHANGED <<cache, sweeps, now, index>>
  BY DEF Query
<1>2. work[w].step \in RequestSteps /\ work[w] \in RequestWork
  BY <1>1, RequestFacts DEF RequestSteps
<1>3. PICK read :
        /\ read.statements = work[w].read.statements + 1
        /\ read.from = IF read.statements = 1 THEN index ELSE work[w].read.from
        /\ \/ work' = [work EXCEPT ![w] = Idle] /\ Fails(w)
           \/ Finish(w, read) /\ Hides(w, read)
           \/ /\ \E to \in {"query", "store"} :
                   work' = [work EXCEPT ![w] = [@ EXCEPT !.read = read, !.step = to]]
              /\ NoAnswer /\ Hides(w, read)
  BY QueryDoes
<1>4. CASE work' = [work EXCEPT ![w] = Idle]
  BY <1>1, <1>4, FreshEnds
<1>5. ASSUME NEW to \in {"query", "store"},
             work' = [work EXCEPT ![w] = [@ EXCEPT !.read = read, !.step = to]]
      PROVE  FreshInv'
  <2> DEFINE x == [work[w] EXCEPT !.read = read, !.step = to]
  <2>1. x.asking = work[w].asking /\ x.read = read /\ x.step = to
    BY <1>2 DEF RequestWork
  <2>2. work' = [work EXCEPT ![w] = x]
    BY <1>5 DEF SInv
  <2> HIDE DEF x
  <2>3. work'[w] = x /\ \A v \in Workers \ {w} : work'[v] = work[v]
    BY <2>2 DEF SInv
  <2>4. work[w].asking.index <= read.from
    <3>1. work[w].asking.index <= index
          /\ (work[w].read.statements # 0 => work[w].asking.index <= work[w].read.from)
      BY <1>2 DEF FreshInv, AskedBefore
    <3>2. work[w].read.statements \in Nat
      BY <1>2 DEF RequestWork, ReadType
    <3>3. read.statements # 1 => work[w].read.statements # 0
      BY <1>3, <3>2
    <3> QED BY <1>3, <3>1, <3>3
  <2>5. AskedBefore(w)' /\ HitAt(w)'
    BY <1>1, <1>2, <2>1, <2>3, <2>4 DEF FreshInv, AskedBefore, HitAt
  <2>6. work[w].step # "delete" /\ work'[w].step # "delete"
    BY <1>1, <2>1, <2>3
  <2> QED BY <1>1, <2>3, <2>5, <2>6, RequestMoves
<1> QED BY <1>3, <1>4, <1>5 DEF Finish, Answer

(* What Store does to the cache.                                           *)
LEMMA StoreDoes ==
  ASSUME SInv, NEW w \in Workers, Store(w)
  PROVE  /\ work[w].step = "store" /\ cacheLock = Nobody
         /\ work' = [work EXCEPT ![w] = Idle]
         /\ UNCHANGED <<index, now, sweeps>>
         /\ \A k \in Keys : cache'[k] = cache[k] \/ cache'[k].begun = sweeps.begun
<1>1. \A k \in Keys : cache'[k] = cache[k] \/ cache'[k].begun = sweeps.begun
  BY DEF Store, SInv, RestType
<1> QED BY <1>1 DEF Store, Finish, Answer

LEMMA FreshStore ==
  ASSUME SInv, SInv', FreshInv, NEW w \in Workers, Store(w) PROVE FreshInv'
<1>1. /\ work[w].step = "store" /\ cacheLock = Nobody
      /\ work' = [work EXCEPT ![w] = Idle]
      /\ UNCHANGED <<index, now, sweeps>>
      /\ \A k \in Keys : cache'[k] = cache[k] \/ cache'[k].begun = sweeps.begun
  BY StoreDoes
<1>2. work'[w] = Idle /\ \A v \in Workers \ {w} : work'[v] = work[v]
  BY <1>1 DEF SInv
<1>3. Counted' /\ \A k \in Keys : Sparing(k)' = Sparing(k)
  <2>1. \A v \in Threads : /\ work'[v].step = "delete" <=> work[v].step = "delete"
                           /\ work'[v].step = "delete" => work'[v].keys = work[v].keys
    BY <1>1, <1>2, IdleFacts DEF Workers
  <2> QED BY <1>1, <2>1, SameCounts
<1>4. ASSUME NEW k \in Keys PROVE Spared(k)'
  <2>1. CASE cache'[k] = cache[k]
    <3>1. now <= now'
      BY <1>1, NumbersOf
    <3> QED BY <1>1, <1>3, <2>1, <3>1, SameRows
  <2>2. CASE cache'[k].begun = sweeps.begun
    <3>1. /\ Cardinality(Sparing(k)) \in Nat /\ Cardinality(Deleting) \in Nat
          /\ Cardinality(Sparing(k)) <= Cardinality(Deleting)
      BY Counts DEF Sparing, Deleting
    <3>2. sweeps.finished + Cardinality(Sparing(k)) <= sweeps.begun
      BY <3>1, NumbersOf DEF FreshInv, Counted
    <3> QED BY <1>1, <1>3, <2>2, <3>2 DEF Spared
  <2> QED BY <1>1, <2>1, <2>2
<1>5. ASSUME NEW v \in Workers PROVE AskedBefore(v)' /\ HitAt(v)'
  <2>1. CASE v = w
    BY <1>2, <2>1, IdleFacts, RankersAsk
  <2>2. CASE v # w
    BY <1>1, <1>2, <2>2, NobodySelects DEF FreshInv, AskedBefore, HitAt
  <2> QED BY <2>1, <2>2
<1> QED BY <1>3, <1>4, <1>5 DEF FreshInv
-----------------------------------------------------------------------------
(* The steps of an invalidation.                                           *)
LEMMA FreshInvalidate ==
  ASSUME SInv, SInv', FreshInv, NEW w \in Threads, Invalidate(w) PROVE FreshInv'
<1> DEFINE x == [step |-> "delete", keys |-> {k \in Keys : Live(k) /\ Mentions(cache[k])}]
<1>1. /\ work[w] = Idle /\ work' = [work EXCEPT ![w] = x]
      /\ UNCHANGED <<index, now, cache>>
      /\ sweeps'.begun = sweeps.begun + 1 /\ sweeps'.finished = sweeps.finished
  BY DEF Invalidate, Takes, Busy, SInv, RestType
<1>2. /\ work'[w].step = "delete" /\ work'[w].keys = {k \in Keys : Live(k) /\ Mentions(cache[k])}
      /\ \A v \in Workers \ {w} : work'[v] = work[v]
  BY <1>1 DEF SInv, Workers
<1> HIDE DEF x
<1>3. Deleting' = Deleting \cup {w} /\ w \notin Deleting
  BY <1>1, <1>2, IdleFacts DEF Deleting, Workers
<1>4. Cardinality(Deleting) \in Nat /\ Cardinality(Deleting)' = Cardinality(Deleting) + 1
  <2>1. IsFiniteSet(Deleting) /\ Cardinality(Deleting) \in Nat
    BY Counts DEF Deleting
  <2> QED BY <1>3, <2>1, FS_AddElement
<1>5. Counted'
  BY <1>1, <1>4, NumbersOf DEF FreshInv, Counted
<1>6. ASSUME NEW k \in Keys PROVE Spared(k)'
  <2>1. Live(k)' = Live(k)
    BY <1>1 DEF Live
  <2>2. ASSUME Live(k), Mentions(cache[k]) PROVE Sparing(k)' = Sparing(k)
    <3>1. k \in work'[w].keys
      BY <1>2, <2>2
    <3> QED BY <1>2, <1>3, <3>1 DEF Sparing, Deleting, Workers
  <2> QED BY <1>1, <2>1, <2>2 DEF Spared, FreshInv
<1>7. ASSUME NEW v \in Workers PROVE AskedBefore(v)' /\ HitAt(v)'
  <2>1. CASE v = w
    BY <1>2, <2>1, RankersAsk
  <2>2. CASE v # w
    BY <1>1, <1>2, <2>2 DEF FreshInv, AskedBefore, HitAt, Question
  <2> QED BY <2>1, <2>2
<1> QED BY <1>5, <1>6, <1>7 DEF FreshInv

LEMMA FreshDelete ==
  ASSUME SInv, SInv', FreshInv, NEW w \in Workers, DeleteOne(w) PROVE FreshInv'
<1>1. /\ work[w].step = "delete" /\ work[w] \in DeleteWork /\ cacheLock = Nobody
      /\ UNCHANGED <<index, now>>
  BY WorkFacts DEF DeleteOne, SInv
<1>2. w \in Deleting
  BY <1>1 DEF Deleting, SInv, Place, Workers, RankSteps
<1>3. CASE work[w].keys = {}
  <2>1. /\ work' = [work EXCEPT ![w] = Idle] /\ cache' = cache
        /\ sweeps'.begun = sweeps.begun /\ sweeps'.finished = sweeps.finished + 1
    BY <1>3 DEF DeleteOne, SInv, RestType
  <2>2. work'[w] = Idle /\ \A v \in Workers \ {w} : work'[v] = work[v]
    BY <2>1 DEF SInv
  <2>3. Deleting' = Deleting \ {w}
    BY <2>2, IdleFacts DEF Deleting, Workers
  <2>4. \A k \in Keys : w \in Sparing(k) /\ Sparing(k)' = Sparing(k) \ {w}
    BY <1>2, <1>3, <2>2, <2>3 DEF Sparing, Deleting, Workers
  <2>5. ASSUME NEW S \in SUBSET Threads, w \in S
        PROVE  Cardinality(S \ {w}) + 1 = Cardinality(S)
    <3>1. IsFiniteSet(S) /\ Cardinality(S) \in Nat /\ Cardinality(S \ {w}) \in Nat
      BY Counts
    <3>2. Cardinality(S \ {w}) = Cardinality(S) - 1
      BY <2>5, <3>1, FS_RemoveElement
    <3> QED BY <3>1, <3>2
  <2>6. Cardinality(Deleting)' + 1 = Cardinality(Deleting) /\ Cardinality(Deleting)' \in Nat
    BY <1>2, <2>3, <2>5, Counts DEF Deleting
  <2>7. Counted'
    BY <2>1, <2>6, NumbersOf DEF FreshInv, Counted
  <2>8. ASSUME NEW k \in Keys PROVE Spared(k)'
    <3>1. Sparing(k) \in SUBSET Threads
      BY DEF Sparing, Deleting
    <3>2. Cardinality(Sparing(k))' + 1 = Cardinality(Sparing(k)) /\ Cardinality(Sparing(k))' \in Nat
      <4>1. Cardinality(Sparing(k) \ {w}) \in Nat
        BY <3>1, Counts
      <4> QED BY <2>4, <2>5, <3>1, <4>1
    <3>3. Live(k)' = Live(k) /\ cache'[k] = cache[k]
      BY <1>1, <2>1 DEF Live
    <3>4. sweeps'.finished + Cardinality(Sparing(k))' = sweeps.finished + Cardinality(Sparing(k))
      BY <2>1, <3>2, NumbersOf
    <3> QED BY <3>3, <3>4 DEF Spared, FreshInv
  <2>9. ASSUME NEW v \in Workers PROVE AskedBefore(v)' /\ HitAt(v)'
    <3>1. CASE v = w
      BY <2>2, <3>1, IdleFacts, RankersAsk
    <3>2. CASE v # w
      <4>1. work'[v] = work[v] /\ AskedBefore(v) /\ work[v].step # "select"
        BY <1>1, <2>2, <3>2, NobodySelects DEF FreshInv
      <4>2. work[v].step \in RequestSteps => work[v].asking.swept \in Nat
        BY RequestFacts DEF RequestWork, AskingType
      <4> QED BY <1>1, <2>1, <4>1, <4>2, NumbersOf DEF AskedBefore, HitAt
    <3> QED BY <3>1, <3>2
  <2> QED BY <2>7, <2>8, <2>9 DEF FreshInv
<1>4. CASE work[w].keys # {}
  <2>1. PICK k0 \in work[w].keys : /\ cache' = [cache EXCEPT ![k0] = None]
                                   /\ work' = [work EXCEPT ![w].keys = @ \ {k0}]
                                   /\ sweeps' = sweeps
    BY <1>4 DEF DeleteOne
  <2>2. /\ work'[w].step = "delete" /\ work'[w].keys = work[w].keys \ {k0}
        /\ \A v \in Workers \ {w} : work'[v] = work[v]
    BY <1>1, <2>1 DEF SInv, DeleteWork
  <2>3. k0 \in Keys /\ \A k \in Keys : cache'[k] = IF k = k0 THEN None ELSE cache[k]
    BY <1>1, <2>1 DEF SInv, RestType, DeleteWork
  <2>4. Deleting' = Deleting
    BY <1>1, <2>2 DEF Deleting, Workers
  <2>5. Counted'
    BY <2>1, <2>4 DEF Counted, FreshInv
  <2>6. ASSUME NEW k \in Keys PROVE Spared(k)'
    <3>1. CASE k = k0
      BY <2>3, <3>1 DEF Spared, Live
    <3>2. CASE k # k0
      <4>1. Sparing(k)' = Sparing(k)
        BY <2>2, <2>4, <3>2 DEF Sparing, Deleting, Workers
      <4>2. cache'[k] = cache[k] /\ now <= now'
        BY <1>1, <2>3, <3>2, NumbersOf
      <4> QED BY <2>1, <4>1, <4>2, SameRows
    <3> QED BY <3>1, <3>2
  <2>7. ASSUME NEW v \in Workers PROVE AskedBefore(v)' /\ HitAt(v)'
    <3>1. CASE v = w
      BY <2>2, <3>1, RankersAsk
    <3>2. CASE v # w
      BY <1>1, <2>1, <2>2, <3>2, NobodySelects DEF FreshInv, AskedBefore, HitAt
    <3> QED BY <3>1, <3>2
  <2> QED BY <2>5, <2>6, <2>7 DEF FreshInv
<1> QED BY <1>3, <1>4
-----------------------------------------------------------------------------
(* Rank commands have no part in this.                                     *)
LEMMA RankersMove ==
  ASSUME SInv, NEW w \in Others, RankClear(w) \/ Rank(w) \/ RankStop(w)
  PROVE  /\ UNCHANGED <<cache, sweeps, now, index>> /\ NoAnswer
         /\ work[w].step # "delete"
         /\ work'[w].step \in RankSteps \cup {"idle"}
         /\ \A v \in Workers \ {w} : work'[v] = work[v] \/ (Ranking(v) /\ Ranking(v)')
<1>1. w \in Workers
  BY DEF Workers
<1>2. CASE RankClear(w)
  <2>1. work' = [v \in Workers |->
                  IF v = w THEN [step |-> "degrees", alone |-> \A u \in Others \ {w} : ~Ranking(u)]
                  ELSE IF Ranking(v) THEN [work[v] EXCEPT !.alone = FALSE] ELSE work[v]]
        /\ work[w] = Idle /\ UNCHANGED <<cache, sweeps, now, index>> /\ NoAnswer
    BY <1>2 DEF RankClear, Asks, Takes, Busy
  <2>2. work'[w].step = "degrees"
    BY <1>1, <2>1
  <2>3. ASSUME NEW v \in Workers \ {w}, Ranking(v) PROVE Ranking(v)'
    <3>1. work'[v] = [work[v] EXCEPT !.alone = FALSE]
      BY <2>1, <2>3
    <3>2. work'[v].step = work[v].step
      BY <2>3, <3>1, RankWork DEF DegreesWork, EdgesWork, UpsertWork
    <3> QED BY <2>3, <3>2 DEF Ranking
  <2>4. \A v \in Workers \ {w} : work'[v] = work[v] \/ (Ranking(v) /\ Ranking(v)')
    BY <2>1, <2>3
  <2> QED BY <2>1, <2>2, <2>4, IdleFacts DEF RankSteps
<1>3. ASSUME NEW x, work' = [work EXCEPT ![w] = x], x.step \in RankSteps \cup {"idle"},
             Ranking(w), UNCHANGED <<cache, sweeps, now, index>>, NoAnswer
      PROVE  /\ UNCHANGED <<cache, sweeps, now, index>> /\ NoAnswer
             /\ work[w].step # "delete"
             /\ work'[w].step \in RankSteps \cup {"idle"}
             /\ \A v \in Workers \ {w} : work'[v] = work[v] \/ (Ranking(v) /\ Ranking(v)')
  BY <1>1, <1>3 DEF SInv, Ranking, RankSteps
<1>4. CASE RankDegrees(w)
  <2> DEFINE x == [step |-> "edges", alone |-> work[w].alone, degrees |-> index,
                   left |-> SymbolsAt(index)]
  <2>1. /\ work' = [work EXCEPT ![w] = x] /\ x.step = "edges" /\ work[w].step = "degrees"
        /\ UNCHANGED <<cache, sweeps, now, index>> /\ NoAnswer
    BY <1>1, <1>4 DEF RankDegrees, SInv
  <2> HIDE DEF x
  <2> QED BY <1>3, <2>1 DEF Ranking, RankSteps
<1>5. CASE RankEdges(w)
  <2> DEFINE x == [step |-> "upsert", alone |-> work[w].alone, left |-> work[w].left,
                   rank |-> [degrees |-> work[w].degrees, edges |-> index]]
  <2>1. /\ work' = [work EXCEPT ![w] = x] /\ x.step = "upsert" /\ work[w].step = "edges"
        /\ UNCHANGED <<cache, sweeps, now, index>> /\ NoAnswer
    BY <1>1, <1>5 DEF RankEdges, SInv
  <2> HIDE DEF x
  <2> QED BY <1>3, <2>1 DEF Ranking, RankSteps
<1>6. CASE RankStop(w)
  BY <1>3, <1>6, IdleFacts DEF RankStop
<1>7. CASE RankUpsert(w)
  <2>1. /\ work[w].step = "upsert" /\ Ranking(w) /\ work[w] \in UpsertWork
        /\ UNCHANGED <<cache, sweeps, now, index>> /\ NoAnswer
    BY <1>1, <1>7, WorkFacts DEF RankUpsert, Ranking, RankSteps, SInv
  <2>2. CASE work' = [work EXCEPT ![w] = Idle]
    BY <1>3, <2>1, <2>2, IdleFacts
  <2>3. ASSUME NEW s, work' = [work EXCEPT ![w].left = @ \ {s}]
        PROVE  \E x : work' = [work EXCEPT ![w] = x] /\ x.step = "upsert"
    <3> DEFINE x == [work[w] EXCEPT !.left = @ \ {s}]
    <3>1. work' = [work EXCEPT ![w] = x] /\ x.step = "upsert"
      BY <1>1, <2>1, <2>3 DEF SInv, UpsertWork
    <3> HIDE DEF x
    <3> QED BY <3>1
  <2>4. CASE \E x : work' = [work EXCEPT ![w] = x] /\ x.step = "upsert"
    <3>1. PICK x : work' = [work EXCEPT ![w] = x] /\ x.step = "upsert"
      BY <2>4
    <3> QED BY <1>3, <2>1, <3>1 DEF RankSteps
  <2> QED BY <1>7, <2>2, <2>3, <2>4 DEF RankUpsert
<1> QED BY <1>2, <1>4, <1>5, <1>6, <1>7 DEF Rank

LEMMA FreshRank ==
  ASSUME SInv, SInv', FreshInv, NEW w \in Others, RankClear(w) \/ Rank(w) \/ RankStop(w)
  PROVE  FreshInv'
<1>1. /\ UNCHANGED <<cache, sweeps, now, index>>
      /\ work[w].step # "delete"
      /\ work'[w].step \in RankSteps \cup {"idle"}
      /\ \A v \in Workers \ {w} : work'[v] = work[v] \/ (Ranking(v) /\ Ranking(v)')
  BY RankersMove
<1>2. AskedBefore(w)' /\ HitAt(w)' /\ work'[w].step # "delete"
  BY <1>1, RankersAsk DEF Ranking, RankSteps
<1> QED BY <1>1, <1>2, RequestMoves DEF Workers

LEMMA FreshNext == SInv /\ SInv' /\ FreshInv /\ [Next]_vars => FreshInv'
<1> SUFFICES ASSUME SInv, SInv', FreshInv, [Next]_vars PROVE FreshInv'
  OBVIOUS
<1>1. CASE Change \/ Tick \/ purge_expired \/ UNCHANGED vars
  BY <1>1, FreshWorld
<1>2. CASE Restart
  BY <1>2, FreshRestart
<1>3. ASSUME NEW w \in Workers, (\E q \in Requests : Ask(w, q)) \/ Handle(w) PROVE FreshInv'
  BY <1>3, FreshAsk, FreshLookup, FreshSelect, FreshTakeDb, FreshQuery, FreshStore, FreshDelete
     DEF Handle
<1>4. ASSUME NEW w \in Threads, Invalidate(w) PROVE FreshInv'
  BY <1>4, FreshInvalidate
<1>5. ASSUME NEW w \in Others, RankClear(w) \/ Rank(w) \/ RankStop(w) PROVE FreshInv'
  BY <1>5, FreshRank
<1> QED BY <1>1, <1>2, <1>3, <1>4, <1>5 DEF Next
-----------------------------------------------------------------------------
(* What a step answers.                                                    *)
LEMMA NoResult == ASSUME reply' = None PROVE StaleHasCause'
BY DEF StaleHasCause, IsResult

(* A query's own answer is of an index no older than the request.          *)
LEMMA FinishIsFresh ==
  ASSUME NEW w \in Workers, NEW read, Finish(w, read),
         work[w].asking.index \in Nat, read.from \in Nat, work[w].asking.index <= read.from
  PROVE  StaleHasCause'
<1>1. reply'.result.from = read.from /\ reply'.asking = work[w].asking
  BY DEF Finish, Answer, Result, ResultOf
<1>2. ~(reply'.result.from < reply'.asking.index)
  BY <1>1
<1> QED BY <1>2 DEF StaleHasCause

LEMMA AnswerOfQuery ==
  ASSUME SInv, FreshInv, NEW w \in Workers, Query(w) \/ Store(w) PROVE StaleHasCause'
<1>1. /\ work[w].step \in {"query", "store"} /\ work[w] \in RequestWork
      /\ Statements(Question(w)) \in Nat \ {0} /\ Request(w)
  BY RequestFacts DEF Query, Store, RequestSteps
<1>2. /\ index \in Nat /\ work[w].read.statements \in Nat /\ work[w].read.from \in Nat
      /\ work[w].asking.index \in Nat
  BY <1>1, NumbersOf DEF RequestWork, ReadType, AskingType
<1>3. /\ work[w].asking.index <= index
      /\ work[w].read.statements # 0 => work[w].asking.index <= work[w].read.from
  BY <1>1 DEF FreshInv, AskedBefore, RequestSteps
<1>4. CASE Query(w)
  <2>1. PICK read :
          /\ read.statements = work[w].read.statements + 1
          /\ read.from = IF read.statements = 1 THEN index ELSE work[w].read.from
          /\ \/ work' = [work EXCEPT ![w] = Idle] /\ Fails(w)
             \/ Finish(w, read) /\ Hides(w, read)
             \/ /\ \E to \in {"query", "store"} :
                     work' = [work EXCEPT ![w] = [@ EXCEPT !.read = read, !.step = to]]
                /\ NoAnswer /\ Hides(w, read)
    BY <1>4, QueryDoes
  <2>2. read.statements # 1 => work[w].read.statements # 0
    BY <1>2, <2>1
  <2>3. read.from \in Nat /\ work[w].asking.index <= read.from
    BY <1>2, <1>3, <2>1, <2>2
  <2>4. CASE Fails(w)
    BY <2>4, FailsIsNoResult DEF StaleHasCause
  <2>5. CASE Finish(w, read)
    BY <1>2, <2>3, <2>5, FinishIsFresh
  <2>6. CASE NoAnswer
    BY <2>6, NoResult DEF NoAnswer
  <2> QED BY <2>1, <2>4, <2>5, <2>6
<1>5. CASE Store(w)
  <2>1. Finish(w, work[w].read) /\ work[w].step = "store"
    BY <1>5 DEF Store
  <2>2. work[w].read.statements # 0
    BY <1>1, <2>1 DEF Request
  <2> QED BY <1>2, <1>3, <2>1, <2>2, FinishIsFresh
<1> QED BY <1>4, <1>5

(* A hit is a row that could be served.                                    *)
LEMMA AnswerOfCache ==
  ASSUME SInv, FreshInv, NEW w \in Workers, Select(w) PROVE StaleHasCause'
<1> DEFINE row == cache[make_key(Question(w))]
<1>1. /\ work[w].step = "select" /\ work[w].step \in RequestSteps
      /\ MayServe(row, work[w].asking)
  BY DEF Select, FreshInv, HitAt, RequestSteps
<1>2. /\ Question(w) \in Requests /\ Request(w) /\ make_key(Question(w)) \in Keys
      /\ HandlerOf(Question(w)).cached
  BY <1>1, RequestFacts DEF Request
<1>3. Question(w).over = "http"
  BY <1>2, Handled DEF Request
<1>4. row # None /\ row \in RowType /\ row.expires = row.stored + TTL
  BY <1>1, <1>2, NumbersOf DEF MayServe, RowType
<1>5. CASE reply' = Result(work[w].asking, row.result, Untouched(row.result.parts), row)
  <2>1. reply'.hit = row /\ reply'.asking = work[w].asking /\ reply'.asking.q = Question(w)
    BY <1>5 DEF Result, Question
  <2> HIDE DEF row
  <2>2. /\ work[w].asking.time < row.stored + TTL
        /\ Mentions(row) => work[w].asking.swept <= row.begun
    BY <1>1, <1>4 DEF MayServe
  <2> QED BY <1>2, <1>3, <1>4, <2>1, <2>2 DEF StaleHasCause
<1>6. CASE NoAnswer
  BY <1>6, NoResult DEF NoAnswer
<1> QED BY <1>5, <1>6 DEF Select, Answer

LEMMA StaleNext == SInv /\ FreshInv /\ StaleHasCause /\ [Next]_vars => StaleHasCause'
<1> SUFFICES ASSUME SInv, FreshInv, StaleHasCause, [Next]_vars PROVE StaleHasCause'
  OBVIOUS
<1>1. CASE Change \/ Tick \/ purge_expired \/ Restart
  BY <1>1, NoResult DEF Change, Tick, purge_expired, Restart, NoAnswer
<1>2. ASSUME NEW w \in Workers, NEW q \in Requests, Ask(w, q) PROVE StaleHasCause'
  <2>1. CASE Refused(q)
    <3>1. reply' = [asking |-> Asking(q), why |-> "refused", error |-> MissingCode(q)]
      BY <1>2, <2>1 DEF Ask, Error
    <3>2. "result" \notin DOMAIN reply'
      BY <3>1
    <3> QED BY <3>2 DEF StaleHasCause, IsResult
  <2>2. CASE ~Refused(q)
    BY <1>2, <2>2, NoResult DEF Ask, NoAnswer
  <2> QED BY <2>1, <2>2
<1>3. ASSUME NEW w \in Workers, Query(w) \/ Store(w) \/ Select(w) PROVE StaleHasCause'
  BY <1>3, AnswerOfQuery, AnswerOfCache
<1>4. ASSUME NEW w \in Workers, Lookup(w) \/ TakeDb(w) \/ DeleteOne(w) PROVE StaleHasCause'
  BY <1>4, NoResult DEF Lookup, TakeDb, DeleteOne, NoAnswer
<1>5. ASSUME NEW w \in Threads, Invalidate(w) PROVE StaleHasCause'
  BY <1>5, NoResult DEF Invalidate, NoAnswer
<1>6. ASSUME NEW w \in Others, RankClear(w) \/ Rank(w) \/ RankStop(w) PROVE StaleHasCause'
  BY <1>6, RankersMove, NoResult DEF NoAnswer
<1>7. CASE UNCHANGED vars
  BY <1>7 DEF vars, StaleHasCause, IsResult
<1> QED BY <1>1, <1>2, <1>3, <1>4, <1>5, <1>6, <1>7 DEF Next, Handle

(* Whatever the requests, the invalidations and the number of threads, an  *)
(* answer older than its request is from the cache, stored less than the   *)
(* TTL before, and not before an invalidation of its file that was over    *)
(* when the request was made had begun.                                    *)
THEOREM StaleIsExplained == Spec => []StaleHasCause
<1>1. Init => StaleHasCause
  BY DEF Init, StaleHasCause, IsResult
<1> QED BY <1>1, FreshInit, FreshNext, StaleNext, ServerInvariant, PTL DEF Spec
-----------------------------------------------------------------------------
(* What the strategies leave.                                              *)
LEMMA Strategy ==
  /\ Len(Strategies) = 4
  /\ Strategies[1] = "docstrings" /\ Strategies[2] = "signatures"
  /\ Strategies[3] = "details" /\ Strategies[4] = "rows"
BY DEF Strategies

LEMMA AfterThem ==
  ASSUME NEW parts
  PROVE  /\ After(0, parts) = parts
         /\ \A n \in 1 .. 4 : After(n - 1, parts)
                                = After(n, parts) \cup ({Strategies[n]} \cap parts)
         /\ After(4, parts) = parts \ {"docstrings", "signatures", "details", "rows"}
<1>1. After(0, parts) = parts
  <2>1. 1 .. 0 = {}
    OBVIOUS
  <2> QED BY <2>1 DEF After
<1>2. ASSUME NEW n \in 1 .. 4
      PROVE  After(n - 1, parts) = After(n, parts) \cup ({Strategies[n]} \cap parts)
  <2>1. \A i \in 1 .. n : i \in 1 .. n - 1 \/ i = n
    OBVIOUS
  <2>2. \A i \in 1 .. n - 1 : i \in 1 .. n /\ Strategies[i] # Strategies[n]
    <3>1. \A i \in 1 .. n - 1 : i \in {1, 2, 3} /\ i < n
      OBVIOUS
    <3>2. n \in {1, 2, 3, 4}
      OBVIOUS
    <3> QED BY <3>1, <3>2, Strategy
  <2>3. n \in 1 .. n
    OBVIOUS
  <2> QED BY <2>1, <2>2, <2>3 DEF After
<1>3. After(4, parts) = parts \ {"docstrings", "signatures", "details", "rows"}
  <2>1. 1 .. 4 = {1, 2, 3, 4}
    OBVIOUS
  <2> QED BY <2>1, Strategy DEF After
<1> QED BY <1>1, <1>2, <1>3

(* They are applied one after the other until the result fits.             *)
LEMMA AppliedIsFirst ==
  ASSUME NEW parts, NEW budget
  PROVE  /\ Applied(parts, budget) \in 0 .. 4
         /\ Stops(Applied(parts, budget), parts, budget)
         /\ \A m \in 0 .. Applied(parts, budget) - 1 : ~Stops(m, parts, budget)
<1> DEFINE S(n) == Stops(n, parts, budget)
<1>1. S(4)
  BY Strategy DEF Stops
<1> HIDE DEF S
<1>2. \E n \in 0 .. 4 : S(n) /\ \A m \in 0 .. n - 1 : ~S(m)
  <2>1. CASE S(0)
    <3>1. 0 .. 0 - 1 = {}
      OBVIOUS
    <3> QED BY <2>1, <3>1
  <2>2. CASE ~S(0) /\ S(1)
    <3>1. \A m \in 0 .. 1 - 1 : m = 0
      OBVIOUS
    <3> QED BY <2>2, <3>1
  <2>3. CASE ~S(0) /\ ~S(1) /\ S(2)
    <3>1. \A m \in 0 .. 2 - 1 : m = 0 \/ m = 1
      OBVIOUS
    <3> QED BY <2>3, <3>1
  <2>4. CASE ~S(0) /\ ~S(1) /\ ~S(2) /\ S(3)
    <3>1. \A m \in 0 .. 3 - 1 : m = 0 \/ m = 1 \/ m = 2
      OBVIOUS
    <3> QED BY <2>4, <3>1
  <2>5. CASE ~S(0) /\ ~S(1) /\ ~S(2) /\ ~S(3)
    <3>1. \A m \in 0 .. 4 - 1 : m = 0 \/ m = 1 \/ m = 2 \/ m = 3
      OBVIOUS
    <3> QED BY <1>1, <2>5, <3>1
  <2> QED BY <2>1, <2>2, <2>3, <2>4, <2>5
<1>3. \E n \in 0 .. Len(Strategies) : /\ Stops(n, parts, budget)
                                      /\ \A m \in 0 .. n - 1 : ~Stops(m, parts, budget)
  BY <1>2, Strategy DEF S
<1> QED BY <1>3, Strategy DEF Applied

(* What may be said of a result, given what it was before.                 *)
Over(q, parts) == get_token_budget(q) # NoBudget /\ estimate_json_tokens(parts) > get_token_budget(q)

Short(q, full, said) ==
  /\ Over(q, said.parts) => ~HandlerOf(q).budgeted \/ said.parts = {"rest"}
  /\ said.parts # full => /\ said.applied # "none"
                          /\ Over(q, said.parts \cup ({said.applied} \cap full))
                          /\ said.truncated <=> q.over = "stdio" \/ Over(q, said.parts)

LEMMA EnforcedIsShort ==
  ASSUME NEW q \in Requests, get_token_budget(q) # NoBudget, NEW full \in SUBSET Parts, "rest" \in full,
         NEW r, r = enforce_budget(full, get_token_budget(q))
  PROVE  /\ Over(q, r.parts) => r.parts = {"rest"}
         /\ r.parts # full => /\ r.applied # "none"
                              /\ Over(q, r.parts \cup ({r.applied} \cap full))
<1>1. PICK n \in 0 .. 4 : /\ n = Applied(full, get_token_budget(q))
                          /\ Stops(n, full, get_token_budget(q))
                          /\ \A m \in 0 .. n - 1 : ~Stops(m, full, get_token_budget(q))
  BY AppliedIsFirst
<1>2. r.parts = After(n, full) /\ r.applied = IF n = 0 THEN "none" ELSE Strategies[n]
  BY <1>1 DEF enforce_budget
<1>3. \A parts \in SUBSET full : estimate_json_tokens(parts) \in Nat
  BY TokensAreNat DEF estimate_json_tokens
<1>4. get_token_budget(q) \in Nat
  BY ServerAssumption
<1>5. Over(q, r.parts) => r.parts = {"rest"}
  <2>1. CASE n = 4
    <3>1. r.parts = full \ {"docstrings", "signatures", "details", "rows"}
      BY <1>2, <2>1, AfterThem
    <3> QED BY <3>1 DEF Parts
  <2>2. CASE n # 4
    <3>1. estimate_json_tokens(After(n, full)) <= get_token_budget(q)
      BY <1>1, <2>2, Strategy DEF Stops
    <3>2. estimate_json_tokens(After(n, full)) \in Nat
      BY <1>3 DEF After
    <3> QED BY <1>2, <1>4, <3>1, <3>2 DEF Over
  <2> QED BY <2>1, <2>2
<1>6. ASSUME r.parts # full
      PROVE  /\ r.applied # "none"
             /\ Over(q, r.parts \cup ({r.applied} \cap full))
  <2>1. n \in 1 .. 4 /\ n - 1 \in 0 .. n - 1
    <3>1. n # 0
      BY <1>2, <1>6, AfterThem
    <3> QED BY <3>1
  <2>2. r.applied = Strategies[n] /\ r.applied # "none"
    <3>1. n \in {1, 2, 3, 4}
      BY <2>1
    <3> QED BY <1>2, <3>1, Strategy
  <2>3. r.parts \cup ({r.applied} \cap full) = After(n - 1, full)
    BY <1>2, <2>1, <2>2, AfterThem
  <2>4. ~(estimate_json_tokens(After(n - 1, full)) <= get_token_budget(q))
    BY <1>1, <2>1 DEF Stops
  <2>5. estimate_json_tokens(After(n - 1, full)) \in Nat
    BY <1>3 DEF After
  <2> QED BY <1>4, <2>2, <2>3, <2>4, <2>5 DEF Over
<1> QED BY <1>5, <1>6

LEMMA BudgetedIsShort ==
  ASSUME NEW q \in Requests, NEW full \in SUBSET Parts, "rest" \in full,
         NEW said, said = Budgeted(q, full)
  PROVE  Short(q, full, said)
<1> DEFINE r == enforce_budget(full, get_token_budget(q))
<1>1. CASE said = Untouched(full) /\ (~HandlerOf(q).budgeted \/ get_token_budget(q) = NoBudget)
  BY <1>1 DEF Short, Over, Untouched, Reply
<1>2. ASSUME get_token_budget(q) # NoBudget
      PROVE  /\ Over(q, r.parts) => r.parts = {"rest"}
             /\ r.parts # full => /\ r.applied # "none"
                                  /\ Over(q, r.parts \cup ({r.applied} \cap full))
  BY <1>2, EnforcedIsShort
<1>3. CASE HandlerOf(q).budgeted /\ get_token_budget(q) # NoBudget
  <2>1. CASE q.over = "stdio"
    <3>1. said = Reply(r.parts, r.applied # "none", r.applied)
      BY <1>3, <2>1 DEF Budgeted, ok_with_budget
    <3> HIDE DEF r
    <3>2. /\ said.parts = r.parts /\ said.applied = r.applied
          /\ said.truncated <=> r.applied # "none"
      <4>1. CASE r.applied # "none"
        <5>1. said = Reply(r.parts, TRUE, r.applied)
          BY <3>1, <4>1
        <5> QED BY <4>1, <5>1 DEF Reply
      <4>2. CASE ~(r.applied # "none")
        <5>1. said = Reply(r.parts, FALSE, r.applied)
          BY <3>1, <4>2
        <5> QED BY <4>2, <5>1 DEF Reply
      <4> QED BY <4>1, <4>2
    <3> QED BY <1>2, <1>3, <2>1, <3>2 DEF Short
  <2>2. CASE q.over # "stdio"
    <3>1. said = Reply(r.parts, r.applied # "none" /\ Over(q, r.parts), r.applied)
      BY <1>3, <2>2 DEF Budgeted, apply_budget, Over
    <3> HIDE DEF r
    <3>2. /\ said.parts = r.parts /\ said.applied = r.applied
          /\ said.truncated <=> r.applied # "none" /\ Over(q, r.parts)
      <4>1. CASE r.applied # "none" /\ Over(q, r.parts)
        <5>1. said = Reply(r.parts, TRUE, r.applied)
          BY <3>1, <4>1
        <5> QED BY <4>1, <5>1 DEF Reply
      <4>2. CASE ~(r.applied # "none" /\ Over(q, r.parts))
        <5>1. said = Reply(r.parts, FALSE, r.applied)
          BY <3>1, <4>2
        <5> QED BY <4>2, <5>1 DEF Reply
      <4> QED BY <4>1, <4>2
    <3> QED BY <1>2, <1>3, <2>2, <3>2 DEF Short
  <2> QED BY <2>1, <2>2
<1>4. CASE ~HandlerOf(q).budgeted \/ get_token_budget(q) = NoBudget
  BY <1>1, <1>4 DEF Budgeted, ok_with_budget, apply_budget
<1> QED BY <1>3, <1>4
-----------------------------------------------------------------------------
(* What a step answers: nothing, an error, or a result of a query or of    *)
(* the cache.                                                              *)
Refuses(q) == Refused(q) /\ reply' = Error(Asking(q), "refused", MissingCode(q))

Answers(w) == \E read : Finish(w, read) /\ Hides(w, read)

Hits(w) == LET row == cache[make_key(Question(w))]
           IN /\ work[w].step = "select"
              /\ reply' = Result(work[w].asking, row.result, Untouched(row.result.parts), row)

Says == \/ reply' = None \/ reply' = reply
        \/ \E q \in Requests : Refuses(q)
        \/ \E w \in Workers : \/ work[w].step \in RequestSteps /\ (Fails(w) \/ Answers(w))
                              \/ Hits(w)

LEMMA WhatIsSaid == ASSUME SInv, [Next]_vars PROVE Says
<1>1. CASE Change \/ Tick \/ purge_expired \/ Restart
  BY <1>1 DEF Change, Tick, purge_expired, Restart, NoAnswer, Says
<1>2. ASSUME NEW w \in Workers, NEW q \in Requests, Ask(w, q) PROVE Says
  BY <1>2 DEF Ask, NoAnswer, Refuses, Says
<1>3. ASSUME NEW w \in Workers, Query(w) PROVE Says
  <2>1. work[w].step \in RequestSteps
    BY <1>3 DEF Query, RequestSteps
  <2>2. Fails(w) \/ Answers(w) \/ NoAnswer
    BY <1>3, QueryDoes DEF Answers
  <2> QED BY <2>1, <2>2 DEF Says, NoAnswer
<1>4. ASSUME NEW w \in Workers, Store(w) PROVE Says
  <2>1. work[w].step \in RequestSteps /\ Finish(w, work[w].read) /\ Hides(w, work[w].read)
    BY <1>4 DEF Store, Hides, RequestSteps
  <2> QED BY <2>1 DEF Says, Answers
<1>5. ASSUME NEW w \in Workers, Select(w) PROVE Says
  BY <1>5 DEF Select, Answer, NoAnswer, Hits, Says
<1>6. ASSUME NEW w \in Workers, Lookup(w) \/ TakeDb(w) \/ DeleteOne(w) PROVE Says
  BY <1>6 DEF Lookup, TakeDb, DeleteOne, NoAnswer, Says
<1>7. ASSUME NEW w \in Threads, Invalidate(w) PROVE Says
  BY <1>7 DEF Invalidate, NoAnswer, Says
<1>8. ASSUME NEW w \in Others, RankClear(w) \/ Rank(w) \/ RankStop(w) PROVE Says
  BY <1>8, RankersMove DEF NoAnswer, Says
<1>9. CASE UNCHANGED vars
  BY <1>9 DEF vars, Says
<1> QED BY <1>1, <1>2, <1>3, <1>4, <1>5, <1>6, <1>7, <1>8, <1>9 DEF Next, Handle

LEMMA RefusesIsNoResult ==
  ASSUME NEW q, Refuses(q)
  PROVE  /\ ~IsResult' /\ reply' # None /\ reply'.asking.q = q /\ reply'.why = "refused"
<1>1. reply' = [asking |-> Asking(q), why |-> "refused", error |-> MissingCode(q)]
  BY DEF Refuses, Error
<1>2. "result" \notin DOMAIN reply' /\ "why" \in DOMAIN reply' /\ "why" \notin DOMAIN None
  BY <1>1 DEF None
<1> QED BY <1>1, <1>2 DEF IsResult, Asking

LEMMA AnswersFacts ==
  ASSUME NEW w, NEW read, Finish(w, read)
  PROVE  /\ reply'.asking = work[w].asking /\ reply'.hit = None
         /\ reply'.result = ResultOf(Question(w), read)
         /\ reply'.said = Budgeted(Question(w), reply'.result.parts)
BY DEF Finish, Answer, Result

LEMMA PartsOfResult ==
  ASSUME SInv, NEW w \in Workers, work[w].step \in RequestSteps, NEW read
  PROVE  /\ ResultOf(Question(w), read).parts \in SUBSET Parts
         /\ "rest" \in ResultOf(Question(w), read).parts
<1>1. HandlerOf(Question(w)).parts \subseteq Parts /\ "rest" \in HandlerOf(Question(w)).parts
  BY RequestFacts DEF GoodHandler
<1> QED BY <1>1 DEF ResultOf, PartsOf, Parts

LEMMA ShortNext ==
  SInv /\ FreshInv /\ OverBudgetHasCause /\ [Next]_vars => OverBudgetHasCause'
<1> SUFFICES ASSUME SInv, FreshInv, OverBudgetHasCause, [Next]_vars PROVE OverBudgetHasCause'
  OBVIOUS
<1>1. CASE reply' = None \/ reply' = reply
  BY <1>1 DEF OverBudgetHasCause, IsResult
<1>2. ASSUME NEW q \in Requests, Refuses(q) PROVE OverBudgetHasCause'
  BY <1>2, RefusesIsNoResult DEF OverBudgetHasCause
<1>3. ASSUME NEW w \in Workers, Fails(w) PROVE OverBudgetHasCause'
  BY <1>3, FailsIsNoResult DEF OverBudgetHasCause
<1>4. ASSUME NEW w \in Workers, work[w].step \in RequestSteps, Answers(w)
      PROVE  OverBudgetHasCause'
  <2>1. PICK read : Finish(w, read)
    BY <1>4 DEF Answers
  <2>2. /\ Question(w) \in Requests /\ reply'.asking.q = Question(w)
        /\ reply'.said = Budgeted(Question(w), reply'.result.parts)
    BY <1>4, <2>1, AnswersFacts, RequestFacts DEF Question
  <2>3. reply'.result.parts \in SUBSET Parts /\ "rest" \in reply'.result.parts
    BY <1>4, <2>1, AnswersFacts, PartsOfResult
  <2>4. Short(Question(w), reply'.result.parts, reply'.said)
    BY <2>2, <2>3, BudgetedIsShort
  <2> QED BY <2>2, <2>4 DEF Short, Over, OverBudgetHasCause
<1>5. ASSUME NEW w \in Workers, Hits(w) PROVE OverBudgetHasCause'
  <2> DEFINE row == cache[make_key(Question(w))]
  <2>1. row # None
    BY <1>5 DEF Hits, FreshInv, HitAt, MayServe
  <2>2. reply' = Result(work[w].asking, row.result, Untouched(row.result.parts), row)
    BY <1>5 DEF Hits
  <2> HIDE DEF row
  <2>3. reply'.hit # None /\ reply'.said.parts = reply'.result.parts
    BY <2>1, <2>2 DEF Result, Untouched, Reply
  <2> QED BY <2>3 DEF OverBudgetHasCause
<1> QED BY <1>1, <1>2, <1>3, <1>4, <1>5, WhatIsSaid DEF Says

(* Whatever the texts, budgets and token counts, and whatever goes on in   *)
(* between: an answer over its budget is one of the cache, one of a method *)
(* without budgets, or has nothing left to remove; what was removed is     *)
(* said, was the least that the order of strategies allows, and is called  *)
(* truncated as the transport does.                                        *)
THEOREM OverBudgetIsExplained == Spec => []OverBudgetHasCause
<1>1. Init => OverBudgetHasCause
  BY DEF Init, OverBudgetHasCause, IsResult
<1> QED BY <1>1, FreshInit, FreshNext, ShortNext, ServerInvariant, PTL DEF Spec
-----------------------------------------------------------------------------
(* What the tables of the servers have in common.                          *)
MayHide == {"stats", "verify", "impact", "edit_plan", "impact_deep", "dead_code_verify",
            "cross_module_move", "signature_migration_check"}

LEMMA HttpHides ==
  ASSUME NEW m \in DOMAIN jsonrpc_handler, m \notin MayHide
  PROVE  jsonrpc_handler[m].hides = {}
<1>1. m \in {"read", "neighbors", "search"}
  BY DEF jsonrpc_handler, MayHide
<1> QED BY <1>1 DEF jsonrpc_handler, Handler, handle_read, handle_neighbors, handle_search

LEMMA StdioHides ==
  ASSUME NEW m \in DOMAIN handle_tools_call, m \notin MayHide
  PROVE  handle_tools_call[m].hides = {}
<1>1. m \in {"search", "list_file_symbols", "neighbors"}
  BY DEF handle_tools_call, MayHide
<1> QED BY <1>1 DEF handle_tools_call, Handler, tool_search, tool_list_file_symbols, tool_neighbors

LEMMA RestHides ==
  ASSUME NEW m \in DOMAIN create_router, m \notin MayHide
  PROVE  create_router[m].hides = {}
<1>1. m \in {"search", "neighbors"}
  BY DEF create_router, MayHide
<1> QED BY <1>1 DEF create_router, Handler, rest_search, rest_neighbors

LEMMA Hiders ==
  ASSUME NEW q \in Requests, ~Refused(q), HiddenFailures(q) # {}
  PROVE  q.method \in MayHide \/ Like(q)
<1>1. q.over \in {"http", "stdio", "rest"} /\ q.method \in DOMAIN Handlers[q.over]
  BY ServerAssumption DEF RequestType, Handlers, Refused, Unknown
<1>2. q.method \notin MayHide => HandlerOf(q).hides = {}
  <2>1. CASE q.over = "http"
    BY <1>1, <2>1, HttpHides DEF Handlers, HandlerOf
  <2>2. CASE q.over = "stdio"
    BY <1>1, <2>2, StdioHides DEF Handlers, HandlerOf
  <2>3. CASE q.over = "rest"
    BY <1>1, <2>3, RestHides DEF Handlers, HandlerOf
  <2> QED BY <1>1, <2>1, <2>2, <2>3
<1>3. WithStringRefs(q) => q.method \in MayHide
  BY DEF WithStringRefs, MayHide
<1> QED BY <1>2, <1>3 DEF HiddenFailures, StringRefs

(* tools/list and tools/call are of the same tools and parameters.         *)
LEMMA Listed ==
  /\ DOMAIN handle_tools_call = DOMAIN handle_tools_list
  /\ \A m \in DOMAIN handle_tools_list : handle_tools_call[m].needs = handle_tools_list[m]
<1>1. DOMAIN handle_tools_call = DOMAIN handle_tools_list
  BY DEF handle_tools_call, handle_tools_list
<1>2. ASSUME NEW m \in {"stats", "search", "list_file_symbols", "neighbors", "impact", "edit_plan"}
      PROVE  handle_tools_call[m].needs = handle_tools_list[m]
  BY <1>2 DEF handle_tools_call, handle_tools_list, Handler, tool_stats, tool_search,
     tool_list_file_symbols, tool_neighbors, tool_impact, tool_edit_plan
<1>3. ASSUME NEW m \in {"verify", "impact_deep", "dead_code_verify", "cross_module_move",
                        "signature_migration_check"}
      PROVE  handle_tools_call[m].needs = handle_tools_list[m]
  <2>1. CASE m \in {"verify", "impact_deep", "dead_code_verify"}
    BY <2>1 DEF handle_tools_call, handle_tools_list, Handler, tool_verify, tool_impact_deep,
       tool_dead_code_verify
  <2>2. CASE m \in {"cross_module_move", "signature_migration_check"}
    BY <2>2 DEF handle_tools_call, handle_tools_list, Handler, tool_cross_module_move,
       tool_signature_migration_check
  <2> QED BY <1>3, <2>1, <2>2
<1>4. \A m \in DOMAIN handle_tools_list :
        m \in {"stats", "search", "list_file_symbols", "neighbors", "impact", "edit_plan"}
        \/ m \in {"verify", "impact_deep", "dead_code_verify", "cross_module_move",
                  "signature_migration_check"}
  BY DEF handle_tools_list
<1> QED BY <1>1, <1>2, <1>3, <1>4

Unlisted(q) == \/ q.method \notin DOMAIN handle_tools_list
               \/ ~(handle_tools_list[q.method] \subseteq q.given)

LEMMA RefusedIsUnlisted ==
  ASSUME NEW q \in Requests, q.over = "stdio" PROVE Refused(q) <=> Unlisted(q)
BY Listed DEF Refused, Unknown, HandlerOf, Handlers, Unlisted

(* Of two ways to cut one sequence, the later cut has what is between them *)
(* in its first part, the earlier one in its second.                       *)
Between(a, p, b, r) ==
  \E n \in 0 .. Len(r) : a = b \o SubSeq(r, 1, n) /\ p = SubSeq(r, n + 1, Len(r))

LEMMA TwoCuts ==
  ASSUME NEW S, NEW a \in Seq(S), NEW p \in Seq(S), NEW b \in Seq(S), NEW r \in Seq(S),
         a \o p = b \o r, Len(b) <= Len(a)
  PROVE  Between(a, p, b, r)
<1> DEFINE n == Len(a) - Len(b)
<1>1. /\ Len(a) \in Nat /\ Len(p) \in Nat /\ Len(b) \in Nat /\ Len(r) \in Nat
      /\ Len(a) + Len(p) = Len(b) + Len(r)
  BY ConcatProperties, LenProperties
<1>2. n \in 0 .. Len(r) /\ Len(r) - n = Len(p) /\ n \in Int /\ Len(b) + n = Len(a)
  BY <1>1
<1> HIDE DEF n
<1>3. \A i \in 1 .. Len(a) + Len(p) :
        (IF i <= Len(a) THEN a[i] ELSE p[i - Len(a)])
          = (IF i <= Len(b) THEN b[i] ELSE r[i - Len(b)])
  <2>1. \A i \in 1 .. Len(a) + Len(p) : (a \o p)[i] = IF i <= Len(a) THEN a[i] ELSE p[i - Len(a)]
    BY ConcatProperties
  <2>2. \A i \in 1 .. Len(b) + Len(r) : (b \o r)[i] = IF i <= Len(b) THEN b[i] ELSE r[i - Len(b)]
    BY ConcatProperties
  <2> QED BY <1>1, <2>1, <2>2
<1> DEFINE first == SubSeq(r, 1, n)
           last  == SubSeq(r, n + 1, Len(r))
<1>4. /\ first \in Seq(S) /\ Len(first) = n
      /\ \A i \in 1 .. n : first[i] = r[i]
  <2>1. \A i \in 1 .. n : r[i] \in S
    BY <1>1, <1>2, ElementOfSeq
  <2>2. /\ first \in Seq(S)
        /\ Len(first) = IF 1 <= n THEN n - 1 + 1 ELSE 0
        /\ \A i \in 1 .. n - 1 + 1 : first[i] = r[1 + i - 1]
    BY <1>2, <2>1, SubSeqProperties
  <2> QED BY <1>2, <2>2
<1>5. /\ last \in Seq(S) /\ Len(last) = Len(p)
      /\ \A i \in 1 .. Len(p) : last[i] = r[n + i]
  <2>1. \A i \in n + 1 .. Len(r) : r[i] \in S
    BY <1>1, <1>2, ElementOfSeq
  <2>2. n + 1 \in Int /\ Len(r) \in Int
    BY <1>1, <1>2
  <2>3. /\ last \in Seq(S)
        /\ Len(last) = IF n + 1 <= Len(r) THEN Len(r) - (n + 1) + 1 ELSE 0
        /\ \A i \in 1 .. Len(r) - (n + 1) + 1 : last[i] = r[(n + 1) + i - 1]
    BY <2>1, <2>2, SubSeqProperties
  <2> QED BY <1>1, <1>2, <2>3
<1> HIDE DEF first, last
<1>6. a = b \o first
  <2>1. /\ b \o first \in Seq(S) /\ Len(b \o first) = Len(a)
        /\ \A i \in 1 .. Len(a) : (b \o first)[i] = IF i <= Len(b) THEN b[i] ELSE first[i - Len(b)]
    BY <1>2, <1>4, ConcatProperties
  <2>2. ASSUME NEW i \in 1 .. Len(a) PROVE a[i] = (b \o first)[i]
    <3>1. a[i] = IF i <= Len(b) THEN b[i] ELSE r[i - Len(b)]
      BY <1>1, <1>3
    <3>2. i > Len(b) => first[i - Len(b)] = r[i - Len(b)]
      BY <1>1, <1>2, <1>4
    <3> QED BY <1>1, <2>1, <3>1, <3>2
  <2> QED BY <2>1, <2>2, SeqEqual
<1>7. p = last
  <2>1. ASSUME NEW i \in 1 .. Len(p) PROVE p[i] = last[i]
    <3>1. p[i] = r[Len(a) + i - Len(b)]
      <4>1. /\ Len(a) + i \in 1 .. Len(a) + Len(p) /\ ~(Len(a) + i <= Len(a))
            /\ ~(Len(a) + i <= Len(b)) /\ (Len(a) + i) - Len(a) = i
        BY <1>1
      <4> QED BY <1>3, <4>1
    <3>2. Len(a) + i - Len(b) = n + i
      BY <1>1 DEF n
    <3> QED BY <1>5, <3>1, <3>2
  <2> QED BY <1>5, <2>1, SeqEqual
<1> QED BY <1>2, <1>6, <1>7 DEF first, last, Between

(* Requests with one key are the same but for quotes.                      *)
LEMMA SameKey ==
  ASSUME NEW of \in Requests, NEW q \in Requests, make_key(of) = make_key(q),
         of.over = "http", q.over = "http", HandlerOf(q).cached
  PROVE  SameButForQuotes(of, q)
<1>1. ASSUME NEW x \in Requests
      PROVE  x.tail \in Seq(Piece) /\ Params(x) \in Seq(Piece)
  <2>1. x \in RequestType
    BY ServerAssumption
  <2>2. ASSUME NEW name \in {"token_budget", "flag"}, NEW json \in [as : STRING, text : STRING]
        PROVE  Written(name, json) \in Seq(Piece)
    <3>1. [name |-> name, text |-> json.text] \in Piece
      BY DEF Piece
    <3> HIDE DEF Piece
    <3> QED BY <3>1 DEF Written
  <2>3. /\ Written("token_budget", x.token_budget) \in Seq(Piece)
        /\ Written("flag", x.flag) \in Seq(Piece)
    <3>1. /\ x.token_budget \in [as : STRING, text : STRING]
          /\ x.flag \in [as : STRING, text : STRING]
      BY <2>1 DEF RequestType
    <3> QED BY <2>2, <3>1
  <2> QED BY <2>1, <2>3, ConcatProperties DEF RequestType, Params
<1>2. /\ of.method = q.method /\ of.given = q.given /\ of.about = q.about
      /\ of.tail \o Params(of) = q.tail \o Params(q)
  BY DEF make_key, Key
<1>3. /\ of.tail \in Seq(Piece) /\ Params(of) \in Seq(Piece)
      /\ q.tail \in Seq(Piece) /\ Params(q) \in Seq(Piece)
  BY <1>1
<1>4. Len(of.tail) \in Nat /\ Len(q.tail) \in Nat
  BY <1>3, LenProperties
<1>5. CASE Len(q.tail) <= Len(of.tail)
  <2>1. of.tail \o Params(of) = q.tail \o Params(q)
    BY <1>2
  <2>2. HasAsText(of, q)
    <3>1. Between(of.tail, Params(of), q.tail, Params(q))
      BY <1>3, <1>5, <2>1, TwoCuts
    <3> QED BY <3>1 DEF Between, HasAsText
  <2> QED BY <1>2, <2>2 DEF SameButForQuotes
<1>6. CASE Len(of.tail) <= Len(q.tail)
  <2>1. q.tail \o Params(q) = of.tail \o Params(of)
    BY <1>2
  <2>2. HasAsText(q, of)
    <3>1. Between(q.tail, Params(q), of.tail, Params(of))
      BY <1>3, <1>6, <2>1, TwoCuts
    <3> QED BY <3>1 DEF Between, HasAsText
  <2> QED BY <1>2, <2>2 DEF SameButForQuotes
<1> QED BY <1>4, <1>5, <1>6
-----------------------------------------------------------------------------
(* A row is the result of an HTTP request with its key, and shows what a   *)
(* statement of that request may hide.                                     *)
OfItsKey(row, k) == row # None =>
  /\ make_key(row.result.of) = k
  /\ row.result.of \in Requests /\ ~Refused(row.result.of) /\ row.result.of.over = "http"
  /\ row.result.failed \subseteq HiddenFailures(row.result.of)

FailsAsItMay(w) == work[w].step \in RequestSteps =>
                     work[w].read.failed \subseteq HiddenFailures(Question(w))

FitInv == /\ \A k \in Keys : OfItsKey(cache[k], k)
          /\ \A w \in Workers : FailsAsItMay(w)

LEMMA FitInit == Init => FitInv
BY IdleFacts DEF Init, FitInv, OfItsKey, FailsAsItMay, RequestSteps

(* What a thread has read in a step.                                       *)
LEMMA ReadsOn ==
  ASSUME SInv, FitInv, NEW w \in Workers,
         \/ work'[w] = work[w]
         \/ work'[w].step \notin RequestSteps
         \/ /\ work[w].step \in RequestSteps /\ Question(w)' = Question(w)
            /\ Hides(w, work'[w].read)
         \/ work'[w].read = Blank
  PROVE  FailsAsItMay(w)'
BY DEF FitInv, FailsAsItMay, Question, Hides, Blank

LEMMA ThreadsRead == ASSUME SInv, FitInv, [Next]_vars, NEW v \in Workers PROVE FailsAsItMay(v)'
<1>1. CASE Change \/ Tick \/ purge_expired \/ UNCHANGED vars
  BY <1>1, ReadsOn DEF Change, Tick, purge_expired, vars
<1>2. CASE Restart
  BY <1>2, ReadsOn, IdleFacts DEF Restart, RequestSteps
<1>3. ASSUME NEW w \in Workers, NEW q \in Requests, Ask(w, q) PROVE FailsAsItMay(v)'
  <2>1. CASE UNCHANGED work
    BY <2>1, ReadsOn
  <2>2. CASE ~UNCHANGED work
    <3>1. \/ work'[v] = work[v]
          \/ work'[v].read = Blank
      BY <1>3, <2>2 DEF Ask, SInv
    <3> QED BY <3>1, ReadsOn
  <2> QED BY <2>1, <2>2
<1>4. ASSUME NEW w \in Workers, work[w].step \in RequestSteps,
             NEW to \in RequestSteps, Goes(w, to) PROVE FailsAsItMay(v)'
  <2>1. PICK x \in Work : /\ work' = [work EXCEPT ![w] = x] /\ work'[w] = x
                         /\ x \in RequestWork /\ x.step = to
                         /\ x.asking = work[w].asking /\ x.read = work[w].read
    BY <1>4, GoesOn
  <2>2. v # w => work'[v] = work[v]
    BY <2>1
  <2>3. Question(w)' = Question(w) /\ Hides(w, work'[w].read)
    BY <2>1 DEF Question, Hides
  <2> QED BY <1>4, <2>2, <2>3, ReadsOn
<1>5. ASSUME NEW w \in Workers, work' = [work EXCEPT ![w] = Idle] PROVE FailsAsItMay(v)'
  <2>1. work'[v] = work[v] \/ work'[v] = Idle
    BY <1>5 DEF SInv
  <2>2. Idle.step \notin RequestSteps
    BY IdleFacts DEF RequestSteps
  <2> QED BY <2>1, <2>2, ReadsOn
<1>6. ASSUME NEW w \in Workers, Lookup(w) \/ Select(w) \/ TakeDb(w) PROVE FailsAsItMay(v)'
  <2>1. work[w].step \in RequestSteps
    BY <1>6 DEF Lookup, Select, TakeDb, RequestSteps
  <2>2. (\E to \in RequestSteps : Goes(w, to)) \/ work' = [work EXCEPT ![w] = Idle]
    BY <1>6 DEF Lookup, Select, TakeDb, Answer, RequestSteps
  <2> QED BY <2>1, <2>2, <1>4, <1>5
<1>7. ASSUME NEW w \in Workers, Query(w) PROVE FailsAsItMay(v)'
  <2>1. work[w] \in RequestWork /\ work[w].step \in RequestSteps
    BY <1>7, RequestFacts DEF Query, RequestSteps
  <2>2. PICK read :
          \/ work' = [work EXCEPT ![w] = Idle]
          \/ /\ \E to \in {"query", "store"} :
                  work' = [work EXCEPT ![w] = [@ EXCEPT !.read = read, !.step = to]]
             /\ Hides(w, read)
    BY <1>7, QueryDoes DEF Finish, Answer
  <2>3. ASSUME NEW to \in {"query", "store"}, Hides(w, read),
               work' = [work EXCEPT ![w] = [@ EXCEPT !.read = read, !.step = to]]
        PROVE  FailsAsItMay(v)'
    <3>1. v # w => work'[v] = work[v]
      BY <2>3 DEF SInv
    <3>2. work'[w].asking = work[w].asking /\ work'[w].read = read
      BY <2>1, <2>3 DEF SInv, RequestWork
    <3>3. Question(w)' = Question(w) /\ Hides(w, work'[w].read)
      BY <2>3, <3>2 DEF Question
    <3> QED BY <2>1, <3>1, <3>3, ReadsOn
  <2> QED BY <1>5, <2>2, <2>3
<1>8. ASSUME NEW w \in Workers, Store(w) PROVE FailsAsItMay(v)'
  BY <1>5, <1>8 DEF Store, Finish, Answer
<1>9. ASSUME NEW w \in Workers, DeleteOne(w) PROVE FailsAsItMay(v)'
  <2>1. work[w].step = "delete" /\ work[w] \in DeleteWork
    BY <1>9, WorkFacts DEF DeleteOne, SInv
  <2>2. CASE work' = [work EXCEPT ![w] = Idle]
    BY <1>5, <2>2
  <2>3. ASSUME NEW k, work' = [work EXCEPT ![w].keys = @ \ {k}] PROVE FailsAsItMay(v)'
    <3>1. work'[v] = work[v] \/ work'[v].step = "delete"
      BY <2>1, <2>3 DEF SInv, DeleteWork
    <3> QED BY <3>1, ReadsOn DEF RequestSteps
  <2> QED BY <1>9, <2>2, <2>3 DEF DeleteOne
<1>10. ASSUME NEW w \in Threads, Invalidate(w) PROVE FailsAsItMay(v)'
  <2>1. work'[v] = work[v] \/ work'[v].step = "delete"
    BY <1>10 DEF Invalidate, SInv
  <2> QED BY <2>1, ReadsOn DEF RequestSteps
<1>11. ASSUME NEW w \in Others, RankClear(w) \/ Rank(w) \/ RankStop(w) PROVE FailsAsItMay(v)'
  <2>1. /\ work'[w].step \in RankSteps \cup {"idle"}
        /\ \A u \in Workers \ {w} : work'[u] = work[u] \/ (Ranking(u) /\ Ranking(u)')
    BY <1>11, RankersMove
  <2>2. work'[v] = work[v] \/ work'[v].step \in RankSteps \cup {"idle"}
    BY <2>1 DEF Ranking
  <2> QED BY <2>2, ReadsOn DEF RankSteps, RequestSteps
<1> QED BY <1>1, <1>2, <1>3, <1>6, <1>7, <1>8, <1>9, <1>10, <1>11 DEF Next, Handle

LEMMA RowsFit ==
  ASSUME SInv, FitInv, [Next]_vars, NEW k \in Keys PROVE OfItsKey(cache'[k], k)
<1>1. CASE cache'[k] = cache[k] \/ cache'[k] = None
  BY <1>1 DEF FitInv, OfItsKey
<1>2. ASSUME NEW w \in Workers, Store(w) PROVE OfItsKey(cache'[k], k)
  <2> DEFINE q == Question(w)
             row == [result |-> ResultOf(q, work[w].read),
                     expires |-> now + TTL, stored |-> now, begun |-> sweeps.begun]
  <2>1. work[w].step = "store" /\ (cache' = [cache EXCEPT ![make_key(q)] = row] \/ cache' = cache)
    BY <1>2 DEF Store
  <2>2. work[w].step \in RequestSteps /\ q \in Requests /\ Request(w)
    BY <2>1, RequestFacts DEF RequestSteps
  <2>3. ~Refused(q) /\ HandlerOf(q).cached /\ work[w].read.failed \subseteq HiddenFailures(q)
    BY <2>1, <2>2 DEF Request, FitInv, FailsAsItMay
  <2>4. q.over = "http"
    BY <2>2, <2>3, Handled
  <2>5. row.result.of = q /\ row.result.failed = work[w].read.failed
    BY DEF ResultOf
  <2> HIDE DEF q, row
  <2>6. OfItsKey(row, make_key(q))
    BY <2>2, <2>3, <2>4, <2>5 DEF OfItsKey
  <2>7. cache'[k] = cache[k] \/ (cache'[k] = row /\ k = make_key(q))
    BY <2>1 DEF SInv, RestType
  <2> QED BY <1>1, <2>6, <2>7
<1>3. ASSUME NEW w \in Workers, DeleteOne(w) PROVE cache'[k] = cache[k] \/ cache'[k] = None
  BY <1>3 DEF DeleteOne, SInv, RestType
<1>4. CASE purge_expired
  BY <1>1, <1>4 DEF purge_expired
<1>5. CASE Change \/ Tick \/ Restart \/ UNCHANGED vars
  BY <1>1, <1>5 DEF Change, Tick, Restart, vars
<1>6. ASSUME NEW w \in Workers,
             \/ \E q \in Requests : Ask(w, q)
             \/ Lookup(w) \/ Select(w) \/ TakeDb(w) \/ Query(w)
      PROVE  cache' = cache
  BY <1>6 DEF Ask, Lookup, Select, TakeDb, Query
<1>7. ASSUME NEW w \in Threads, Invalidate(w) PROVE cache' = cache
  BY <1>7 DEF Invalidate
<1>8. ASSUME NEW w \in Others, RankClear(w) \/ Rank(w) \/ RankStop(w) PROVE cache' = cache
  BY <1>8, RankersMove
<1> QED BY <1>1, <1>2, <1>3, <1>4, <1>5, <1>6, <1>7, <1>8 DEF Next, Handle

LEMMA FitNext == SInv /\ FitInv /\ [Next]_vars => FitInv'
BY ThreadsRead, RowsFit DEF FitInv

LEMMA ResultFits ==
  ASSUME SInv, NEW w \in Workers, work[w].step \in RequestSteps,
         NEW of \in Requests, ~Refused(of),
         of = Question(w) \/ (reply'.hit # None /\ SameButForQuotes(of, Question(w))),
         IsResult', reply'.asking = work[w].asking, reply'.result.of = of,
         reply'.result.failed \subseteq HiddenFailures(of)
  PROVE  AnswersTheQuestion'
<1> DEFINE q == Question(w)
<1>1. reply'.asking.q = q /\ q \in Requests /\ ~Refused(q)
  BY RequestFacts DEF Question, Request
<1> HIDE DEF q
<1>2. of = q \/ (reply'.hit # None /\ SameButForQuotes(of, q))
  BY DEF q
<1>3. q.over = "stdio" => ~Unlisted(q)
  BY <1>1, RefusedIsUnlisted
<1>4. reply'.result.failed # {} => q.method \in MayHide \/ Like(of)
  <2>1. of.method = q.method
    BY <1>2 DEF SameButForQuotes
  <2>2. HiddenFailures(of) # {} => of.method \in MayHide \/ Like(of)
    BY Hiders
  <2> QED BY <2>1, <2>2
<1> QED BY <1>1, <1>2, <1>3, <1>4 DEF AnswersTheQuestion, Unlisted, MayHide

LEMMA ErrorFits ==
  ASSUME NEW q \in Requests, ~IsResult', reply'.asking.q = q,
         reply'.why = "refused" <=> Refused(q)
  PROVE  AnswersTheQuestion'
BY RefusedIsUnlisted DEF AnswersTheQuestion, Unlisted

LEMMA QuestionNext ==
  SInv /\ FreshInv /\ FitInv /\ AnswersTheQuestion /\ [Next]_vars => AnswersTheQuestion'
<1> SUFFICES ASSUME SInv, FreshInv, FitInv, AnswersTheQuestion, [Next]_vars
             PROVE  AnswersTheQuestion'
  OBVIOUS
<1>1. CASE reply' = None \/ reply' = reply
  BY <1>1 DEF AnswersTheQuestion, IsResult
<1>2. ASSUME NEW q \in Requests, Refuses(q) PROVE AnswersTheQuestion'
  BY <1>2, RefusesIsNoResult, ErrorFits DEF Refuses
<1>3. ASSUME NEW w \in Workers, work[w].step \in RequestSteps, Fails(w)
      PROVE  AnswersTheQuestion'
  <2>1. Question(w) \in Requests /\ ~Refused(Question(w))
    BY <1>3, RequestFacts DEF Request
  <2>2. ~IsResult' /\ reply'.asking.q = Question(w) /\ reply'.why # "refused"
    BY <1>3, FailsIsNoResult DEF Question
  <2> QED BY <2>1, <2>2, ErrorFits
<1>4. ASSUME NEW w \in Workers, work[w].step \in RequestSteps, Answers(w)
      PROVE  AnswersTheQuestion'
  <2>1. PICK read : Finish(w, read) /\ Hides(w, read)
    BY <1>4 DEF Answers
  <2>2. IsResult' /\ reply'.asking = work[w].asking
        /\ reply'.result.of = Question(w) /\ reply'.result.failed = read.failed
    BY <2>1 DEF Finish, Answer, Result, ResultOf, IsResult, None
  <2>3. read.failed \subseteq HiddenFailures(Question(w))
    BY <1>4, <2>1 DEF Hides, FitInv, FailsAsItMay
  <2>4. Question(w) \in Requests /\ ~Refused(Question(w))
    BY <1>4, RequestFacts DEF Request
  <2> QED BY <1>4, <2>2, <2>3, <2>4, ResultFits
<1>5. ASSUME NEW w \in Workers, Hits(w) PROVE AnswersTheQuestion'
  <2> DEFINE k == make_key(Question(w))
             row == cache[k]
  <2>1. /\ work[w].step \in RequestSteps /\ k \in Keys /\ row # None
        /\ Question(w) \in Requests /\ ~Refused(Question(w)) /\ HandlerOf(Question(w)).cached
    BY <1>5, RequestFacts DEF Hits, FreshInv, HitAt, MayServe, RequestSteps, Request
  <2>2. Question(w).over = "http"
    BY <2>1, Handled
  <2>3. reply' = Result(work[w].asking, row.result, Untouched(row.result.parts), row)
    BY <1>5 DEF Hits
  <2>4. /\ make_key(row.result.of) = k
        /\ row.result.of \in Requests /\ ~Refused(row.result.of) /\ row.result.of.over = "http"
        /\ row.result.failed \subseteq HiddenFailures(row.result.of)
    BY <2>1 DEF FitInv, OfItsKey
  <2> HIDE DEF row
  <2>5. IsResult' /\ reply'.asking = work[w].asking /\ reply'.result = row.result
    BY <2>3 DEF Result, IsResult, None
  <2>6. SameButForQuotes(row.result.of, Question(w))
    BY <2>1, <2>2, <2>4, SameKey
  <2>7. reply'.hit # None
    BY <2>1, <2>3 DEF Result
  <2> QED BY <2>1, <2>4, <2>5, <2>6, <2>7, ResultFits
<1> QED BY <1>1, <1>2, <1>3, <1>4, <1>5, WhatIsSaid DEF Says

(* Whatever the requests, and whatever is stored, invalidated and dropped  *)
(* in between: an answer is one to the question, or it is a cached answer  *)
(* to a request that differs from it in nothing but quotes (see            *)
(* SameButForQuotes); a stdio server refuses what tools/list says it       *)
(* would, and nothing else; and failed statements are hidden by those      *)
(* methods alone that hide them, whether the answer is from the cache or   *)
(* not.                                                                    *)
THEOREM AnswersTheQuestionHolds == Spec => []AnswersTheQuestion
<1>1. Init => AnswersTheQuestion
  BY DEF Init, AnswersTheQuestion
<1> QED BY <1>1, FreshInit, FreshNext, FitInit, FitNext, QuestionNext, ServerInvariant, PTL DEF Spec
============================================================================
