---------------------------- MODULE SearchIndex ----------------------------
(***************************************************************************)
(* SearchIndex (storage/seachindex/elasticsearch).  Concurrent calls of    *)
(* IndexRecord check for today's index, create it when it is missing,      *)
(* index a record and refresh the index, while Search asks all the days'   *)
(* indices.  Nothing synchronises the calls, and the code looks at the     *)
(* response of some requests and ignores that of others.                   *)
(*                                                                         *)
(* The cluster is external.  It answers each request, refuses it with an   *)
(* error status, or is not reached (the client returns an error, though    *)
(* the cluster may have acted).  An index is "mapped" when it was created  *)
(* with the properties the caller of IndexRecord gave, "fixed" with those  *)
(* of CreateIndexWithMapping, "dynamic" when the cluster created it by     *)
(* itself to store a document.                                             *)
(***************************************************************************)
EXTENDS Naturals, FiniteSets

CONSTANTS
  Indexers,   \* calls of IndexRecord
  Records,    \* record identifiers
  Searchers,  \* calls of Search
  Queries,    \* queryParams of those calls: sets of parameters
  Size,       \* how many hits a search asks for (1000)
  MaxDay      \* bound: days that pass

\* A query parameter: the type of its value, and the records whose field
\* satisfies it.
Kinds == {"string", "[]string", "map", "float64", "int"}
Params == [kind : Kinds, keeps : SUBSET Records]

ASSUME MaxDayAssumption == MaxDay \in Nat \ {0}
ASSUME SizeAssumption == Size \in Nat
ASSUME QueriesAssumption == Queries \subseteq SUBSET Params

VARIABLES
  today,      \* the day time.Now() falls on
  service,    \* NewSearchIndex: "new", then "ready", "failed" or "panic"
  index,      \* index[d]: the index of day d: "absent", "mapped", ...
  docs,       \* docs[d]: records stored in the index of day d
  searchable, \* searchable[d]: those of them a search finds
  pc,         \* where each call is
  day,        \* the day in the call's indexName
  record,     \* the call's recordId
  result,     \* what the call returned: "none" until then, "nil" or "err"
  troubled,   \* history: some request failed or was refused wrongly
  query,      \* the queryParams of each search
  answer,     \* what it returned: "none" until then, "asking", "hits", ...
  hits,       \* the hits it returned, each a day (_index) and a record
  shown,      \* history: what nil was returned for, the refresh accepted
  promised    \* history: what was shown when each search began

cluster == <<index, docs, searchable>>
call == <<pc, day, record, result>>
search == <<query, answer, hits, promised>>
vars == <<today, service, cluster, call, troubled, shown, search>>

Days == 1..MaxDay
Pairs == Days \X Records
Steps == {"idle", "check", "create", "index", "refresh", "done"}

Init ==
  /\ today = 1
  /\ service = "new"
  /\ index = [d \in Days |-> "absent"]
  /\ docs = [d \in Days |-> {}]
  /\ searchable = [d \in Days |-> {}]
  /\ pc = [i \in Indexers |-> "idle"]
  /\ day = [i \in Indexers |-> 1]
  /\ record \in [Indexers -> Records]
  /\ result = [i \in Indexers |-> "none"]
  /\ troubled = FALSE
  /\ query \in [Searchers -> Queries]
  /\ answer = [s \in Searchers |-> "none"]
  /\ hits = [s \in Searchers |-> {}]
  /\ shown = {}
  /\ promised = [s \in Searchers |-> {}]

Proceed(i, from, to) ==
  /\ pc[i] = from
  /\ pc' = [pc EXCEPT ![i] = to]
  /\ UNCHANGED <<today, service, day, record, result, search>>

Return(i, from, value) ==
  /\ pc[i] = from
  /\ pc' = [pc EXCEPT ![i] = "done"]
  /\ result' = [result EXCEPT ![i] = value]
  /\ UNCHANGED <<today, service, day, record, search>>

Smoothly == UNCHANGED <<troubled, shown>>

Trouble == troubled' = TRUE /\ UNCHANGED shown

-----------------------------------------------------------------------------
\* The cluster's description is decoded.  That of an error response has no
\* "version", and the type assertion panics.
NewSearchIndex ==
  /\ service = "new"
  /\ service' \in {"ready", "failed", "panic"}
  /\ UNCHANGED <<today, cluster, call, troubled, shown, search>>

\* An index is created beforehand under a name the daily scheme also uses.
\* Any other response is an error to the caller and creates nothing.
CreateIndexWithMapping(d) ==
  /\ service = "ready"
  /\ index[d] = "absent"
  /\ index' = [index EXCEPT ![d] = "fixed"]
  /\ UNCHANGED <<today, service, docs, searchable, call, troubled, shown,
                 search>>

\* indexName is fixed here, with the day the call began on.
IndexRecord(i) ==
  /\ service = "ready"
  /\ pc[i] = "idle"
  /\ pc' = [pc EXCEPT ![i] = "check"]
  /\ day' = [day EXCEPT ![i] = today]
  /\ UNCHANGED <<today, service, cluster, record, result, troubled, shown,
                 search>>

\* checkIndex: the answer is right at the moment it is given.
CheckIndex(i) ==
  /\ Proceed(i, "check",
             IF index[day[i]] = "absent" THEN "create" ELSE "index")
  /\ Smoothly
  /\ UNCHANGED cluster

\* Any status but 200 counts as "does not exist".
CheckRefused(i) ==
  /\ Proceed(i, "check", "create")
  /\ Trouble
  /\ UNCHANGED cluster

CheckUnreachable(i) ==
  /\ Return(i, "check", "err")
  /\ Trouble
  /\ UNCHANGED cluster

\* Fault: an existing index is deleted and created anew.
CreateAnew(i) ==
  /\ Proceed(i, "create", "index")
  /\ index' = [index EXCEPT ![day[i]] = "mapped"]
  /\ docs' = [docs EXCEPT ![day[i]] = {}]
  /\ Smoothly
  /\ UNCHANGED searchable

CreateIndex(i) ==
  /\ index[day[i]] = "absent"
  /\ Proceed(i, "create", "index")
  /\ index' = [index EXCEPT ![day[i]] = "mapped"]
  /\ Smoothly
  /\ UNCHANGED <<docs, searchable>>

\* Fault: createIndex returns an error when the response is one.
CreateExistingFails(i) ==
  /\ index[day[i]] # "absent"
  /\ Return(i, "create", "err")
  /\ Smoothly
  /\ UNCHANGED cluster

\* The index exists by now, and the cluster says so with an error status.
\* createIndex logs "Index created successfully" and goes on.
CreateExisting(i) ==
  /\ index[day[i]] # "absent"
  /\ Proceed(i, "create", "index")
  /\ Smoothly
  /\ UNCHANGED cluster

\* The mapping is invalid or the request refused: same log, same way on.
CreateRefused(i) ==
  /\ Proceed(i, "create", "index")
  /\ Trouble
  /\ UNCHANGED cluster

CreateUnreachable(i) ==
  /\ Return(i, "create", "err")
  /\ index' \in {index, [index EXCEPT ![day[i]] =
                           IF @ = "absent" THEN "mapped" ELSE @]}
  /\ Trouble
  /\ UNCHANGED <<docs, searchable>>

\* The cluster stores a document, creating its index if there is none.
StoreDocument(i) ==
  /\ docs' = [docs EXCEPT ![day[i]] = @ \cup {record[i]}]
  /\ index' = [index EXCEPT ![day[i]] = IF @ = "absent" THEN "dynamic"
                                                       ELSE @]
  /\ UNCHANGED searchable

IndexDocument(i) ==
  /\ Proceed(i, "index", "refresh")
  /\ StoreDocument(i)
  /\ Smoothly

\* Fault: the response of the index request is not looked at.
IndexRefusedUnseen(i) ==
  /\ Proceed(i, "index", "refresh")
  /\ Trouble
  /\ UNCHANGED cluster

\* The item cannot be marshalled, or the document is rejected.
IndexRefused(i) ==
  /\ Return(i, "index", "err")
  /\ Trouble
  /\ UNCHANGED cluster

IndexUnreachable(i) ==
  /\ Return(i, "index", "err")
  /\ StoreDocument(i) \/ UNCHANGED cluster
  /\ Trouble

MakeSearchable(d) ==
  /\ searchable' = [searchable EXCEPT ![d] = docs[d]]
  /\ UNCHANGED <<index, docs>>

Refresh(i) ==
  /\ Return(i, "refresh", "nil")
  /\ MakeSearchable(day[i])
  /\ shown' = shown \cup {<<day[i], record[i]>>}
  /\ UNCHANGED troubled

\* The response is discarded: an error status is no error.
RefreshRefused(i) ==
  /\ Return(i, "refresh", "nil")
  /\ Trouble
  /\ UNCHANGED cluster

RefreshUnreachable(i) ==
  /\ Return(i, "refresh", "err")
  /\ MakeSearchable(day[i]) \/ UNCHANGED cluster
  /\ Trouble

-----------------------------------------------------------------------------
(***************************************************************************)
(* Search.                                                                 *)
(***************************************************************************)

\* buildSearchQuery: one clause for each parameter, or none at all when a
\* value has any other type, as an int does.
Clause == [k \in {"string", "[]string", "map", "float64"} |->
             CASE k = "string"   -> "match"
               [] k = "[]string" -> "terms"
               [] k = "map"      -> "range"
               [] k = "float64"  -> "term"]

BuildSearchQuery(q) == {[clause |-> Clause[p.kind], keeps |-> p.keeps] :
                          p \in {x \in q : x.kind \in DOMAIN Clause}}

QueryFails(q) == \E p \in q : p.kind \notin DOMAIN Clause

\* All clauses must hold.  The values of "terms" are compared as they are,
\* which only the caller's mapping is made for.
Satisfies(r, q) == \A c \in BuildSearchQuery(q) : r \in c.keeps

Unsure(d, q) ==
  /\ index[d] # "mapped"
  /\ \E c \in BuildSearchQuery(q) : c.clause = "terms"

\* Fault: only the index of the day is searched.
FoundToday(q) ==
  {<<today, r>> : r \in {x \in searchable[today] : Satisfies(x, q)}}

\* base-* stands for the indices of all days.
Found(q) ==
  {x \in Pairs : x[2] \in searchable[x[1]] /\ Satisfies(x[2], q)}

SearchReturns(s, value) ==
  /\ answer' = [answer EXCEPT ![s] = value]
  /\ UNCHANGED <<today, service, cluster, call, troubled, shown, query>>

Search(s) ==
  /\ service = "ready"
  /\ answer[s] = "none"
  /\ SearchReturns(s, IF QueryFails(query[s]) THEN "err" ELSE "asking")
  /\ promised' = [promised EXCEPT ![s] = shown]
  /\ UNCHANGED hits

\* At most Size hits come back; which ones, the sort field decides.
SearchAnswered(s) ==
  /\ answer[s] = "asking"
  /\ SearchReturns(s, "hits")
  /\ \E H \in SUBSET Found(query[s]) :
       /\ Cardinality(H) <= Size
       /\ \/ Cardinality(H) = Size
          \/ \A x \in Found(query[s]) \ H : Unsure(x[1], query[s])
       /\ hits' = [hits EXCEPT ![s] = H]
  /\ UNCHANGED promised

\* Some shards fail or time out: the status is 200 all the same, and the
\* code does not look at what the response says about them.
SearchAnsweredInPart(s) ==
  /\ answer[s] = "asking"
  /\ SearchReturns(s, "part")
  /\ \E H \in SUBSET Found(query[s]) :
       /\ Cardinality(H) <= Size
       /\ hits' = [hits EXCEPT ![s] = H]
  /\ UNCHANGED promised

\* An error response whose body has no "error" object, as a gateway or the
\* service's authorisation sends it, makes the type assertion panic.
SearchRefused(s) ==
  /\ answer[s] = "asking"
  /\ \E value \in {"err", "panic"} : SearchReturns(s, value)
  /\ UNCHANGED <<hits, promised>>

-----------------------------------------------------------------------------
\* The cluster refreshes an index by itself, every second by default.
PeriodicRefresh(d) ==
  /\ searchable[d] # docs[d]
  /\ MakeSearchable(d)
  /\ UNCHANGED <<today, service, call, troubled, shown, search>>

Midnight ==
  /\ today < MaxDay
  /\ today' = today + 1
  /\ UNCHANGED <<service, cluster, call, troubled, shown, search>>

Call(i) ==
  \/ IndexRecord(i)
  \/ CheckIndex(i)
  \/ CheckRefused(i)
  \/ CheckUnreachable(i)
  \/ CreateIndex(i)
  \/ CreateExisting(i)
  \/ CreateRefused(i)
  \/ CreateUnreachable(i)
  \/ IndexDocument(i)
  \/ IndexRefused(i)
  \/ IndexUnreachable(i)
  \/ Refresh(i)
  \/ RefreshRefused(i)
  \/ RefreshUnreachable(i)

SearchStep(s) ==
  \/ Search(s)
  \/ SearchAnswered(s)
  \/ SearchAnsweredInPart(s)
  \/ SearchRefused(s)

Next ==
  \/ NewSearchIndex
  \/ \E i \in Indexers : Call(i)
  \/ \E s \in Searchers : SearchStep(s)
  \/ \E d \in Days : CreateIndexWithMapping(d) \/ PeriodicRefresh(d)
  \/ Midnight

Spec == Init /\ [][Next]_vars

\* The periodic refresh of the cluster never stops.
FairSpec == Spec /\ \A d \in Days : WF_vars(PeriodicRefresh(d))

-----------------------------------------------------------------------------
(***************************************************************************)
(* Properties.                                                             *)
(***************************************************************************)

\* Types; a search finds only what is stored, and only an index stores.
TypeOK ==
  /\ today \in Days
  /\ service \in {"new", "ready", "failed", "panic"}
  /\ index \in [Days -> {"absent", "mapped", "fixed", "dynamic"}]
  /\ docs \in [Days -> SUBSET Records]
  /\ searchable \in [Days -> SUBSET Records]
  /\ \A d \in Days : /\ searchable[d] \subseteq docs[d]
                     /\ index[d] = "absent" => docs[d] = {}
  /\ pc \in [Indexers -> Steps]
  /\ day \in [Indexers -> Days]
  /\ record \in [Indexers -> Records]
  /\ result \in [Indexers -> {"none", "nil", "err"}]
  /\ troubled \in BOOLEAN
  /\ query \in [Searchers -> Queries]
  /\ answer \in
       [Searchers -> {"none", "asking", "hits", "part", "err", "panic"}]
  /\ hits \in [Searchers -> SUBSET Pairs]
  /\ shown \subseteq Pairs
  /\ promised \in [Searchers -> SUBSET shown]

\* A call that returned nil stored its record in the index of its day,
\* whatever became of the creation and the refresh.
ReportedIsStored ==
  \A i \in Indexers : result[i] = "nil" => record[i] \in docs[day[i]]

\* Check-then-create is not atomic, but the race alone does no harm: while
\* no request fails, no call returns an error, no index lacks its mapping
\* and every reported record is searchable.  (Because createIndex ignores
\* the answer "already exists" the loser of the race gets.)
RaceIsHarmless ==
  ~troubled =>
    /\ \A i \in Indexers : result[i] # "err"
    /\ \A d \in Days : index[d] # "dynamic"
    /\ \A i \in Indexers : result[i] = "nil" =>
                             record[i] \in searchable[day[i]]

\* A reported record is searchable in the end, even if the refresh was
\* refused.
ReportedBecomesSearchable ==
  \A i \in Indexers :
    result[i] = "nil" ~> record[i] \in searchable[day[i]]

\* What had been reported, with its refresh accepted, before a search began
\* is among the hits when it meets the query, on whatever day it was indexed
\* and whatever the other calls do; unless the hits are as many as a search
\* returns, the cluster answered in part, or the index lacks the mapping.
\* And every hit is a stored record, with the index it is stored in.
SearchFindsReported ==
  \A s \in Searchers :
    /\ \A x \in hits[s] : x[2] \in docs[x[1]]
    /\ answer[s] = "hits" /\ Cardinality(hits[s]) # Size =>
         \A x \in promised[s] :
           index[x[1]] = "mapped" /\ Satisfies(x[2], query[s]) =>
             x \in hits[s]
=============================================================================
