------------------------- MODULE SearchIndexProofs -------------------------
(***************************************************************************)
(* Safety of SearchIndex, for every set of calls, records, searches and    *)
(* queries, every number of days and every number of hits asked for.       *)
(***************************************************************************)
EXTENDS SearchIndex, TLAPS

-----------------------------------------------------------------------------
(***************************************************************************)
(* The inductive invariant.                                                *)
(***************************************************************************)

ClusterOK ==
  /\ index \in [Days -> {"absent", "mapped", "fixed", "dynamic"}]
  /\ docs \in [Days -> SUBSET Records]
  /\ searchable \in [Days -> SUBSET Records]
  /\ \A d \in Days : /\ searchable[d] \subseteq docs[d]
                     /\ index[d] = "absent" => docs[d] = {}

CallsOK ==
  /\ pc \in [Indexers -> Steps]
  /\ day \in [Indexers -> Days]
  /\ record \in [Indexers -> Records]
  /\ result \in [Indexers -> {"none", "nil", "err"}]
  /\ troubled \in BOOLEAN

SearchesOK ==
  /\ query \in [Searchers -> Queries]
  /\ answer \in
       [Searchers -> {"none", "asking", "hits", "part", "err", "panic"}]
  /\ hits \in [Searchers -> SUBSET Pairs]
  /\ shown \subseteq Pairs
  /\ promised \in [Searchers -> SUBSET shown]

ClockOK == today \in Days /\ service \in {"new", "ready", "failed", "panic"}

\* A call that got as far as the refresh has stored its record; one that has
\* not returned has no result.
Stored ==
  \A i \in Indexers :
    /\ pc[i] # "done" => result[i] = "none"
    /\ pc[i] = "refresh" \/ result[i] = "nil" => record[i] \in docs[day[i]]

\* While no request fails, a call stores only where there is an index.
NoTrouble ==
  ~troubled =>
    /\ \A i \in Indexers :
         /\ result[i] # "err"
         /\ pc[i] = "index" => index[day[i]] # "absent"
         /\ result[i] = "nil" => record[i] \in searchable[day[i]]
    /\ \A d \in Days : index[d] # "dynamic"

CallInv == CallsOK /\ Stored /\ NoTrouble

\* What was shown stays searchable.
ShownIsSearchable == \A x \in shown : x[2] \in searchable[x[1]]

SearchInv == SearchesOK /\ ShownIsSearchable /\ SearchFindsReported

IInv == ClockOK /\ ClusterOK /\ CallInv /\ SearchInv

LEMMA InvImplies ==
  ASSUME IInv
  PROVE  TypeOK /\ ReportedIsStored /\ RaceIsHarmless /\ SearchFindsReported
<1>1. TypeOK
  BY DEF IInv, ClockOK, ClusterOK, CallInv, CallsOK, SearchInv, SearchesOK, TypeOK
<1>2. ReportedIsStored
  BY DEF IInv, CallInv, Stored, ReportedIsStored
<1>3. RaceIsHarmless
  BY DEF IInv, CallInv, NoTrouble, RaceIsHarmless
<1>4. QED
  BY <1>1, <1>2, <1>3 DEF IInv, SearchInv

LEMMA InitEstablishes == Init => IInv
<1> SUFFICES ASSUME Init PROVE IInv
  OBVIOUS
<1>1. ClockOK /\ ClusterOK
  BY MaxDayAssumption DEF Init, ClockOK, ClusterOK, Days
<1>2. CallInv
  <2>1. CallsOK
    <3>1. 1 \in Days
      BY MaxDayAssumption DEF Days
    <3>2. QED
      BY <3>1 DEF Init, CallsOK, Steps
  <2>2. Stored /\ NoTrouble
    BY DEF Init, Stored, NoTrouble
  <2>3. QED
    BY <2>1, <2>2 DEF CallInv
<1>3. SearchInv
  BY DEF Init, SearchInv, SearchesOK, ShownIsSearchable, SearchFindsReported
<1>4. QED
  BY <1>1, <1>2, <1>3 DEF IInv

-----------------------------------------------------------------------------
(***************************************************************************)
(* The cluster forgets nothing: every step of it keeps what is stored,     *)
(* what is searchable and the mapping of an index that exists.             *)
(***************************************************************************)
Grows ==
  \A d \in Days : /\ docs[d] \subseteq docs'[d]
                  /\ searchable[d] \subseteq searchable'[d]
                  /\ index[d] # "absent" => index'[d] = index[d]

CreatesIndex(d, kind) ==
  /\ index[d] = "absent"
  /\ index' = [index EXCEPT ![d] = kind]
  /\ UNCHANGED <<docs, searchable>>

LEMMA CreationGrows ==
  ASSUME ClusterOK, NEW d \in Days, NEW kind \in {"mapped", "fixed"},
         CreatesIndex(d, kind)
  PROVE  ClusterOK' /\ Grows
  BY DEF ClusterOK, CreatesIndex, Grows

LEMMA StoringGrows ==
  ASSUME ClusterOK, CallsOK, NEW i \in Indexers, StoreDocument(i)
  PROVE  /\ ClusterOK' /\ Grows
         /\ record[i] \in docs'[day[i]]
         /\ index[day[i]] # "absent" => index' = index
<1>1. record[i] \in Records /\ day[i] \in Days
  BY DEF CallsOK
<1>2. \A d \in Days :
        /\ docs'[d] = IF d = day[i] THEN docs[d] \cup {record[i]} ELSE docs[d]
        /\ index'[d] = IF d = day[i] /\ index[d] = "absent" THEN "dynamic"
                                                            ELSE index[d]
  BY DEF ClusterOK, StoreDocument
<1>3. ClusterOK'
  BY <1>1, <1>2 DEF ClusterOK, StoreDocument
<1>4. Grows /\ record[i] \in docs'[day[i]]
  BY <1>1, <1>2 DEF Grows, StoreDocument
<1>5. index[day[i]] # "absent" => index' = index
  BY <1>1 DEF ClusterOK, StoreDocument
<1>6. QED
  BY <1>3, <1>4, <1>5

LEMMA RefreshingGrows ==
  ASSUME ClusterOK, NEW d \in Days, MakeSearchable(d)
  PROVE  ClusterOK' /\ Grows /\ index' = index /\ searchable'[d] = docs[d]
  BY DEF ClusterOK, MakeSearchable, Grows

LEMMA IdleGrows ==
  ASSUME ClusterOK, UNCHANGED cluster
  PROVE  ClusterOK' /\ Grows
  BY DEF ClusterOK, cluster, Grows

-----------------------------------------------------------------------------
(***************************************************************************)
(* Growth disturbs neither the searches nor the calls.                     *)
(***************************************************************************)
LEMMA GrowthKeepsSearches ==
  ASSUME ClusterOK, SearchInv, Grows, UNCHANGED search,
         shown' \subseteq Pairs, shown \subseteq shown',
         \A x \in shown' \ shown : x[2] \in searchable'[x[1]]
  PROVE  SearchInv'
<1>1. SearchesOK'
  BY DEF SearchInv, SearchesOK, search
<1>2. ShownIsSearchable'
  BY DEF SearchInv, SearchesOK, ShownIsSearchable, Grows, Pairs
<1>3. SearchFindsReported'
  <2> SUFFICES ASSUME NEW s \in Searchers
               PROVE  /\ \A x \in hits[s] : x[2] \in docs'[x[1]]
                      /\ answer[s] = "hits" /\ Cardinality(hits[s]) # Size =>
                           \A x \in promised[s] :
                             index'[x[1]] = "mapped" /\ Satisfies(x[2], query[s])
                               => x \in hits[s]
    BY DEF search, SearchFindsReported, Satisfies, BuildSearchQuery
  <2>1. \A x \in hits[s] : x[2] \in docs'[x[1]]
    BY DEF SearchInv, SearchesOK, SearchFindsReported, Grows, Pairs
  <2>2. \A x \in promised[s] : index'[x[1]] = index[x[1]]
    <3>1. \A x \in promised[s] : x \in Pairs /\ x[2] \in searchable[x[1]]
      BY DEF SearchInv, SearchesOK, ShownIsSearchable
    <3>2. \A x \in promised[s] : x[1] \in Days /\ index[x[1]] # "absent"
      BY <3>1 DEF ClusterOK, Pairs
    <3>3. QED
      BY <3>2 DEF Grows
  <2>3. QED
    BY <2>1, <2>2 DEF SearchInv, SearchFindsReported
<1>4. QED
  BY <1>1, <1>2, <1>3 DEF SearchInv

\* A step of the cluster's own, or of a search.
LEMMA GrowthKeepsCalls ==
  ASSUME CallInv, Grows, UNCHANGED <<call, troubled>>,
         \A d \in Days : index'[d] \in {index[d], "mapped", "fixed"}
  PROVE  CallInv'
<1>1. CallsOK' /\ Stored'
  BY DEF CallInv, CallsOK, Stored, Grows, call
<1>2. NoTrouble'
  BY DEF CallInv, CallsOK, NoTrouble, Grows, call
<1>3. QED
  BY <1>1, <1>2 DEF CallInv

-----------------------------------------------------------------------------
(***************************************************************************)
(* IndexRecord.                                                            *)
(***************************************************************************)

\* A call moves on without a result.
LEMMA ProceedKeepsCalls ==
  ASSUME CallInv, Grows, troubled' \in {troubled, TRUE},
         NEW i \in Indexers, NEW from \in Steps \ {"done"},
         NEW to \in {"check", "create", "index", "refresh"},
         pc[i] = from, pc' = [pc EXCEPT ![i] = to],
         UNCHANGED <<day, record, result>>,
         to = "refresh" => record[i] \in docs'[day[i]],
         ~troubled' => /\ to = "index" => index'[day[i]] # "absent"
                       /\ \A d \in Days : index'[d] \in {index[d], "mapped"}
  PROVE  CallInv'
<1>1. CallsOK'
  BY DEF CallInv, CallsOK, Steps
<1>2. Stored'
  BY DEF CallInv, CallsOK, Stored, Grows
<1>3. NoTrouble'
  <2> SUFFICES ASSUME ~troubled' PROVE NoTrouble'
    BY DEF NoTrouble
  <2>1. ~troubled
    BY DEF CallInv, CallsOK
  <2>2. \A j \in Indexers : pc'[j] = "index" => index'[day[j]] # "absent"
    BY <2>1 DEF CallInv, CallsOK, NoTrouble, Grows
  <2>3. QED
    BY <2>1, <2>2 DEF CallInv, CallsOK, NoTrouble, Grows
<1>4. QED
  BY <1>1, <1>2, <1>3 DEF CallInv

\* A call returns.
LEMMA ReturnKeepsCalls ==
  ASSUME CallInv, Grows, troubled' \in {troubled, TRUE},
         NEW i \in Indexers, NEW from \in Steps \ {"idle", "done"},
         NEW value \in {"nil", "err"}, Return(i, from, value),
         value = "nil" => from = "refresh",
         ~troubled' => /\ value = "nil" /\ index' = index
                       /\ record[i] \in searchable'[day[i]]
  PROVE  CallInv'
<1>1. CallsOK'
  BY DEF CallInv, CallsOK, Return, Steps
<1>2. Stored'
  BY DEF CallInv, CallsOK, Stored, Grows, Return
<1>3. NoTrouble'
  BY DEF CallInv, CallsOK, NoTrouble, Grows, Return
<1>4. QED
  BY <1>1, <1>2, <1>3 DEF CallInv

LEMMA BeginPreserves ==
  ASSUME IInv, NEW i \in Indexers, IndexRecord(i)
  PROVE  IInv'
<1>1. ClusterOK' /\ Grows
  BY IdleGrows DEF IInv, IndexRecord
<1>2. ClockOK'
  BY DEF IInv, ClockOK, IndexRecord
<1>3. CallsOK'
  BY DEF IInv, ClockOK, CallInv, CallsOK, Steps, IndexRecord
<1>4. Stored'
  BY DEF IInv, CallInv, CallsOK, Stored, IndexRecord, cluster
<1>5. NoTrouble'
  BY DEF IInv, CallInv, CallsOK, Stored, NoTrouble, IndexRecord, cluster
<1>6. SearchInv'
  BY <1>1, GrowthKeepsSearches DEF IInv, SearchInv, SearchesOK, IndexRecord
<1>7. QED
  BY <1>1, <1>2, <1>3, <1>4, <1>5, <1>6 DEF IInv, CallInv

\* What a step of a call leaves alone.
Elsewhere == UNCHANGED <<today, service, search, shown>>

LEMMA ElsewherePreserves ==
  ASSUME IInv, Elsewhere, Grows
  PROVE  ClockOK' /\ SearchInv'
<1>1. ClockOK'
  BY DEF IInv, ClockOK, Elsewhere
<1>2. shown' = shown /\ shown \subseteq Pairs /\ UNCHANGED search
  BY DEF IInv, SearchInv, SearchesOK, Elsewhere
<1>3. SearchInv'
  BY <1>2, GrowthKeepsSearches DEF IInv
<1>4. QED
  BY <1>1, <1>3

LEMMA CheckPreserves ==
  ASSUME IInv, NEW i \in Indexers,
         CheckIndex(i) \/ CheckRefused(i) \/ CheckUnreachable(i)
  PROVE  IInv'
<1>1. ClusterOK' /\ Grows /\ index' = index
  BY IdleGrows DEF IInv, CheckIndex, CheckRefused, CheckUnreachable, cluster
<1>2. ClockOK' /\ SearchInv'
  BY <1>1, ElsewherePreserves
  DEF CheckIndex, CheckRefused, CheckUnreachable, Proceed, Return, Smoothly,
      Trouble, Elsewhere
<1>3. CallInv'
  <2>1. CASE CheckIndex(i)
    <3>1. PICK to \in {"create", "index"} :
            /\ Proceed(i, "check", to)
            /\ to = "index" => index[day[i]] # "absent"
      BY <2>1 DEF CheckIndex
    <3>2. QED
      BY <1>1, <2>1, <3>1, ProceedKeepsCalls
      DEF IInv, CheckIndex, Proceed, Smoothly, Steps
  <2>2. CASE CheckRefused(i)
    BY <1>1, <2>2, ProceedKeepsCalls DEF IInv, CheckRefused, Proceed, Trouble, Steps
  <2>3. CASE CheckUnreachable(i)
    BY <1>1, <2>3, ReturnKeepsCalls DEF IInv, CheckUnreachable, Trouble, Steps
  <2>4. QED
    BY <2>1, <2>2, <2>3
<1>4. QED
  BY <1>1, <1>2, <1>3 DEF IInv

LEMMA CreatePreserves ==
  ASSUME IInv, NEW i \in Indexers,
         \/ CreateIndex(i) \/ CreateExisting(i)
         \/ CreateRefused(i) \/ CreateUnreachable(i)
  PROVE  IInv'
<1>1. day[i] \in Days
  BY DEF IInv, CallInv, CallsOK
<1>2. \/ CreatesIndex(day[i], "mapped") \/ UNCHANGED cluster
  BY <1>1 DEF IInv, ClusterOK, CreateIndex, CreateExisting, CreateRefused,
              CreateUnreachable, CreatesIndex, cluster
<1>3. ClusterOK' /\ Grows
  BY <1>1, <1>2, CreationGrows, IdleGrows DEF IInv
<1>4. \A d \in Days : index'[d] \in {index[d], "mapped"}
  BY <1>1, <1>2 DEF IInv, ClusterOK, CreatesIndex, cluster
<1>5. ClockOK' /\ SearchInv'
  BY <1>3, ElsewherePreserves
  DEF CreateIndex, CreateExisting, CreateRefused, CreateUnreachable, Proceed,
      Return, Smoothly, Trouble, Elsewhere
<1>6. CallInv'
  <2>1. CASE CreateUnreachable(i)
    BY <1>3, <2>1, ReturnKeepsCalls DEF IInv, CreateUnreachable, Trouble, Steps
  <2>2. CASE CreateRefused(i)
    BY <1>3, <2>2, ProceedKeepsCalls
    DEF IInv, CreateRefused, Proceed, Trouble, Steps
  <2>3. CASE CreateIndex(i) \/ CreateExisting(i)
    <3>1. index'[day[i]] # "absent"
      BY <1>1, <2>3 DEF IInv, ClusterOK, CreateIndex, CreateExisting, cluster
    <3>2. Proceed(i, "create", "index") /\ Smoothly
      BY <2>3 DEF CreateIndex, CreateExisting
    <3>3. QED
      BY <1>3, <1>4, <3>1, <3>2, ProceedKeepsCalls
      DEF IInv, Proceed, Smoothly, Steps
  <2>4. QED
    BY <2>1, <2>2, <2>3
<1>7. QED
  BY <1>3, <1>5, <1>6 DEF IInv

LEMMA IndexPreserves ==
  ASSUME IInv, NEW i \in Indexers,
         IndexDocument(i) \/ IndexRefused(i) \/ IndexUnreachable(i)
  PROVE  IInv'
<1>1. ClusterOK' /\ Grows
  BY StoringGrows, IdleGrows
  DEF IInv, CallInv, IndexDocument, IndexRefused, IndexUnreachable
<1>2. ClockOK' /\ SearchInv'
  BY <1>1, ElsewherePreserves
  DEF IndexDocument, IndexRefused, IndexUnreachable, Proceed, Return,
      Smoothly, Trouble, Elsewhere
<1>3. CallInv'
  <2>1. CASE IndexDocument(i)
    <3>1. record[i] \in docs'[day[i]]
          /\ (index[day[i]] # "absent" => index' = index)
      BY <2>1, StoringGrows DEF IInv, CallInv, IndexDocument
    <3>2. ~troubled' => index' = index
      BY <2>1, <3>1
      DEF IInv, CallInv, NoTrouble, IndexDocument, Proceed, Smoothly
    <3>3. QED
      BY <1>1, <2>1, <3>1, <3>2, ProceedKeepsCalls
      DEF IInv, IndexDocument, Proceed, Smoothly, Steps
  <2>2. CASE IndexRefused(i) \/ IndexUnreachable(i)
    BY <1>1, <2>2, ReturnKeepsCalls
    DEF IInv, IndexRefused, IndexUnreachable, Trouble, Steps
  <2>3. QED
    BY <2>1, <2>2
<1>4. QED
  BY <1>1, <1>2, <1>3 DEF IInv

LEMMA RefreshPreserves ==
  ASSUME IInv, NEW i \in Indexers,
         Refresh(i) \/ RefreshRefused(i) \/ RefreshUnreachable(i)
  PROVE  IInv'
<1>1. day[i] \in Days /\ record[i] \in Records
  BY DEF IInv, CallInv, CallsOK
<1>2. ClusterOK' /\ Grows /\ index' = index
  BY <1>1, RefreshingGrows, IdleGrows
  DEF IInv, Refresh, RefreshRefused, RefreshUnreachable, cluster
<1>3. CASE Refresh(i)
  <2>1. searchable'[day[i]] = docs[day[i]] /\ record[i] \in docs[day[i]]
    BY <1>1, <1>3, RefreshingGrows
    DEF IInv, CallInv, Stored, Refresh, Return
  <2>2. ClockOK'
    BY <1>3 DEF IInv, ClockOK, Refresh, Return
  <2>3. /\ shown' = shown \cup {<<day[i], record[i]>>}
        /\ <<day[i], record[i]>> \in Pairs
        /\ shown \subseteq Pairs /\ UNCHANGED search
    BY <1>1, <1>3 DEF IInv, SearchInv, SearchesOK, Refresh, Return, Pairs
  <2>4. \A x \in shown' \ shown : x[2] \in searchable'[x[1]]
    BY <2>1, <2>3
  <2>5. SearchInv'
    BY <1>2, <2>3, <2>4, GrowthKeepsSearches DEF IInv
  <2>6. CallInv'
    BY <1>2, <1>3, <2>1, ReturnKeepsCalls DEF IInv, Refresh, Steps
  <2>7. QED
    BY <1>2, <2>2, <2>5, <2>6 DEF IInv
<1>4. CASE RefreshRefused(i) \/ RefreshUnreachable(i)
  <2>1. ClockOK' /\ SearchInv'
    BY <1>2, <1>4, ElsewherePreserves
    DEF RefreshRefused, RefreshUnreachable, Return, Trouble, Elsewhere
  <2>2. CallInv'
    BY <1>2, <1>4, ReturnKeepsCalls
    DEF IInv, RefreshRefused, RefreshUnreachable, Trouble, Steps
  <2>3. QED
    BY <1>2, <2>1, <2>2 DEF IInv
<1>5. QED
  BY <1>3, <1>4

-----------------------------------------------------------------------------
(***************************************************************************)
(* Search.                                                                 *)
(***************************************************************************)

\* What a search does to the rest.
LEMMA SearchKeepsRest ==
  ASSUME IInv, NEW s \in Searchers, NEW value, SearchReturns(s, value)
  PROVE  /\ ClockOK' /\ ClusterOK' /\ CallInv'
         /\ answer' = [answer EXCEPT ![s] = value]
         /\ UNCHANGED <<cluster, shown, query>>
<1>1. UNCHANGED <<today, service, cluster, call, troubled, shown, query>>
  BY DEF SearchReturns
<1>2. ClusterOK' /\ Grows
  BY <1>1, IdleGrows DEF IInv
<1>3. ClockOK'
  BY <1>1 DEF IInv, ClockOK
<1>4. CallInv'
  BY <1>1, <1>2, GrowthKeepsCalls DEF IInv, cluster
<1>5. QED
  BY <1>1, <1>2, <1>3, <1>4 DEF SearchReturns

\* The hits are stored records, and complete as the property says.
GoodHits(s, H) ==
  /\ H \subseteq Pairs
  /\ \A x \in H : x[2] \in docs[x[1]]

Complete(s, H) ==
  Cardinality(H) # Size =>
    \A x \in promised[s] :
      index[x[1]] = "mapped" /\ Satisfies(x[2], query[s]) => x \in H

LEMMA FoundIsStored ==
  ASSUME ClusterOK, NEW s \in Searchers, NEW H \in SUBSET Found(query[s])
  PROVE  GoodHits(s, H)
  BY DEF ClusterOK, Found, GoodHits, Pairs

LEMMA AnswerIsComplete ==
  ASSUME SearchInv, NEW s \in Searchers, NEW H,
         \A x \in Found(query[s]) \ H : Unsure(x[1], query[s])
  PROVE  Complete(s, H)
<1>1. \A x \in promised[s] : x \in Pairs /\ x[2] \in searchable[x[1]]
  BY DEF SearchInv, SearchesOK, ShownIsSearchable
<1>2. \A x \in promised[s] :
        Satisfies(x[2], query[s]) => x \in Found(query[s])
  BY <1>1 DEF Found
<1>3. QED
  BY <1>2 DEF Complete, Unsure

\* Other searches are not touched.
LEMMA AnswerKeepsSearches ==
  ASSUME SearchInv, NEW s \in Searchers,
         NEW value \in {"hits", "part"}, NEW H,
         GoodHits(s, H), value = "hits" => Complete(s, H),
         answer' = [answer EXCEPT ![s] = value],
         hits' = [hits EXCEPT ![s] = H],
         UNCHANGED <<cluster, shown, query, promised>>
  PROVE  SearchInv'
<1>1. SearchesOK'
  BY DEF SearchInv, SearchesOK, GoodHits
<1>2. ShownIsSearchable'
  BY DEF SearchInv, ShownIsSearchable, cluster
<1>3. SearchFindsReported'
  <2> SUFFICES ASSUME NEW u \in Searchers
               PROVE  /\ \A x \in hits'[u] : x[2] \in docs[x[1]]
                      /\ answer'[u] = "hits" /\ Cardinality(hits'[u]) # Size =>
                           \A x \in promised[u] :
                             index[x[1]] = "mapped" /\ Satisfies(x[2], query[u])
                               => x \in hits'[u]
    BY DEF SearchFindsReported, cluster, Satisfies, BuildSearchQuery
  <2>1. CASE u = s
    BY <2>1 DEF SearchInv, SearchesOK, GoodHits, Complete
  <2>2. CASE u # s
    <3>1. hits'[u] = hits[u] /\ answer'[u] = answer[u]
      BY <2>2 DEF SearchInv, SearchesOK
    <3>2. QED
      BY <3>1 DEF SearchInv, SearchFindsReported
  <2>3. QED
    BY <2>1, <2>2
<1>4. QED
  BY <1>1, <1>2, <1>3 DEF SearchInv

\* A search that shows no hits yet.
LEMMA NoHitsKeepsSearches ==
  ASSUME SearchInv, NEW s \in Searchers,
         NEW value \in {"asking", "err", "panic"}, NEW P \in SUBSET shown,
         answer' = [answer EXCEPT ![s] = value],
         promised' = [promised EXCEPT ![s] = P],
         UNCHANGED <<cluster, shown, query, hits>>
  PROVE  SearchInv'
<1>1. SearchesOK'
  BY DEF SearchInv, SearchesOK
<1>2. ShownIsSearchable'
  BY DEF SearchInv, ShownIsSearchable, cluster
<1>3. SearchFindsReported'
  <2> SUFFICES ASSUME NEW u \in Searchers
               PROVE  /\ \A x \in hits[u] : x[2] \in docs[x[1]]
                      /\ answer'[u] = "hits" /\ Cardinality(hits[u]) # Size =>
                           \A x \in promised'[u] :
                             index[x[1]] = "mapped" /\ Satisfies(x[2], query[u])
                               => x \in hits[u]
    BY DEF SearchFindsReported, cluster, Satisfies, BuildSearchQuery
  <2>1. answer'[u] = "hits" => answer[u] = "hits" /\ promised'[u] = promised[u]
    BY DEF SearchInv, SearchesOK
  <2>2. QED
    BY <2>1 DEF SearchInv, SearchFindsReported
<1>4. QED
  BY <1>1, <1>2, <1>3 DEF SearchInv

LEMMA SearchPreserves ==
  ASSUME IInv, NEW s \in Searchers, SearchStep(s)
  PROVE  IInv'
<1>1. CASE Search(s)
  <2>1. PICK value \in {"err", "asking"} : SearchReturns(s, value)
    BY <1>1 DEF Search
  <2>2. /\ promised' = [promised EXCEPT ![s] = shown]
        /\ UNCHANGED hits
    BY <1>1 DEF Search
  <2>3. SearchInv'
    BY <2>1, <2>2, SearchKeepsRest, NoHitsKeepsSearches DEF IInv
  <2>4. QED
    BY <2>1, <2>3, SearchKeepsRest DEF IInv
<1>2. CASE SearchAnswered(s)
  <2>1. SearchReturns(s, "hits") /\ UNCHANGED promised
    BY <1>2 DEF SearchAnswered
  <2>2. PICK H \in SUBSET Found(query[s]) :
          /\ \/ Cardinality(H) = Size
             \/ \A x \in Found(query[s]) \ H : Unsure(x[1], query[s])
          /\ hits' = [hits EXCEPT ![s] = H]
    BY <1>2 DEF SearchAnswered
  <2>3. GoodHits(s, H) /\ Complete(s, H)
    BY <2>2, FoundIsStored, AnswerIsComplete DEF IInv, Complete
  <2>4. SearchInv'
    BY <2>1, <2>2, <2>3, SearchKeepsRest, AnswerKeepsSearches DEF IInv
  <2>5. QED
    BY <2>1, <2>4, SearchKeepsRest DEF IInv
<1>3. CASE SearchAnsweredInPart(s)
  <2>1. SearchReturns(s, "part") /\ UNCHANGED promised
    BY <1>3 DEF SearchAnsweredInPart
  <2>2. PICK H \in SUBSET Found(query[s]) : hits' = [hits EXCEPT ![s] = H]
    BY <1>3 DEF SearchAnsweredInPart
  <2>3. GoodHits(s, H)
    BY <2>2, FoundIsStored DEF IInv
  <2>4. SearchInv'
    BY <2>1, <2>2, <2>3, SearchKeepsRest, AnswerKeepsSearches DEF IInv
  <2>5. QED
    BY <2>1, <2>4, SearchKeepsRest DEF IInv
<1>4. CASE SearchRefused(s)
  <2>1. PICK value \in {"err", "panic"} : SearchReturns(s, value)
    BY <1>4 DEF SearchRefused
  <2>2. /\ promised[s] \in SUBSET shown
        /\ promised' = [promised EXCEPT ![s] = promised[s]]
        /\ UNCHANGED hits
    BY <1>4 DEF SearchRefused, IInv, SearchInv, SearchesOK
  <2>3. /\ answer' = [answer EXCEPT ![s] = value]
        /\ UNCHANGED <<cluster, shown, query>>
    BY <2>1, SearchKeepsRest
  <2>4. SearchInv'
    BY <2>2, <2>3, NoHitsKeepsSearches DEF IInv
  <2>5. QED
    BY <2>1, <2>4, SearchKeepsRest DEF IInv
<1>5. QED
  BY <1>1, <1>2, <1>3, <1>4 DEF SearchStep

-----------------------------------------------------------------------------
LEMMA EnvironmentPreserves ==
  ASSUME IInv,
         \/ NewSearchIndex
         \/ \E d \in Days : CreateIndexWithMapping(d) \/ PeriodicRefresh(d)
         \/ Midnight
         \/ UNCHANGED vars
  PROVE  IInv'
<1>1. /\ UNCHANGED <<call, troubled, shown, search>>
      /\ ClockOK'
      /\ \/ UNCHANGED cluster
         \/ \E d \in Days : CreatesIndex(d, "fixed") \/ MakeSearchable(d)
  <2>1. CASE Midnight
    BY <2>1, MaxDayAssumption DEF IInv, ClockOK, Midnight, Days
  <2>2. CASE NewSearchIndex \/ UNCHANGED vars
    BY <2>2 DEF IInv, ClockOK, NewSearchIndex, vars
  <2>3. CASE \E d \in Days : CreateIndexWithMapping(d) \/ PeriodicRefresh(d)
    BY <2>3
    DEF IInv, ClockOK, CreateIndexWithMapping, PeriodicRefresh, CreatesIndex
  <2>4. QED
    BY <2>1, <2>2, <2>3
<1>2. /\ ClusterOK' /\ Grows
      /\ \A d \in Days : index'[d] \in {index[d], "mapped", "fixed"}
  <2>1. CASE UNCHANGED cluster
    BY <2>1, IdleGrows DEF IInv, cluster
  <2>2. ASSUME NEW d \in Days, CreatesIndex(d, "fixed")
        PROVE  /\ ClusterOK' /\ Grows
               /\ \A e \in Days : index'[e] \in {index[e], "mapped", "fixed"}
    BY <2>2, CreationGrows DEF IInv, ClusterOK, CreatesIndex
  <2>3. ASSUME NEW d \in Days, MakeSearchable(d)
        PROVE  ClusterOK' /\ Grows /\ index' = index
    BY <2>3, RefreshingGrows DEF IInv
  <2>4. QED
    BY <1>1, <2>1, <2>2, <2>3
<1>3. CallInv'
  BY <1>1, <1>2, GrowthKeepsCalls DEF IInv
<1>4. SearchInv'
  BY <1>1, <1>2, GrowthKeepsSearches DEF IInv, SearchInv, SearchesOK
<1>5. QED
  BY <1>1, <1>2, <1>3, <1>4 DEF IInv

LEMMA Invariance == Spec => []IInv
<1>1. IInv /\ [Next]_vars => IInv'
  BY BeginPreserves, CheckPreserves, CreatePreserves, IndexPreserves,
     RefreshPreserves, SearchPreserves, EnvironmentPreserves
  DEF Next, Call
<1>2. QED
  BY <1>1, InitEstablishes, PTL DEF Spec

\* Type correctness; a search finds only what is stored, and only an index
\* that exists stores.
THEOREM TypeCorrect == Spec => []TypeOK
  BY Invariance, InvImplies, PTL

\* nil means that the record is in the index of the day the call began on,
\* whatever became of the creation and the refresh (aws-opensearch.go:88-136).
THEOREM NilIsStored == Spec => []ReportedIsStored
  BY Invariance, InvImplies, PTL

\* Check-then-create loses no record, mapping or refresh as long as every
\* request is answered (aws-opensearch.go:93-104, 160).
THEOREM HarmlessRace == Spec => []RaceIsHarmless
  BY Invariance, InvImplies, PTL

\* A complete answer to a search contains what was shown before it and meets
\* the query, on whatever day it was indexed (aws-opensearch.go:170-230).
THEOREM SearchIsComplete == Spec => []SearchFindsReported
  BY Invariance, InvImplies, PTL
=============================================================================
