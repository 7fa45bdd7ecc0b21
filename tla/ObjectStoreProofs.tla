------------------------- MODULE ObjectStoreProofs -------------------------
(***************************************************************************)
(* Theorems about ObjectStore, for every finite set of uploads, all        *)
(* readers, prefixes, paths and URLs, and every number of attempts.        *)
(***************************************************************************)
EXTENDS ObjectStore, FiniteSetTheorems, SequenceTheorems, TLAPS

(***************************************************************************)
(* The inductive invariant.                                                *)
(***************************************************************************)

\* The attempts of an upload the bucket has stored.
Landed(p) ==
  (tries[p] - 1) + (IF result[p] \in {"ok", "err"} THEN 1 ELSE 0) - adrift[p]

Landings == {s \in Puts \X (1..MaxAttempts) : s[2] <= Landed(s[1])}

\* Every version is an attempt of some upload, and an attempt without an
\* answer has been made.
AttemptsCounted ==
  /\ Len(bucket) = Cardinality(Landings)
  /\ \A p \in Puts : Landed(p) >= 0

\* A call has a valid name once it has passed the check, and before that has
\* made no request.
NamesChecked ==
  /\ prefix = <<Empty>> \/ prefix[1] # Empty
  /\ \A p \in Puts :
       /\ name[p] \in Paths
       /\ pc[p] = "upload" \/ adrift[p] > 0 => name[p][1] # Empty
       /\ pc[p] = "idle" \/ result[p] = "invalid" => tries[p] = 1
  /\ \A g \in Readers :
       pc[g] \in {"head", "download", "open"} \/ result[g] = "ok" =>
         ByURL(g) \/ name[g][1] # Empty
  /\ \A c \in Calls : result[c] # "none" => pc[c] \in {"done", "streaming"}

\* A key is the one its path has under the prefix.
KeysOfPaths ==
  \A i \in 1..Len(bucket) :
    /\ bucket[i].key = ObjectPath(prefix, bucket[i].path)
    /\ bucket[i].path[1] # Empty

\* v is a version of the object the call names.
IsVersion(c, v) ==
  /\ v \in 1..Len(bucket)
  /\ InBucket(c)
  /\ bucket[v].key = KeyOf(c)

\* What a call wrote or read is a version of its object.
OwnVersions(c) ==
  /\ result[c] = "ok" => IsVersion(c, content[c])
  /\ pc[c] = "download" => IsVersion(c, meta[c])

\* What was acknowledged before a call began stays acknowledged; the metadata
\* is not older, nor the content than the metadata.
SeenSince(c) ==
  /\ since[c] \subseteq Acknowledged(c)
  /\ pc[c] = "download" => \A p \in since[c] : content[p] <= meta[c]
  /\ c \in Readers /\ result[c] = "ok" =>
       /\ \A p \in since[c] : content[p] <= meta[c]
       /\ meta[c] <= content[c]
  /\ result[c] = "notFound" => since[c] = {}

Sound(c) == OwnVersions(c) /\ SeenSince(c)

IInv ==
  /\ TypeOK
  /\ AttemptsCounted
  /\ NamesChecked
  /\ KeysOfPaths
  /\ \A c \in Calls : Sound(c)

-----------------------------------------------------------------------------
(***************************************************************************)
(* The operators.                                                          *)
(***************************************************************************)

LEMMA MinOfNaturals ==
  ASSUME NEW S \in SUBSET Nat, S # {}
  PROVE  Min(S) \in S /\ \A y \in S : Min(S) <= y
<1>1. PICK x \in S : \A y \in S : ~(<<y, x>> \in OpToRel(<, Nat))
  BY WFMin, NatLessThanWellFounded
<1>2. \A y \in S : x <= y
  <2> SUFFICES ASSUME NEW y \in S PROVE x <= y
    OBVIOUS
  <2>1. x \in Nat /\ y \in Nat
    OBVIOUS
  <2>2. ~(y < x)
    BY <1>1, <2>1 DEF OpToRel
  <2>3. QED
    BY <2>1, <2>2
<1>3. QED
  BY <1>2 DEF Min

\* Min and Max are defined by CHOOSE; sets of naturals have both.
LEMMA MaxOfNaturals ==
  ASSUME NEW n \in Nat, NEW S \in SUBSET (0..n), S # {}
  PROVE  Max(S) \in S /\ \A y \in S : Max(S) >= y
<1> DEFINE T == {n - x : x \in S}
<1>1. T \in SUBSET Nat /\ T # {}
  <2>1. \A x \in S : n - x \in Nat
    OBVIOUS
  <2>2. PICK x \in S : TRUE
    OBVIOUS
  <2>3. QED
    BY <2>1, <2>2
<1>2. Min(T) \in T /\ \A y \in T : Min(T) <= y
  <2> HIDE DEF T
  <2> QED
    BY <1>1, MinOfNaturals
<1>3. PICK x \in S : Min(T) = n - x
  BY <1>2
<1>4. \A y \in S : n - x <= n - y
  BY <1>2, <1>3
<1>5. \A y \in S : x >= y
  BY <1>4
<1>6. QED
  BY <1>5 DEF Max

\* The current version is the last one that was stored.
LEMMA CurrentIsLast ==
  ASSUME TypeOK, NEW n
  PROVE  /\ Current(n) \in 0..Len(bucket)
         /\ Current(n) # 0 =>
              InBucket(n) /\ bucket[Current(n)].key = KeyOf(n)
         /\ \A v \in 1..Len(bucket) :
              InBucket(n) /\ bucket[v].key = KeyOf(n) => v <= Current(n)
<1> DEFINE S == {0} \cup {i \in DOMAIN bucket :
                            InBucket(n) /\ bucket[i].key = KeyOf(n)}
<1>1. Len(bucket) \in Nat /\ DOMAIN bucket = 1..Len(bucket)
  BY LenProperties DEF TypeOK
<1>2. S \in SUBSET (0..Len(bucket)) /\ S # {}
  BY <1>1
<1>3. Max(S) \in S /\ \A y \in S : Max(S) >= y
  <2> HIDE DEF S
  <2> QED
    BY <1>1, <1>2, MaxOfNaturals
<1>4. Current(n) = Max(S)
  BY DEF Current
<1>5. QED
  <2>1. \A v \in 1..Len(bucket) :
          InBucket(n) /\ bucket[v].key = KeyOf(n) => v \in S
    BY <1>1
  <2>2. Max(S) # 0 => InBucket(n) /\ bucket[Max(S)].key = KeyOf(n)
    BY <1>3
  <2> HIDE DEF S
  <2>3. QED
    BY <1>1, <1>2, <1>3, <1>4, <2>1, <2>2

\* strings.Trim leaves no slash in front: the first piece is full, or there
\* is none.
LEMMA CleanPrefixIsClean ==
  ASSUME NEW p \in Seq(Pieces), p # <<>>
  PROVE  /\ CleanPrefix(p) \in Seq(Pieces) \ {<<>>}
         /\ CleanPrefix(p) = <<Empty>> \/ CleanPrefix(p)[1] # Empty
<1> DEFINE full == {i \in DOMAIN p : p[i] # Empty}
<1>1. CASE full = {}
  <2>1. CleanPrefix(p) = <<Empty>>
    BY <1>1 DEF CleanPrefix
  <2>2. QED
    BY <2>1, NamesAssumption
<1>2. CASE full # {}
  <2>1. Len(p) \in Nat /\ DOMAIN p = 1..Len(p)
    BY LenProperties
  <2>2. full \in SUBSET (0..Len(p)) /\ full \in SUBSET Nat
    BY <2>1
  <2>3. Min(full) \in full /\ Max(full) \in full /\ Min(full) <= Max(full)
    <3> HIDE DEF full
    <3>1. Min(full) \in full /\ Max(full) \in full
      BY <1>2, <2>1, <2>2, MinOfNaturals, MaxOfNaturals
    <3>2. QED
      BY <1>2, <2>1, <2>2, <3>1, MinOfNaturals
  <2>4. Min(full) \in 1..Len(p) /\ Max(full) \in 1..Len(p) /\ p[Min(full)] # Empty
    BY <2>1, <2>3
  <2>5. CleanPrefix(p) = SubSeq(p, Min(full), Max(full))
    BY <1>2 DEF CleanPrefix
  <2> HIDE DEF full
  <2>6. \A i \in Min(full)..Max(full) : p[i] \in Pieces
    BY <2>1, <2>4
  <2>7. /\ CleanPrefix(p) \in Seq(Pieces)
        /\ Len(CleanPrefix(p)) = Max(full) - Min(full) + 1
        /\ CleanPrefix(p)[1] = p[Min(full)]
    <3>1. 1 \in 1..Max(full) - Min(full) + 1
      BY <2>3, <2>4
    <3>2. Min(full) \in Int /\ Max(full) \in Int /\ Min(full) + 1 - 1 = Min(full)
      BY <2>4
    <3>3. QED
      BY <2>3, <2>5, <2>6, <3>1, <3>2, SubSeqProperties
  <2>8. CleanPrefix(p) # <<>>
    BY <2>3, <2>4, <2>7
  <2>9. QED
    BY <2>4, <2>7, <2>8
<1>3. QED
  BY <1>1, <1>2

\* A key is a path, or what follows the prefix.
LEMMA ObjectPathIs ==
  ASSUME NEW pre \in Seq(Pieces), pre # <<>>, pre = <<Empty>> \/ pre[1] # Empty,
         NEW path \in Seq(Pieces), path # <<>>
  PROVE  /\ ObjectPath(pre, path) \in Seq(Pieces)
         /\ ObjectPath(pre, path) = IF pre = <<Empty>> THEN path ELSE pre \o path
<1>1. /\ Len(pre) \in Nat \ {0} /\ Len(path) \in Nat \ {0}
      /\ pre \o path \in Seq(Pieces) /\ Len(pre \o path) = Len(pre) + Len(path)
      /\ (pre \o path)[1] = pre[1]
  <2>1. /\ pre \o path \in Seq(Pieces)
        /\ Len(pre \o path) = Len(pre) + Len(path)
        /\ \A i \in 1..Len(pre) + Len(path) :
             (pre \o path)[i] = IF i <= Len(pre) THEN pre[i]
                                ELSE path[i - Len(pre)]
    BY ConcatProperties
  <2>2. Len(pre) \in Nat \ {0} /\ Len(path) \in Nat \ {0}
    BY EmptySeq
  <2>3. QED
    BY <2>1, <2>2
<1>2. Head(pre \o path) = pre[1]
  BY <1>1, HeadTailProperties
<1>3. CASE pre = <<Empty>>
  <2>1. Tail(pre \o path) \in Seq(Pieces)
        /\ Len(Tail(pre \o path)) = Len(path)
        /\ \A i \in 1..Len(path) : Tail(pre \o path)[i] = path[i]
    BY <1>1, <1>3, HeadTailProperties, ConcatProperties
  <2>2. Tail(pre \o path) = path
    BY <2>1, SeqEqual
  <2>3. ObjectPath(pre, path) = Tail(pre \o path)
    BY <1>1, <1>2, <1>3 DEF ObjectPath, TrimSlash
  <2>4. QED
    BY <1>3, <2>2, <2>3
<1>4. CASE pre # <<Empty>>
  BY <1>1, <1>2, <1>4 DEF ObjectPath, TrimSlash
<1>5. QED
  BY <1>3, <1>4

\* No two paths share a key.
LEMMA ObjectPathIsInjective ==
  ASSUME NEW pre \in Seq(Pieces), pre # <<>>, pre = <<Empty>> \/ pre[1] # Empty,
         NEW p \in Seq(Pieces), p # <<>>, NEW q \in Seq(Pieces), q # <<>>,
         ObjectPath(pre, p) = ObjectPath(pre, q)
  PROVE  p = q
<1>1. CASE pre = <<Empty>>
  BY <1>1, ObjectPathIs
<1>2. CASE pre # <<Empty>>
  <2>1. ObjectPath(pre, p) = pre \o p
    BY <1>2, ObjectPathIs
  <2>2. ObjectPath(pre, q) = pre \o q
    BY <1>2, ObjectPathIs
  <2>3. pre \o p = pre \o q
    BY <2>1, <2>2
  <2>4. \A s, t, v \in Seq(Pieces) : s \o t = s \o v => t = v
    BY ConcatSimplifications, Zenon
  <2>5. QED
    BY <2>3, <2>4
<1>3. QED
  BY <1>1, <1>2

-----------------------------------------------------------------------------
(***************************************************************************)
(* Counting the versions.                                                  *)
(***************************************************************************)

\* There are no more versions than attempts.
LEMMA LandingsAreFew ==
  ASSUME NEW S \in SUBSET (Puts \X (1..MaxAttempts))
  PROVE  IsFiniteSet(S) /\ Cardinality(S) \in Versions
<1>1. IsFiniteSet(1..MaxAttempts) /\ Cardinality(1..MaxAttempts) = MaxAttempts
  BY FS_Interval, CallsAssumption
<1>2. /\ IsFiniteSet(Puts \X (1..MaxAttempts))
      /\ Cardinality(Puts \X (1..MaxAttempts)) = Cardinality(Puts) * MaxAttempts
  BY <1>1, FS_Product, CallsAssumption
<1>3. Cardinality(Puts) \in Nat
  BY FS_CardinalityType, CallsAssumption
<1>4. IsFiniteSet(S) /\ Cardinality(S) <= Cardinality(Puts) * MaxAttempts
  BY <1>2, FS_Subset
<1>5. Cardinality(S) \in Nat
  BY <1>4, FS_CardinalityType
<1>6. Cardinality(Puts) * MaxAttempts = MaxAttempts * Cardinality(Puts)
  BY <1>3, CallsAssumption
<1>7. QED
  BY <1>3, <1>4, <1>5, <1>6, CallsAssumption DEF Versions

\* Positions in the bucket are versions.
LEMMA VersionsAreNaturals ==
  ASSUME TypeOK, NEW v \in 0..Len(bucket)
  PROVE  v \in Versions
<1>1. Cardinality(Puts) \in Nat
  BY FS_CardinalityType, CallsAssumption
<1>2. MaxAttempts * Cardinality(Puts) \in Nat
  BY <1>1, CallsAssumption
<1>3. QED
  BY <1>2 DEF TypeOK, Versions

\* Steps that store nothing.
LEMMA NothingLands ==
  ASSUME AttemptsCounted, bucket' = bucket,
         \A p \in Puts : Landed(p)' = Landed(p)
  PROVE  AttemptsCounted'
<1>1. Landings' = Landings
  BY DEF Landings
<1>2. QED
  BY <1>1 DEF AttemptsCounted

\* Steps that store what one upload sent.
LEMMA OneLands ==
  ASSUME AttemptsCounted, TypeOK, NEW p \in Puts,
         Len(bucket') = Len(bucket) + 1,
         Landed(p)' = Landed(p) + 1, Landed(p)' <= MaxAttempts,
         \A q \in Puts \ {p} : Landed(q)' = Landed(q)
  PROVE  AttemptsCounted' /\ Len(bucket') \in Versions
<1>1. \A q \in Puts : Landed(q) \in Int
  <2> SUFFICES ASSUME NEW q \in Puts PROVE Landed(q) \in Int
    OBVIOUS
  <2>1. tries[q] \in Int /\ adrift[q] \in Int
    BY CallsAssumption DEF TypeOK
  <2>2. QED
    BY <2>1 DEF Landed
<1>2. Landed(p) >= 0
  BY DEF AttemptsCounted
<1> DEFINE new == <<p, Landed(p) + 1>>
<1>3. Landings' = Landings \cup {new} /\ new \notin Landings
  <2>1. \A s \in Puts \X (1..MaxAttempts) :
          s[2] <= Landed(s[1])' <=> s[2] <= Landed(s[1]) \/ s = new
    <3> SUFFICES ASSUME NEW q \in Puts, NEW n \in 1..MaxAttempts
                 PROVE  n <= Landed(q)' <=>
                          n <= Landed(q) \/ (q = p /\ n = Landed(p) + 1)
      OBVIOUS
    <3>1. CASE q = p
      BY <1>1, <3>1
    <3>2. CASE q # p
      BY <3>2
    <3>3. QED
      BY <3>1, <3>2
  <2>2. new \in Puts \X (1..MaxAttempts)
    BY <1>1, <1>2
  <2>3. ~(Landed(p) + 1 <= Landed(p))
    BY <1>1
  <2>4. QED
    BY <2>1, <2>2, <2>3 DEF Landings
<1>4. IsFiniteSet(Landings) /\ Cardinality(Landings) \in Versions
  <2>1. Landings \in SUBSET (Puts \X (1..MaxAttempts))
    BY DEF Landings
  <2>2. QED
    BY <2>1, LandingsAreFew
<1>5. Cardinality(Landings') = Cardinality(Landings) + 1
  BY <1>3, <1>4, FS_AddElement
<1>6. Cardinality(Landings') \in Versions
  <2>1. Landings' \in SUBSET (Puts \X (1..MaxAttempts))
    BY DEF Landings
  <2>2. QED
    BY <2>1, LandingsAreFew
<1>7. \A q \in Puts : Landed(q)' >= 0
  BY <1>1, <1>2 DEF AttemptsCounted
<1>8. QED
  BY <1>5, <1>6, <1>7 DEF AttemptsCounted

-----------------------------------------------------------------------------
(***************************************************************************)
(* What every step leaves alone: at most one call moves on, what a call    *)
(* returned is final, and the bucket only grows.                           *)
(***************************************************************************)
Framed(c) ==
  /\ prefix' = prefix /\ name' = name
  /\ bucket' = bucket \/ \E p \in Puts : Apply(p)
  /\ \A d \in Calls \ {c} : /\ pc'[d] = pc[d] /\ result'[d] = result[d]
                            /\ meta'[d] = meta[d] /\ content'[d] = content[d]
                            /\ since'[d] = since[d]
  /\ result[c] = "ok" => result'[c] = "ok" /\ content'[c] = content[c]

\* An upload takes every name for a path.
LEMMA PutsGoByPath ==
  ASSUME NEW p \in Puts
  PROVE  ~ByURL(p)
BY CallsAssumption DEF ByURL

\* What the bucket is after it stored an upload.
LEMMA Appended ==
  ASSUME TypeOK, NEW p \in Puts, name[p] \in Paths, Apply(p)
  PROVE  /\ bucket' \in Seq([key : Seq(Pieces), path : Paths])
         /\ Len(bucket') = Len(bucket) + 1 /\ Len(bucket) \in Nat
         /\ \A i \in 1..Len(bucket) : bucket'[i] = bucket[i]
         /\ bucket'[Len(bucket) + 1] =
              [key |-> KeyOf(p), path |-> name[p]]
         /\ KeyOf(p) = ObjectPath(prefix, name[p])
         /\ InBucket(p)
<1>1. ~ByURL(p)
  BY PutsGoByPath
<1>2. KeyOf(p) = ObjectPath(prefix, name[p]) /\ InBucket(p)
  BY <1>1 DEF KeyOf, InBucket
<1>3. KeyOf(p) \in Seq(Pieces)
  <2>1. prefix \o name[p] \in Seq(Pieces)
    BY <1>1, NamesAssumption, ConcatProperties DEF TypeOK
  <2>2. QED
    BY <1>2, <2>1, HeadTailProperties, EmptySeq DEF ObjectPath, TrimSlash
<1>4. [key |-> KeyOf(p), path |-> name[p]]
        \in [key : Seq(Pieces), path : Paths]
  BY <1>1, <1>3
<1>5. bucket \in Seq([key : Seq(Pieces), path : Paths])
  BY DEF TypeOK
<1>6. QED
  BY <1>2, <1>4, <1>5, AppendProperties, LenProperties DEF Apply

\* What a framed step cannot take away: versions, and acknowledgements with
\* the versions that were acknowledged.
LEMMA Kept ==
  ASSUME IInv, NEW c \in Calls, Framed(c)
  PROVE  /\ Len(bucket) <= Len(bucket')
         /\ \A d \in Calls : \A v : IsVersion(d, v) => IsVersion(d, v)'
         /\ \A d \in Calls :
              Acknowledged(d) \subseteq Acknowledged(d)'
         /\ \A p \in Puts : result[p] = "ok" =>
              result'[p] = "ok" /\ content'[p] = content[p]
<1>1. /\ Len(bucket) \in Nat /\ Len(bucket) <= Len(bucket') /\ Len(bucket') \in Nat
      /\ \A i \in 1..Len(bucket) : bucket'[i] = bucket[i]
  <2>1. CASE bucket' = bucket
    BY <2>1, LenProperties DEF IInv, TypeOK
  <2>2. ASSUME NEW p \in Puts, Apply(p)
        PROVE  /\ Len(bucket) \in Nat /\ Len(bucket) <= Len(bucket')
               /\ Len(bucket') \in Nat
               /\ \A i \in 1..Len(bucket) : bucket'[i] = bucket[i]
    <3>1. name[p] \in Paths
      BY DEF IInv, NamesChecked
    <3>2. TypeOK
      BY DEF IInv
    <3>3. /\ Len(bucket') = Len(bucket) + 1 /\ Len(bucket) \in Nat
          /\ \A i \in 1..Len(bucket) : bucket'[i] = bucket[i]
      BY <2>2, <3>1, <3>2, Appended
    <3>4. QED
      BY <3>3
  <2>3. QED
    BY <2>1, <2>2 DEF Framed
<1>2. name' = name /\ prefix' = prefix
  BY DEF Framed
<1>3. \A d \in Calls : KeyOf(d)' = KeyOf(d)
                       /\ InBucket(d)' = InBucket(d)
  BY <1>2 DEF KeyOf, InBucket, ByURL, ObjectPath
<1>4. \A d \in Calls : \A v : IsVersion(d, v) => IsVersion(d, v)'
  BY <1>1, <1>3 DEF IsVersion
<1>5. \A p \in Puts : result[p] = "ok" =>
        result'[p] = "ok" /\ content'[p] = content[p]
  BY DEF Framed, Calls
<1>6. \A d \in Calls : Acknowledged(d) \subseteq Acknowledged(d)'
  BY <1>3, <1>5 DEF Acknowledged, Calls
<1>7. QED
  BY <1>1, <1>4, <1>5, <1>6

\* A step of one call leaves what is known of every other.
LEMMA OthersStaySound ==
  ASSUME IInv, NEW c \in Calls, Framed(c), NEW d \in Calls \ {c}
  PROVE  Sound(d)'
<1>1. /\ pc'[d] = pc[d] /\ result'[d] = result[d] /\ since'[d] = since[d]
      /\ meta'[d] = meta[d] /\ content'[d] = content[d]
  BY DEF Framed
<1>2. /\ \A v : IsVersion(d, v) => IsVersion(d, v)'
      /\ Acknowledged(d) \subseteq Acknowledged(d)'
      /\ \A p \in Puts : result[p] = "ok" => content'[p] = content[p]
  BY Kept
<1>3. Sound(d)
  BY DEF IInv
<1>4. OwnVersions(d)'
  BY <1>1, <1>2, <1>3 DEF Sound, OwnVersions
<1>5. \A p \in since[d] : content'[p] = content[p]
  BY <1>2, <1>3 DEF Sound, SeenSince, Acknowledged
<1>6. SeenSince(d)'
  BY <1>1, <1>2, <1>3, <1>5 DEF Sound, SeenSince
<1>7. QED
  BY <1>4, <1>6 DEF Sound

-----------------------------------------------------------------------------
(***************************************************************************)
(* Steps of a call that send nothing to the bucket.                        *)
(***************************************************************************)
Places  == {"idle", "upload", "head", "download", "open", "streaming", "done"}
Results == {"none", "ok", "err", "invalid", "notFound"}

Move(c, to, r, m, k, s) ==
  /\ UNCHANGED <<prefix, upload, name>>
  /\ pc' = [pc EXCEPT ![c] = to]
  /\ result' = [result EXCEPT ![c] = r]
  /\ meta' = [meta EXCEPT ![c] = m]
  /\ content' = [content EXCEPT ![c] = k]
  /\ since' = [since EXCEPT ![c] = s]
  /\ live' \subseteq Calls

\* A move concerns its call alone.
LEMMA MoveIsFramed ==
  ASSUME TypeOK, NEW c \in Calls, NEW to, NEW r, NEW m, NEW k, NEW s,
         Move(c, to, r, m, k, s),
         result[c] = "ok" => r = "ok" /\ k = content[c]
  PROVE  /\ Framed(c)
         /\ pc'[c] = to /\ result'[c] = r /\ meta'[c] = m
         /\ content'[c] = k /\ since'[c] = s
<1>1. /\ pc'[c] = to /\ result'[c] = r /\ meta'[c] = m
      /\ content'[c] = k /\ since'[c] = s
  BY DEF Move, TypeOK
<1>2. \A d \in Calls \ {c} :
        /\ pc'[d] = pc[d] /\ result'[d] = result[d] /\ meta'[d] = meta[d]
        /\ content'[d] = content[d] /\ since'[d] = since[d]
  BY DEF Move, TypeOK
<1>3. prefix' = prefix /\ name' = name /\ bucket' = bucket
  BY DEF Move, upload
<1>4. QED
  BY <1>1, <1>2, <1>3 DEF Framed

\* A move keeps the invariant if it leaves its own call sound.
LEMMA MoveKeeps ==
  ASSUME IInv, NEW c \in Calls,
         NEW to \in Places, NEW r \in Results, NEW m \in Versions,
         NEW k \in Versions, NEW s \in SUBSET Puts,
         Move(c, to, r, m, k, s),
         result[c] = "ok" => r = "ok" /\ k = content[c],
         r # "none" => to \in {"done", "streaming"},
         c \in Puts =>
           /\ r = result[c] \/ (result[c] = "none" /\ r = "invalid")
           /\ to = "upload" => name[c][1] # Empty
           /\ to = "idle" \/ r = "invalid" => tries[c] = 1,
         c \in Readers /\ (to \in {"head", "download", "open"} \/ r = "ok") =>
           ByURL(c) \/ name[c][1] # Empty,
         Sound(c)'
  PROVE  IInv'
<1>1. TypeOK /\ AttemptsCounted /\ NamesChecked /\ KeysOfPaths
  BY DEF IInv
<1>2. /\ Framed(c)
      /\ pc'[c] = to /\ result'[c] = r /\ meta'[c] = m
      /\ content'[c] = k /\ since'[c] = s
  BY <1>1, MoveIsFramed
<1>3. /\ prefix' = prefix /\ name' = name /\ bucket' = bucket
      /\ tries' = tries /\ adrift' = adrift
  BY DEF Move, upload
<1>4. TypeOK'
  <2>1. pc' \in [Calls -> Places]
    BY <1>1 DEF Move, TypeOK, Places
  <2>2. result' \in [Calls -> Results]
    BY <1>1 DEF Move, TypeOK, Results
  <2>3. meta' \in [Calls -> Versions] /\ content' \in [Calls -> Versions]
    BY <1>1 DEF Move, TypeOK
  <2>4. since' \in [Calls -> SUBSET Puts]
    BY <1>1 DEF Move, TypeOK
  <2>5. live' \subseteq Calls
    BY DEF Move
  <2>6. QED
    BY <1>1, <1>3, <2>1, <2>2, <2>3, <2>4, <2>5 DEF TypeOK, Places, Results
<1>5. \A d \in Calls \ {c} : pc'[d] = pc[d] /\ result'[d] = result[d]
  BY <1>2 DEF Framed
<1>6. AttemptsCounted'
  <2>1. \A p \in Puts : result'[p] \in {"ok", "err"} <=> result[p] \in {"ok", "err"}
    BY <1>2, <1>5 DEF Calls
  <2>2. \A p \in Puts : Landed(p)' = Landed(p)
    BY <1>3, <2>1 DEF Landed
  <2>3. QED
    BY <1>1, <1>3, <2>2, NothingLands
<1>7. NamesChecked'
  <2>1. \A p \in Puts :
          /\ name[p] \in Paths
          /\ pc'[p] = "upload" \/ adrift[p] > 0 => name[p][1] # Empty
          /\ pc'[p] = "idle" \/ result'[p] = "invalid" => tries[p] = 1
    BY <1>1, <1>2, <1>5 DEF NamesChecked, Calls
  <2>2. \A g \in Readers :
          pc'[g] \in {"head", "download", "open"} \/ result'[g] = "ok" =>
            ByURL(g) \/ name[g][1] # Empty
    BY <1>1, <1>2, <1>5 DEF NamesChecked, Calls
  <2>3. \A d \in Calls : result'[d] # "none" => pc'[d] \in {"done", "streaming"}
    BY <1>1, <1>2, <1>5 DEF NamesChecked
  <2>4. QED
    BY <1>1, <1>3, <2>1, <2>2, <2>3 DEF NamesChecked, ByURL
<1>8. KeysOfPaths'
  BY <1>1, <1>3 DEF KeysOfPaths
<1>9. \A d \in Calls : Sound(d)'
  BY <1>2, OthersStaySound
<1>10. QED
  BY <1>4, <1>6, <1>7, <1>8, <1>9 DEF IInv

\* Before a call has returned its result is "none".
LEMMA NotReturned ==
  ASSUME IInv, NEW c \in Calls, pc[c] \notin {"done", "streaming"}
  PROVE  result[c] = "none"
BY DEF IInv, NamesChecked

\* The check of names lets no path with a leading slash pass.
LEMMA AcceptedName ==
  ASSUME IInv, NEW c \in Calls, ~NameIsInvalid(c)
  PROVE  ByURL(c) \/ name[c][1] # Empty
BY DEF NameIsInvalid, ObjectPathIsInvalid

\* A call begins.
LEMMA BeginKeeps ==
  ASSUME IInv, NEW c \in Calls, NEW first \in {"upload", "head", "open"},
         first = "upload" <=> c \in Puts, Begin(c, first)
  PROVE  IInv'
<1>1. TypeOK /\ NamesChecked
  BY DEF IInv
<1>2. pc[c] = "idle" /\ result[c] = "none"
  BY NotReturned DEF Begin
<1> DEFINE to == IF NameIsInvalid(c) THEN "done" ELSE first
           r == IF NameIsInvalid(c) THEN "invalid" ELSE "none"
           s == Acknowledged(c)
<1>3. Move(c, to, r, meta[c], content[c], s)
  <2>1. /\ pc' = [pc EXCEPT ![c] = to]
        /\ result' = [result EXCEPT ![c] = r]
        /\ live' \subseteq Calls
    BY <1>1, <1>2 DEF Begin, TypeOK
  <2>2. /\ UNCHANGED <<prefix, upload, name>>
        /\ since' = [since EXCEPT ![c] = s]
    BY DEF Begin
  <2>3. /\ meta' = [meta EXCEPT ![c] = meta[c]]
        /\ content' = [content EXCEPT ![c] = content[c]]
    BY <1>1 DEF Begin, object, TypeOK
  <2>4. QED
    BY <2>1, <2>2, <2>3 DEF Move
<1>4. /\ meta[c] \in Versions /\ content[c] \in Versions
      /\ s \in SUBSET Puts /\ to \in Places /\ r \in Results
  BY <1>1 DEF TypeOK, Places, Results, Acknowledged
<1>5. /\ to \in {"done", "upload", "head", "open"} /\ r \in {"none", "invalid"}
      /\ to = "upload" => c \in Puts
      /\ r = "invalid" => to = "done"
  OBVIOUS
<1>6. to # "done" => ByURL(c) \/ name[c][1] # Empty
  BY AcceptedName
<1>7. c \in Puts => tries[c] = 1 /\ ~ByURL(c)
  <2>1. ASSUME c \in Puts PROVE ~ByURL(c)
    BY <2>1, PutsGoByPath
  <2>2. QED
    BY <1>1, <1>2, <2>1 DEF NamesChecked
<1> HIDE DEF to, r, s
<1>8. /\ Framed(c)
      /\ pc'[c] = to /\ result'[c] = r /\ since'[c] = s
  BY <1>1, <1>2, <1>3, MoveIsFramed
<1>9. Sound(c)'
  <2>1. s \subseteq Acknowledged(c)'
    BY <1>8, Kept DEF s
  <2>2. pc'[c] # "download" /\ result'[c] \notin {"ok", "notFound"}
    BY <1>5, <1>8
  <2>3. QED
    BY <1>8, <2>1, <2>2 DEF Sound, OwnVersions, SeenSince
<1>10. QED
  BY <1>2, <1>3, <1>4, <1>5, <1>6, <1>7, <1>9, MoveKeeps

\* What was acknowledged before a call is among the versions it may find.
LEMMA SinceIsCurrent ==
  ASSUME IInv, NEW c \in Calls
  PROVE  /\ \A p \in since[c] : content[p] \in 1..Current(c)
         /\ Current(c) # 0 => IsVersion(c, Current(c))
         /\ Current(c) \in 0..Len(bucket)
         /\ \A v : IsVersion(c, v) => v \in 1..Current(c)
<1>1. TypeOK /\ Len(bucket) \in Nat
  BY LenProperties DEF IInv, TypeOK
<1>2. /\ Current(c) \in 0..Len(bucket)
      /\ Current(c) # 0 =>
           /\ InBucket(c)
           /\ bucket[Current(c)].key = KeyOf(c)
      /\ \A v \in 1..Len(bucket) :
           InBucket(c) /\ bucket[v].key = KeyOf(c) =>
             v <= Current(c)
  BY <1>1, CurrentIsLast
<1>3. \A v : IsVersion(c, v) => v \in 1..Current(c)
  BY <1>1, <1>2 DEF IsVersion
<1>4. Current(c) # 0 => IsVersion(c, Current(c))
  BY <1>1, <1>2 DEF IsVersion
<1>5. \A p \in since[c] : IsVersion(c, content[p])
  <2> SUFFICES ASSUME NEW p \in since[c] PROVE IsVersion(c, content[p])
    OBVIOUS
  <2>1. Sound(c)
    BY DEF IInv
  <2>2. p \in Acknowledged(c)
    BY <2>1 DEF Sound, SeenSince
  <2>3. /\ p \in Puts /\ result[p] = "ok" /\ InBucket(c)
        /\ KeyOf(p) = KeyOf(c)
    BY <2>2 DEF Acknowledged
  <2>4. p \in Calls /\ Sound(p)
    BY <2>3 DEF IInv, Calls
  <2>5. IsVersion(p, content[p])
    BY <2>3, <2>4 DEF Sound, OwnVersions
  <2>6. QED
    BY <2>3, <2>5 DEF IsVersion
<1>6. QED
  BY <1>2, <1>3, <1>4, <1>5

\* A reader's move keeps the invariant if what it reads is a version of its
\* object, no older than the metadata and what was acknowledged before.
LEMMA ReaderMoveKeeps ==
  ASSUME IInv, NEW c \in Readers,
         NEW to \in Places, NEW r \in Results, NEW m \in Versions,
         NEW k \in Versions,
         Move(c, to, r, m, k, since[c]),
         to # "upload",
         result[c] = "ok" => r = "ok" /\ k = content[c],
         r # "none" => to \in {"done", "streaming"},
         to \in {"head", "download", "open"} \/ r = "ok" =>
           pc[c] \in {"head", "download", "open"} \/ result[c] = "ok",
         r = "ok" => IsVersion(c, k) /\ m <= k,
         to = "download" => IsVersion(c, m),
         to = "download" \/ r = "ok" => \A p \in since[c] : content[p] <= m,
         r = "notFound" => since[c] = {}
  PROVE  IInv'
<1>1. TypeOK /\ NamesChecked /\ c \in Calls /\ c \notin Puts
  BY CallsAssumption DEF IInv, Calls
<1>2. /\ Framed(c)
      /\ pc'[c] = to /\ result'[c] = r /\ meta'[c] = m
      /\ content'[c] = k /\ since'[c] = since[c]
  BY <1>1, MoveIsFramed
<1>3. /\ \A v : IsVersion(c, v) => IsVersion(c, v)'
      /\ Acknowledged(c) \subseteq Acknowledged(c)'
      /\ \A p \in Puts : result[p] = "ok" => content'[p] = content[p]
  BY <1>1, <1>2, Kept
<1>4. since[c] \subseteq Acknowledged(c)
  BY <1>1 DEF IInv, Sound, SeenSince
<1>5. \A p \in since[c] : content'[p] = content[p]
  BY <1>3, <1>4 DEF Acknowledged
<1>6. OwnVersions(c)'
  BY <1>2, <1>3 DEF OwnVersions
<1>7. SeenSince(c)'
  BY <1>2, <1>3, <1>4, <1>5 DEF SeenSince
<1>8. to \in {"head", "download", "open"} \/ r = "ok" =>
        ByURL(c) \/ name[c][1] # Empty
  BY <1>1 DEF NamesChecked
<1>9. since[c] \in SUBSET Puts
  BY <1>1 DEF TypeOK
<1>10. QED
  BY <1>1, <1>6, <1>7, <1>8, <1>9, MoveKeeps DEF Sound

\* The steps of a reader.
LEMMA ReaderKeeps ==
  ASSUME IInv, NEW c \in Readers,
         GetStep(c) \/ StreamStep(c) \/ CloseStream(c) \/ ContextExpires(c)
  PROVE  IInv'
<1>1. /\ TypeOK /\ NamesChecked /\ c \in Calls /\ c \notin Puts /\ Sound(c)
      /\ Len(bucket) \in Nat
  BY CallsAssumption, LenProperties DEF IInv, Calls, TypeOK
<1>2. /\ pc[c] \in Places /\ result[c] \in Results
      /\ meta[c] \in Versions /\ content[c] \in Versions
  BY <1>1 DEF TypeOK, Places, Results
<1>3. Versions \subseteq Nat
  BY DEF Versions
<1>4. /\ \A p \in since[c] : content[p] \in 1..Current(c)
      /\ Current(c) # 0 => IsVersion(c, Current(c))
      /\ Current(c) \in Versions
      /\ \A v : IsVersion(c, v) => v \in 1..Current(c)
  BY <1>1, SinceIsCurrent, VersionsAreNaturals
<1>5. /\ pc = [pc EXCEPT ![c] = pc[c]]
      /\ result = [result EXCEPT ![c] = result[c]]
      /\ meta = [meta EXCEPT ![c] = meta[c]]
      /\ content = [content EXCEPT ![c] = content[c]]
      /\ since = [since EXCEPT ![c] = since[c]]
      /\ live \subseteq Calls
  BY <1>1 DEF TypeOK
<1>6. CASE GetObject(c)
  BY <1>1, <1>6, BeginKeeps DEF GetObject
<1>7. CASE GetObjectStream(c)
  BY <1>1, <1>7, BeginKeeps DEF GetObjectStream
<1>8. CASE HeadObject(c)
  <2>1. result[c] = "none" /\ pc[c] = "head"
    BY <1>1, <1>8, NotReturned DEF HeadObject
  <2>2. Move(c, "download", result[c], Current(c), content[c], since[c])
    BY <1>5, <1>8 DEF HeadObject, Move
  <2>3. /\ IsVersion(c, Current(c))
        /\ \A p \in since[c] : content[p] <= Current(c)
    BY <1>3, <1>4, <1>8 DEF HeadObject
  <2>4. "download" \in Places
    BY DEF Places
  <2>5. QED
    BY <1>2, <1>4, <2>1, <2>2, <2>3, <2>4, ReaderMoveKeeps
<1>9. CASE Download(c)
  <2>1. result[c] = "none" /\ pc[c] = "download"
    BY <1>1, <1>9, NotReturned DEF Download, Return
  <2>2. Move(c, "done", "ok", meta[c], Current(c), since[c])
    BY <1>5, <1>9 DEF Download, Return, Move
  <2>3. IsVersion(c, meta[c]) /\ \A p \in since[c] : content[p] <= meta[c]
    BY <1>1, <2>1 DEF Sound, OwnVersions, SeenSince
  <2>4. IsVersion(c, Current(c)) /\ meta[c] <= Current(c)
    BY <1>3, <1>4, <2>3
  <2>5. "done" \in Places /\ "ok" \in Results
    BY DEF Places, Results
  <2>6. QED
    BY <1>2, <1>4, <2>1, <2>2, <2>3, <2>4, <2>5, ReaderMoveKeeps
<1>10. CASE StreamOpens(c)
  <2>1. result[c] = "none" /\ pc[c] = "open"
    BY <1>1, <1>10, NotReturned DEF StreamOpens
  <2>2. Move(c, "streaming", "ok", Current(c), Current(c), since[c])
    BY <1>5, <1>10 DEF StreamOpens, Move
  <2>3. /\ IsVersion(c, Current(c)) /\ Current(c) <= Current(c)
        /\ \A p \in since[c] : content[p] <= Current(c)
    BY <1>3, <1>4, <1>10 DEF StreamOpens
  <2>4. "streaming" \in Places /\ "ok" \in Results
    BY DEF Places, Results
  <2>5. QED
    BY <1>2, <1>4, <2>1, <2>2, <2>3, <2>4, ReaderMoveKeeps
<1>11. CASE StreamNotFound(c)
  <2>1. result[c] = "none" /\ pc[c] = "open"
    BY <1>1, <1>11, NotReturned DEF StreamNotFound, Return
  <2>2. Move(c, "done", "notFound", meta[c], content[c], since[c])
    BY <1>5, <1>11 DEF StreamNotFound, Return, Move, object
  <2>3. since[c] = {}
    BY <1>4, <1>11 DEF StreamNotFound
  <2>4. "done" \in Places /\ "notFound" \in Results
    BY DEF Places, Results
  <2>5. QED
    BY <1>2, <2>1, <2>2, <2>3, <2>4, ReaderMoveKeeps
<1>12. CASE HeadObjectFails(c) \/ DownloadFails(c) \/ StreamFails(c)
  <2>1. result[c] = "none" /\ pc[c] \in {"head", "download", "open"}
    BY <1>1, <1>12, NotReturned
       DEF HeadObjectFails, DownloadFails, StreamFails, Return
  <2>2. Move(c, "done", "err", meta[c], content[c], since[c])
    BY <1>5, <1>12
       DEF HeadObjectFails, DownloadFails, StreamFails, Return, Move, object
  <2>3. "done" \in Places /\ "err" \in Results
    BY DEF Places, Results
  <2>4. QED
    BY <1>2, <2>1, <2>2, <2>3, ReaderMoveKeeps
<1>13. CASE CloseStream(c) \/ ContextExpires(c)
  <2> DEFINE to == IF CloseStream(c) THEN "done" ELSE pc[c]
  <2>1. pc[c] = "streaming"
    BY <1>13 DEF CloseStream, ContextExpires
  <2>2. Move(c, to, result[c], meta[c], content[c], since[c])
    BY <1>5, <1>13 DEF CloseStream, ContextExpires, Move, object, request
  <2>3. to \in {"done", "streaming"} /\ to \in Places
    BY <2>1 DEF Places
  <2>4. /\ result[c] = "ok" => /\ IsVersion(c, content[c])
                               /\ meta[c] <= content[c]
                               /\ \A p \in since[c] : content[p] <= meta[c]
        /\ result[c] = "notFound" => since[c] = {}
    BY <1>1 DEF Sound, OwnVersions, SeenSince
  <2> HIDE DEF to
  <2>5. QED
    BY <1>2, <2>2, <2>3, <2>4, ReaderMoveKeeps
<1>14. QED
  BY <1>6, <1>7, <1>8, <1>9, <1>10, <1>11, <1>12, <1>13 DEF GetStep, StreamStep

-----------------------------------------------------------------------------
(***************************************************************************)
(* Steps of an upload.                                                     *)
(***************************************************************************)
PutMove(p, to, r, k, t, a) ==
  /\ UNCHANGED <<prefix, name, meta, since>>
  /\ bucket' = bucket \/ Apply(p)
  /\ pc' = [pc EXCEPT ![p] = to]
  /\ result' = [result EXCEPT ![p] = r]
  /\ content' = [content EXCEPT ![p] = k]
  /\ tries' = [tries EXCEPT ![p] = t]
  /\ adrift' = [adrift EXCEPT ![p] = a]
  /\ live' \subseteq Calls

\* A step of an upload concerns its call alone.
LEMMA PutMoveIsFramed ==
  ASSUME TypeOK, NEW p \in Puts, NEW to, NEW r, NEW k, NEW t, NEW a,
         PutMove(p, to, r, k, t, a),
         result[p] = "ok" => r = "ok" /\ k = content[p]
  PROVE  /\ Framed(p)
         /\ pc'[p] = to /\ result'[p] = r /\ content'[p] = k
         /\ tries'[p] = t /\ adrift'[p] = a
         /\ \A q \in Puts \ {p} : tries'[q] = tries[q] /\ adrift'[q] = adrift[q]
<1>1. p \in Calls
  BY DEF Calls
<1>2. /\ pc'[p] = to /\ result'[p] = r /\ content'[p] = k
      /\ tries'[p] = t /\ adrift'[p] = a
  BY <1>1 DEF PutMove, TypeOK
<1>3. \A d \in Calls \ {p} :
        /\ pc'[d] = pc[d] /\ result'[d] = result[d] /\ meta'[d] = meta[d]
        /\ content'[d] = content[d] /\ since'[d] = since[d]
  BY DEF PutMove, TypeOK
<1>4. \A q \in Puts \ {p} : tries'[q] = tries[q] /\ adrift'[q] = adrift[q]
  BY DEF PutMove, TypeOK
<1>5. prefix' = prefix /\ name' = name
      /\ (bucket' = bucket \/ \E q \in Puts : Apply(q))
  BY DEF PutMove
<1>6. QED
  BY <1>2, <1>3, <1>4, <1>5 DEF Framed

\* A step of an upload keeps the invariant if it counts its landing and
\* leaves its own call sound.
LEMMA PutMoveKeeps ==
  ASSUME IInv, NEW p \in Puts, NEW to \in Places, NEW r \in Results,
         NEW k \in Nat, NEW t \in 1..MaxAttempts, NEW a \in Nat,
         PutMove(p, to, r, k, t, a),
         result[p] = "ok" => r = "ok" /\ k = content[p],
         r # "none" => to \in {"done", "streaming"},
         to = "idle" \/ r = "invalid" => t = 1,
         name[p][1] # Empty,
         k = content[p] \/ k = Len(bucket'),
         \/ bucket' = bucket /\ Landed(p)' = Landed(p)
         \/ /\ Apply(p)
            /\ Landed(p)' = Landed(p) + 1 /\ Landed(p)' <= MaxAttempts,
         Sound(p)'
  PROVE  IInv'
<1>1. /\ TypeOK /\ AttemptsCounted /\ NamesChecked /\ KeysOfPaths
      /\ p \in Calls /\ name[p] \in Paths /\ Len(bucket) \in Nat
  BY LenProperties DEF IInv, Calls, NamesChecked, TypeOK
<1>2. /\ Framed(p)
      /\ pc'[p] = to /\ result'[p] = r /\ content'[p] = k
      /\ tries'[p] = t /\ adrift'[p] = a
      /\ \A q \in Puts \ {p} : tries'[q] = tries[q] /\ adrift'[q] = adrift[q]
  BY <1>1, PutMoveIsFramed
<1>3. \A d \in Calls \ {p} : pc'[d] = pc[d] /\ result'[d] = result[d]
  BY <1>2 DEF Framed
<1>4. prefix' = prefix /\ name' = name
  BY DEF PutMove
<1>5. \A q \in Puts \ {p} : Landed(q)' = Landed(q)
  BY <1>2, <1>3 DEF Landed, Calls
<1>6. /\ AttemptsCounted' /\ KeysOfPaths'
      /\ bucket' \in Seq([key : Seq(Pieces), path : Paths])
      /\ Len(bucket') \in Versions
  <2>1. CASE bucket' = bucket /\ Landed(p)' = Landed(p)
    <3>1. AttemptsCounted'
      BY <1>1, <1>5, <2>1, NothingLands
    <3>2. KeysOfPaths'
      BY <1>1, <1>4, <2>1 DEF KeysOfPaths
    <3>3. QED
      BY <1>1, <2>1, <3>1, <3>2 DEF TypeOK
  <2>2. CASE Apply(p) /\ Landed(p)' = Landed(p) + 1 /\ Landed(p)' <= MaxAttempts
    <3>1. /\ bucket' \in Seq([key : Seq(Pieces), path : Paths])
          /\ Len(bucket') = Len(bucket) + 1
          /\ \A i \in 1..Len(bucket) : bucket'[i] = bucket[i]
          /\ bucket'[Len(bucket) + 1] =
               [key |-> KeyOf(p), path |-> name[p]]
          /\ KeyOf(p) = ObjectPath(prefix, name[p])
      BY <1>1, <2>2, Appended
    <3>2. AttemptsCounted' /\ Len(bucket') \in Versions
      BY <1>1, <1>5, <2>2, <3>1, OneLands
    <3>3. KeysOfPaths'
      <4> SUFFICES ASSUME NEW i \in 1..Len(bucket')
                   PROVE  /\ bucket'[i].key = ObjectPath(prefix, bucket'[i].path)
                          /\ bucket'[i].path[1] # Empty
        BY <1>4 DEF KeysOfPaths
      <4>1. i \in 1..Len(bucket) \/ i = Len(bucket) + 1
        BY <1>1, <3>1
      <4>2. CASE i \in 1..Len(bucket)
        BY <1>1, <3>1, <4>2 DEF KeysOfPaths
      <4>3. CASE i = Len(bucket) + 1
        <5>1. bucket'[i].key = KeyOf(p) /\ bucket'[i].path = name[p]
          BY <3>1, <4>3
        <5>2. QED
          BY <3>1, <5>1
      <4>4. QED
        BY <4>1, <4>2, <4>3
    <3>4. QED
      BY <3>1, <3>2, <3>3
  <2>3. QED
    BY <2>1, <2>2
<1>7. adrift'[p] <= MaxAttempts
  <2>1. Landed(p)' >= 0
    BY <1>6 DEF AttemptsCounted
  <2>2. Landed(p)' = (t - 1) + (IF r \in {"ok", "err"} THEN 1 ELSE 0) - a
    BY <1>2 DEF Landed
  <2>3. (IF r \in {"ok", "err"} THEN 1 ELSE 0) \in {0, 1}
    OBVIOUS
  <2>4. QED
    BY <1>2, <2>1, <2>2, <2>3, CallsAssumption
<1>8. TypeOK'
  <2>1. pc' \in [Calls -> Places] /\ result' \in [Calls -> Results]
    BY <1>1 DEF PutMove, TypeOK, Places, Results
  <2>2. tries' \in [Puts -> 1..MaxAttempts]
    BY <1>1 DEF PutMove, TypeOK
  <2>3. a \in 0..MaxAttempts
    BY <1>2, <1>7, CallsAssumption
  <2>4. adrift' \in [Puts -> 0..MaxAttempts]
    BY <1>1, <2>3 DEF PutMove, TypeOK
  <2>5. k \in Versions
    BY <1>1, <1>6 DEF TypeOK
  <2>6. content' \in [Calls -> Versions]
    BY <1>1, <2>5 DEF PutMove, TypeOK
  <2>7. UNCHANGED <<prefix, name, meta, since>> /\ live' \subseteq Calls
    BY DEF PutMove
  <2>8. QED
    BY <1>1, <1>6, <2>1, <2>2, <2>4, <2>6, <2>7 DEF TypeOK, Places, Results
<1>9. NamesChecked'
  <2>1. \A q \in Puts :
          /\ name[q] \in Paths
          /\ pc'[q] = "upload" \/ adrift'[q] > 0 => name[q][1] # Empty
          /\ pc'[q] = "idle" \/ result'[q] = "invalid" => tries'[q] = 1
    BY <1>1, <1>2, <1>3 DEF NamesChecked, Calls
  <2>2. \A g \in Readers : g \in Calls \ {p}
    BY CallsAssumption DEF Calls
  <2>3. \A g \in Readers :
          pc'[g] \in {"head", "download", "open"} \/ result'[g] = "ok" =>
            ByURL(g) \/ name[g][1] # Empty
    BY <1>1, <1>3, <2>2 DEF NamesChecked
  <2>4. \A d \in Calls : result'[d] # "none" => pc'[d] \in {"done", "streaming"}
    BY <1>1, <1>2, <1>3 DEF NamesChecked
  <2>5. QED
    BY <1>1, <1>4, <2>1, <2>3, <2>4 DEF NamesChecked, ByURL
<1>10. \A d \in Calls : Sound(d)'
  BY <1>1, <1>2, OthersStaySound
<1>11. QED
  BY <1>6, <1>8, <1>9, <1>10 DEF IInv

\* The steps of an upload, its late landing included.
LEMMA UploadKeeps ==
  ASSUME IInv, NEW p \in Puts, PutStep(p) \/ UploadLands(p)
  PROVE  IInv'
<1>1. /\ TypeOK /\ NamesChecked /\ AttemptsCounted
      /\ p \in Calls /\ Sound(p) /\ Len(bucket) \in Nat
  BY LenProperties DEF IInv, Calls, TypeOK
<1>2. /\ pc[p] \in Places /\ result[p] \in Results /\ content[p] \in Nat
      /\ tries[p] \in 1..MaxAttempts /\ adrift[p] \in 0..MaxAttempts
      /\ tries[p] \in Nat /\ adrift[p] \in Nat
  BY <1>1, CallsAssumption DEF TypeOK, Places, Results, Versions
<1>3. /\ pc = [pc EXCEPT ![p] = pc[p]]
      /\ result = [result EXCEPT ![p] = result[p]]
      /\ content = [content EXCEPT ![p] = content[p]]
      /\ tries = [tries EXCEPT ![p] = tries[p]]
      /\ live \subseteq Calls
  BY <1>1 DEF TypeOK
<1>4. pc[p] = "upload" \/ adrift[p] > 0 => name[p][1] # Empty
  BY <1>1 DEF NamesChecked
<1>5. p \notin Readers /\ name[p] \in Paths
  BY <1>1, CallsAssumption DEF NamesChecked
<1>7. CASE PutObject(p)
  BY <1>1, <1>7, BeginKeeps DEF PutObject
<1>8. CASE UploadSucceeds(p)
  <2>1. result[p] = "none" /\ pc[p] = "upload" /\ Apply(p)
    BY <1>1, <1>8, NotReturned DEF UploadSucceeds, Return
  <2>2. /\ Len(bucket') = Len(bucket) + 1
        /\ bucket'[Len(bucket) + 1] =
             [key |-> KeyOf(p), path |-> name[p]]
        /\ InBucket(p)
    BY <1>1, <1>5, <2>1, Appended
  <2>3. adrift = [adrift EXCEPT ![p] = adrift[p]]
    BY <1>1 DEF TypeOK
  <2>4. PutMove(p, "done", "ok", Len(bucket'), tries[p], adrift[p])
    BY <1>3, <1>8, <2>3 DEF UploadSucceeds, Return, PutMove
  <2>5. /\ Framed(p) /\ pc'[p] = "done" /\ result'[p] = "ok"
        /\ content'[p] = Len(bucket')
        /\ tries'[p] = tries[p] /\ adrift'[p] = adrift[p]
    BY <1>1, <2>1, <2>4, PutMoveIsFramed
  <2>6. Landed(p)' = Landed(p) + 1 /\ Landed(p)' <= MaxAttempts
    <3>1. Landed(p)' = tries[p] - 1 + 1 - adrift[p]
      BY <2>5 DEF Landed
    <3>2. Landed(p) = tries[p] - 1 + 0 - adrift[p]
      BY <2>1 DEF Landed
    <3>3. QED
      BY <1>2, <3>1, <3>2, CallsAssumption
  <2>7. IsVersion(p, content[p])'
    <3>1. KeyOf(p)' = KeyOf(p) /\ InBucket(p)'
      BY <2>2, <2>5 DEF Framed, KeyOf, InBucket, ByURL, ObjectPath
    <3>2. bucket'[Len(bucket')].key = KeyOf(p)
      BY <2>2
    <3>3. Len(bucket') \in 1..Len(bucket')
      BY <1>1, <2>2
    <3>4. QED
      BY <2>5, <3>1, <3>2, <3>3 DEF IsVersion
  <2>8. since'[p] \subseteq Acknowledged(p)'
    <3>1. since' = since
      BY <2>4 DEF PutMove
    <3>2. Acknowledged(p) \subseteq Acknowledged(p)'
      BY <1>1, <2>5, Kept
    <3>3. QED
      BY <1>1, <3>1, <3>2 DEF Sound, SeenSince
  <2>9. Sound(p)'
    BY <1>5, <2>5, <2>7, <2>8 DEF Sound, OwnVersions, SeenSince
  <2>10. "done" \in Places /\ "ok" \in Results /\ Len(bucket') \in Nat
    BY <1>1, <2>2 DEF Places, Results
  <2>11. QED
    BY <1>2, <1>4, <2>1, <2>4, <2>6, <2>9, <2>10, PutMoveKeeps
<1>9. CASE UploadRetried(p)
  <2>1. result[p] = "none" /\ pc[p] = "upload" /\ tries[p] < MaxAttempts
    BY <1>1, <1>9, NotReturned DEF UploadRetried
  <2>2. PutMove(p, pc[p], result[p], content[p], tries[p] + 1, adrift[p] + 1)
    BY <1>3, <1>9 DEF UploadRetried, GiveUp, PutMove, request, object
  <2>3. /\ tries'[p] = tries[p] + 1 /\ adrift'[p] = adrift[p] + 1
        /\ result'[p] = result[p] /\ bucket' = bucket
    BY <1>1, <1>9, <2>2, PutMoveIsFramed DEF UploadRetried
  <2>4. Landed(p)' = Landed(p)
    <3>1. Landed(p) = tries[p] - 1 + 0 - adrift[p]
      BY <2>1 DEF Landed
    <3>2. Landed(p)' = tries'[p] - 1 + 0 - adrift'[p]
      BY <2>1, <2>3 DEF Landed
    <3>3. QED
      BY <1>2, <2>3, <3>1, <3>2
  <2>5. Sound(p)'
    <3>1. UNCHANGED <<prefix, bucket, pc, result, name, meta, content, since>>
      BY <1>9 DEF UploadRetried, request, object
    <3>2. Acknowledged(p)' = Acknowledged(p)
      BY <3>1 DEF Acknowledged, InBucket, KeyOf, ByURL, ObjectPath
    <3>3. \A v : IsVersion(p, v)' <=> IsVersion(p, v)
      BY <3>1 DEF IsVersion, InBucket, KeyOf, ByURL, ObjectPath
    <3>4. QED
      BY <1>1, <3>1, <3>2, <3>3 DEF Sound, OwnVersions, SeenSince
  <2>6. tries[p] + 1 \in 1..MaxAttempts /\ adrift[p] + 1 \in Nat
    BY <1>2, <2>1, CallsAssumption
  <2>7. QED
    BY <1>2, <1>4, <2>1, <2>2, <2>3, <2>4, <2>5, <2>6, PutMoveKeeps
<1>10. CASE UploadFails(p)
  <2>1. result[p] = "none" /\ pc[p] = "upload"
    BY <1>1, <1>10, NotReturned DEF UploadFails, Return
  <2>2. PutMove(p, "done", "err", content[p], tries[p], adrift[p] + 1)
    BY <1>3, <1>10 DEF UploadFails, Return, GiveUp, PutMove, object
  <2>3. /\ Framed(p) /\ pc'[p] = "done" /\ result'[p] = "err"
        /\ tries'[p] = tries[p] /\ adrift'[p] = adrift[p] + 1
    BY <1>1, <2>1, <2>2, PutMoveIsFramed
  <2>4. Landed(p)' = Landed(p) /\ bucket' = bucket
    <3>1. Landed(p)' = tries[p] - 1 + 1 - (adrift[p] + 1)
      BY <2>3 DEF Landed
    <3>2. Landed(p) = tries[p] - 1 + 0 - adrift[p]
      BY <2>1 DEF Landed
    <3>3. bucket' = bucket
      BY <1>10 DEF UploadFails
    <3>4. QED
      BY <1>2, <3>1, <3>2, <3>3
  <2>5. since'[p] \subseteq Acknowledged(p)'
    <3>1. since' = since
      BY <2>2 DEF PutMove
    <3>2. Acknowledged(p) \subseteq Acknowledged(p)'
      BY <1>1, <2>3, Kept
    <3>3. QED
      BY <1>1, <3>1, <3>2 DEF Sound, SeenSince
  <2>6. Sound(p)'
    BY <1>5, <2>3, <2>5 DEF Sound, OwnVersions, SeenSince
  <2>7. "done" \in Places /\ "err" \in Results /\ adrift[p] + 1 \in Nat
    BY <1>2 DEF Places, Results
  <2>8. QED
    BY <1>2, <1>4, <2>1, <2>2, <2>4, <2>6, <2>7, PutMoveKeeps
<1>11. CASE UploadLands(p)
  <2>1. adrift[p] > 0 /\ Apply(p)
    BY <1>11 DEF UploadLands
  <2>2. PutMove(p, pc[p], result[p], content[p], tries[p], adrift[p] - 1)
    BY <1>3, <1>11 DEF UploadLands, PutMove, request, object
  <2>3. /\ Framed(p) /\ pc'[p] = pc[p] /\ result'[p] = result[p]
        /\ content'[p] = content[p]
        /\ tries'[p] = tries[p] /\ adrift'[p] = adrift[p] - 1
    BY <1>1, <2>2, PutMoveIsFramed
  <2>4. Landed(p)' = Landed(p) + 1 /\ Landed(p)' <= MaxAttempts
    <3> DEFINE one == IF result[p] \in {"ok", "err"} THEN 1 ELSE 0
    <3>1. Landed(p)' = tries[p] - 1 + one - (adrift[p] - 1)
      BY <2>3 DEF Landed
    <3>2. Landed(p) = tries[p] - 1 + one - adrift[p]
      BY DEF Landed
    <3>3. one \in {0, 1}
      OBVIOUS
    <3> HIDE DEF one
    <3>4. QED
      BY <1>2, <2>1, <3>1, <3>2, <3>3, CallsAssumption
  <2>5. UNCHANGED <<meta, since>>
    BY <2>2 DEF PutMove
  <2>6. /\ \A v : IsVersion(p, v) => IsVersion(p, v)'
        /\ Acknowledged(p) \subseteq Acknowledged(p)'
        /\ \A q \in Puts : result[q] = "ok" => content'[q] = content[q]
    BY <1>1, <2>3, Kept
  <2>7. \A q \in since[p] : content'[q] = content[q]
    BY <1>1, <2>6 DEF Sound, SeenSince, Acknowledged
  <2>8. OwnVersions(p)'
    BY <1>1, <2>3, <2>5, <2>6 DEF Sound, OwnVersions
  <2>9. SeenSince(p)'
    BY <1>1, <1>5, <2>3, <2>5, <2>6, <2>7 DEF Sound, SeenSince
  <2>10. /\ result[p] # "none" => pc[p] \in {"done", "streaming"}
         /\ pc[p] = "idle" \/ result[p] = "invalid" => tries[p] = 1
    BY <1>1 DEF NamesChecked
  <2>11. adrift[p] - 1 \in Nat
    BY <1>2, <2>1
  <2>12. QED
    BY <1>2, <1>4, <2>1, <2>2, <2>4, <2>8, <2>9, <2>10, <2>11, PutMoveKeeps
       DEF Sound
<1>12. QED
  BY <1>7, <1>8, <1>9, <1>10, <1>11 DEF PutStep

-----------------------------------------------------------------------------
(***************************************************************************)
(* The theorems.                                                           *)
(***************************************************************************)
LEMMA InitEstablishes == Init => IInv
<1> SUFFICES ASSUME Init PROVE IInv
  OBVIOUS
<1>1. /\ prefix \in Seq(Pieces) \ {<<>>}
      /\ prefix = <<Empty>> \/ prefix[1] # Empty
  <2>1. PICK p \in Prefixes : prefix = CleanPrefix(p)
    BY DEF Init
  <2>2. p \in Seq(Pieces) /\ p # <<>>
    BY NamesAssumption
  <2>3. QED
    BY <2>1, <2>2, CleanPrefixIsClean
<1>2. 0 \in Versions
  <2>1. Cardinality(Puts) \in Nat
    BY FS_CardinalityType, CallsAssumption
  <2>2. MaxAttempts * Cardinality(Puts) \in Nat
    BY <2>1, CallsAssumption
  <2>3. QED
    BY <2>2 DEF Versions
<1>3. bucket = <<>> /\ Len(bucket) = 0
  BY DEF Init
<1>4. TypeOK
  <2>1. bucket \in Seq([key : Seq(Pieces), path : Paths])
    BY <1>3
  <2>2. tries \in [Puts -> 1..MaxAttempts] /\ adrift \in [Puts -> 0..MaxAttempts]
    BY CallsAssumption DEF Init
  <2>3. /\ pc \in [Calls -> Places] /\ result \in [Calls -> Results]
        /\ name \in [Calls -> Paths \cup PathsOrURLs]
    BY DEF Init, Places, Results
  <2>4. meta \in [Calls -> Versions] /\ content \in [Calls -> Versions]
    BY <1>2 DEF Init
  <2>5. since \in [Calls -> SUBSET Puts] /\ live \subseteq Calls
    BY DEF Init
  <2>6. QED
    BY <1>1, <1>2, <1>3, <2>1, <2>2, <2>3, <2>4, <2>5
       DEF TypeOK, Places, Results
<1>5. \A p \in Puts : Landed(p) = 0
  BY DEF Init, Landed, Calls
<1>6. AttemptsCounted
  <2>1. Landings = {}
    <3> SUFFICES ASSUME NEW s \in Puts \X (1..MaxAttempts), s[2] <= Landed(s[1])
                 PROVE  FALSE
      BY DEF Landings
    <3>1. s[1] \in Puts /\ s[2] \in 1..MaxAttempts
      OBVIOUS
    <3>2. QED
      BY <1>5, <3>1, CallsAssumption
  <2>2. QED
    BY <1>3, <1>5, <2>1, FS_EmptySet DEF AttemptsCounted
<1>7. NamesChecked
  BY <1>1 DEF Init, NamesChecked, Calls
<1>8. KeysOfPaths
  BY <1>3 DEF KeysOfPaths
<1>9. \A c \in Calls : Sound(c)
  BY DEF Init, Sound, OwnVersions, SeenSince
<1>10. QED
  BY <1>4, <1>6, <1>7, <1>8, <1>9 DEF IInv

\* Every step keeps the invariant.
LEMMA Inductive == IInv /\ [Next]_vars => IInv'
<1> SUFFICES ASSUME IInv, [Next]_vars PROVE IInv'
  OBVIOUS
<1>1. CASE \E p \in Puts : PutStep(p) \/ UploadLands(p)
  BY <1>1, UploadKeeps
<1>2. CASE \E g \in Readers : GetStep(g)
  BY <1>2, ReaderKeeps
<1>3. CASE \E s \in Readers : StreamStep(s) \/ CloseStream(s) \/ ContextExpires(s)
  BY <1>3, ReaderKeeps
<1>4. CASE UNCHANGED vars
  <2>1. UNCHANGED <<prefix, bucket, tries, adrift, pc, result, name, meta,
                    content, since, live>>
    BY <1>4 DEF vars, upload, request, object
  <2>2. \A c \in Calls : \A v : IsVersion(c, v)' <=> IsVersion(c, v)
    BY <2>1 DEF IsVersion, InBucket, KeyOf, ByURL, ObjectPath
  <2>3. \A c \in Calls : Acknowledged(c)' = Acknowledged(c)
    BY <2>1 DEF Acknowledged, InBucket, KeyOf, ByURL, ObjectPath
  <2>4. \A c \in Calls : Sound(c)'
    BY <2>1, <2>2, <2>3 DEF IInv, Sound, OwnVersions, SeenSince
  <2>5. AttemptsCounted'
    BY <2>1, NothingLands DEF IInv, Landed
  <2>6. TypeOK' /\ NamesChecked' /\ KeysOfPaths'
    BY <2>1 DEF IInv, TypeOK, NamesChecked, KeysOfPaths, ByURL
  <2>7. QED
    BY <2>4, <2>5, <2>6 DEF IInv
<1>5. QED
  BY <1>1, <1>2, <1>3, <1>4 DEF Next

\* The strengthening holds in every state of every behaviour.
THEOREM Invariance == Spec => []IInv
BY InitEstablishes, Inductive, PTL DEF Spec

\* Type correctness; in particular the bucket holds an upload no more often
\* than the backend tried to store it.
THEOREM TypeCorrect == Spec => []TypeOK
<1>1. IInv => TypeOK
  BY DEF IInv
<1>2. QED
  BY <1>1, Invariance, PTL

\* What is read at a path was put at that path: whatever prefix the backend
\* was given, no two paths share a key (getObjectPath).
THEOREM DistinctPaths == Spec => []PathsAreDistinct
<1>1. IInv => PathsAreDistinct
  <2> SUFFICES ASSUME IInv, NEW c \in Readers,
                      result[c] = "ok", ~ByURL(c)
               PROVE  bucket[content[c]].path = name[c]
    BY DEF PathsAreDistinct
  <2>1. TypeOK /\ NamesChecked /\ KeysOfPaths /\ c \in Calls /\ Sound(c)
    BY DEF IInv, Calls
  <2>2. IsVersion(c, content[c])
    BY <2>1 DEF Sound, OwnVersions
  <2>3. name[c] \in Seq(Pieces) /\ name[c] # <<>>
    <3>1. name[c] \in Paths \cup PathsOrURLs
      BY <2>1 DEF TypeOK
    <3>2. QED
      BY <3>1, NamesAssumption
  <2>4. /\ bucket[content[c]].path \in Paths
        /\ bucket[content[c]].path \in Seq(Pieces)
        /\ bucket[content[c]].path # <<>>
    <3>1. bucket \in Seq([key : Seq(Pieces), path : Paths])
      BY <2>1 DEF TypeOK
    <3>2. bucket[content[c]] \in [key : Seq(Pieces), path : Paths]
      BY <2>2, <3>1, ElementOfSeq DEF IsVersion
    <3>3. QED
      BY <3>2, NamesAssumption
  <2>5. ObjectPath(prefix, bucket[content[c]].path) =
          ObjectPath(prefix, name[c])
    BY <2>1, <2>2 DEF KeysOfPaths, IsVersion, KeyOf
  <2>6. /\ prefix \in Seq(Pieces) /\ prefix # <<>>
        /\ prefix = <<Empty>> \/ prefix[1] # Empty
    BY <2>1 DEF TypeOK, NamesChecked
  <2>7. QED
    BY <2>3, <2>4, <2>5, <2>6, ObjectPathIsInjective
<1>2. QED
  BY <1>1, Invariance, PTL

\* A read that begins after an upload was acknowledged returns it or a later
\* one and never misses the object, and GetObject returns content at least as
\* recent as the metadata that came before it.
THEOREM ReadsSeeAcknowledged == Spec => []ReadsAcknowledged
<1>1. IInv => ReadsAcknowledged
  <2> SUFFICES ASSUME IInv, NEW c \in Readers
               PROVE  /\ result[c] = "ok" =>
                           /\ \A p \in since[c] : content[p] \in 1..meta[c]
                           /\ meta[c] <= content[c]
                      /\ result[c] = "notFound" => since[c] = {}
    BY DEF ReadsAcknowledged
  <2>1. TypeOK /\ c \in Calls /\ Sound(c)
    BY DEF IInv, Calls
  <2>2. result[c] = "ok" => /\ \A p \in since[c] : content[p] <= meta[c]
                            /\ meta[c] <= content[c]
    BY <2>1 DEF Sound, SeenSince
  <2>3. \A p \in since[c] : content[p] \in 1..Current(c)
    BY <2>1, SinceIsCurrent
  <2>4. meta[c] \in Nat /\ Current(c) \in Nat
    BY <2>1, SinceIsCurrent, LenProperties DEF TypeOK, Versions
  <2>5. result[c] = "ok" => \A p \in since[c] : content[p] \in 1..meta[c]
    BY <2>2, <2>3, <2>4
  <2>6. result[c] = "notFound" => since[c] = {}
    BY <2>1 DEF Sound, SeenSince
  <2>7. QED
    BY <2>2, <2>5, <2>6
<1>2. QED
  BY <1>1, Invariance, PTL

\* A call that has not begun or has returned holds no context: whichever way
\* it returned, the deferred cancel ran, or the reader's Close did.
ContextsReleased == \A c \in live : pc[c] \notin {"idle", "done"}

\* The safety behind ContextsEnd.
THEOREM NoContextLeft == Spec => []ContextsReleased
<1>1. Init => ContextsReleased
  BY DEF Init, ContextsReleased
<1>2. IInv /\ ContextsReleased /\ [Next]_vars => ContextsReleased'
  <2> SUFFICES ASSUME TypeOK, ContextsReleased, [Next]_vars
               PROVE  ContextsReleased'
    BY DEF IInv
  <2>1. ASSUME NEW c \in Calls, NEW first \in {"upload", "head", "open"},
               Begin(c, first)
        PROVE  ContextsReleased'
    BY <2>1 DEF Begin, ContextsReleased, TypeOK
  <2>2. ASSUME NEW c \in Calls, NEW from, NEW value, Return(c, from, value)
        PROVE  ContextsReleased'
    BY <2>2 DEF Return, ContextsReleased, TypeOK
  <2>3. ASSUME NEW p \in Puts, PutStep(p) \/ UploadLands(p)
        PROVE  ContextsReleased'
    <3>1. p \in Calls
      BY DEF Calls
    <3>2. CASE PutObject(p) \/ UploadSucceeds(p) \/ UploadFails(p)
      BY <2>1, <2>2, <3>1, <3>2 DEF PutObject, UploadSucceeds, UploadFails
    <3>3. CASE UploadRetried(p) \/ UploadLands(p)
      BY <3>3 DEF UploadRetried, UploadLands, request, ContextsReleased
    <3>4. QED
      BY <2>3, <3>2, <3>3 DEF PutStep
  <2>4. ASSUME NEW g \in Readers, GetStep(g) PROVE ContextsReleased'
    <3>1. g \in Calls
      BY DEF Calls
    <3>2. CASE HeadObject(g)
      BY <3>1, <3>2 DEF HeadObject, ContextsReleased, TypeOK
    <3>3. CASE GetObject(g) \/ HeadObjectFails(g) \/ Download(g) \/ DownloadFails(g)
      BY <2>1, <2>2, <3>1, <3>3
         DEF GetObject, HeadObjectFails, Download, DownloadFails
    <3>4. QED
      BY <2>4, <3>2, <3>3 DEF GetStep
  <2>5. ASSUME NEW s \in Readers,
               StreamStep(s) \/ CloseStream(s) \/ ContextExpires(s)
        PROVE  ContextsReleased'
    <3>1. s \in Calls
      BY DEF Calls
    <3>2. CASE StreamOpens(s) \/ CloseStream(s) \/ ContextExpires(s)
      BY <3>1, <3>2
         DEF StreamOpens, CloseStream, ContextExpires, request,
             ContextsReleased, TypeOK
    <3>3. CASE GetObjectStream(s) \/ StreamFails(s) \/ StreamNotFound(s)
      BY <2>1, <2>2, <3>1, <3>3
         DEF GetObjectStream, StreamFails, StreamNotFound
    <3>4. QED
      BY <2>5, <3>2, <3>3 DEF StreamStep
  <2>6. CASE UNCHANGED vars
    BY <2>6 DEF vars, request, ContextsReleased
  <2>7. QED
    BY <2>3, <2>4, <2>5, <2>6 DEF Next
<1>3. QED
  BY <1>1, <1>2, Invariance, PTL DEF Spec
=============================================================================
