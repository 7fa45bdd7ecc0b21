---------------------------- MODULE ObjectStore ----------------------------
(***************************************************************************)
(* AmazonS3Backend (storage/objectstore/s3/s3.go): uploads, downloads and  *)
(* streams of one backend run concurrently against one bucket.             *)
(*                                                                         *)
(* A path, a URL, a key or a prefix is the sequence of the pieces between  *)
(* its slashes: "a/b" is <<"a", "b">>, "/a" is <<Empty, "a">>, the empty   *)
(* string is <<Empty>> and "https://h/a" is <<"https:", Empty, "h", "a">>. *)
(* URLs are well formed, without port, query or escapes.                   *)
(*                                                                         *)
(* The bucket is external: a request to store takes effect at once or not  *)
(* at all, and reads see the last one that did.  The bucket is the         *)
(* sequence of those that did; a version is a position in it, 0 being no   *)
(* object.  Objects fit in one part, so that a download is one request.    *)
(* The client retries a request it had no answer to (s3.go:54-55), which   *)
(* may still take effect later; for reads the last attempt is all there is.*)
(***************************************************************************)
EXTENDS Naturals, Sequences, FiniteSets, FiniteSetsExt

CONSTANTS
  Pieces,      \* pieces of names
  Empty,       \* the empty one
  Puts,        \* calls of PutObject
  Readers,     \* calls of GetObject or GetObjectStream
  Prefixes,    \* prefixes the backend may be given
  Paths,       \* what the application gives to PutObject
  PathsOrURLs, \* what it gives to GetObject and GetObjectStream
  Schemes,     \* "https:" in its spellings: case does not matter
  Labels,      \* of a piece that is a host, the labels between its dots
  Bucket,      \* the backend's bucket, a label of a host
  MaxAttempts  \* attempts of one request: 3 in the code

ASSUME CallsAssumption ==
  /\ Puts \cap Readers = {}
  /\ IsFiniteSet(Puts)
  /\ MaxAttempts \in Nat \ {0}
ASSUME NamesAssumption ==
  /\ Empty \in Pieces
  /\ Prefixes \cup Paths \cup PathsOrURLs \subseteq Seq(Pieces) \ {<<>>}

VARIABLES
  prefix,    \* prefix of the backend
  bucket,    \* what was stored: [key, path], in that order
  tries,     \* attempts each upload made
  adrift,    \* attempts without an answer that may yet take effect
  pc,        \* where each call is
  name,      \* the path or URL each call was given
  result,    \* what the call returned: "none" until then
  meta,      \* version in the returned metadata
  content,   \* version a put was told it wrote, or the others have read
  since,     \* history: uploads of the object acknowledged before the call
  live       \* calls whose context is neither cancelled nor expired

request == <<pc, result>>
object  == <<meta, content>>
upload  == <<bucket, tries, adrift>>
vars == <<prefix, upload, request, name, object, since, live>>

Calls == Puts \cup Readers

-----------------------------------------------------------------------------
(***************************************************************************)
(* Names.                                                                  *)
(***************************************************************************)

\* strings.Trim(prefix, "/")
CleanPrefix(p) ==
  LET full == {i \in DOMAIN p : p[i] # Empty}
  IN IF full = {} THEN <<Empty>> ELSE SubSeq(p, Min(full), Max(full))

\* Fault: empty pieces are dropped, as path.Join does.
JoinedObjectPath(pre, path) ==
  SelectSeq(pre \o path, LAMBDA piece : piece # Empty)

\* strings.TrimPrefix(s, "/")
TrimSlash(s) == IF Len(s) > 1 /\ Head(s) = Empty THEN Tail(s) ELSE s

\* prefix + "/" + path without one leading slash
ObjectPath(pre, path) == TrimSlash(pre \o path)

\* Empty, or a slash at either end.
ObjectPathIsInvalid(path) == path[1] = Empty \/ path[Len(path)] = Empty

\* strings.HasPrefix(strings.ToLower(pathOrURL), "https://")
IsURL(n) == Len(n) > 2 /\ n[1] \in Schemes /\ n[2] = Empty

\* Reads take an https:// name for a URL.  PutObject does not look: such a
\* name is a path to it like any other.
ByURL(c) == c \in Readers /\ IsURL(name[c])

\* The host must end in .amazonaws.com; whatever precedes its first dot is
\* taken for the bucket, and the URL's path without its slash for the key.
Host(u) == Labels[u[3]]

S3URLIsInvalid(u) ==
  LET n == Len(Host(u))
  IN n < 3 \/ Host(u)[n] # "com" \/ Host(u)[n - 1] # "amazonaws"

S3URLKey(u) == IF Len(u) > 3 THEN SubSeq(u, 4, Len(u)) ELSE <<Empty>>

\* resolveBucketAndKey, or the first lines of PutObject.
NameIsInvalid(c) ==
  IF ByURL(c) THEN S3URLIsInvalid(name[c]) ELSE ObjectPathIsInvalid(name[c])

KeyOf(c) ==
  IF ByURL(c) THEN S3URLKey(name[c]) ELSE ObjectPath(prefix, name[c])

InBucket(c) == ByURL(c) => Host(name[c])[1] = Bucket

\* The version a request for the call's key finds; none in another bucket,
\* whose contents are not modelled.
Current(c) ==
  Max({0} \cup {i \in DOMAIN bucket : InBucket(c) /\ bucket[i].key = KeyOf(c)})

-----------------------------------------------------------------------------
Init ==
  /\ prefix \in {CleanPrefix(p) : p \in Prefixes}
  /\ bucket = <<>>
  /\ tries = [p \in Puts |-> 1]
  /\ adrift = [p \in Puts |-> 0]
  /\ pc = [c \in Calls |-> "idle"]
  /\ name \in [Calls -> Paths \cup PathsOrURLs]
  /\ \A p \in Puts : name[p] \in Paths
  /\ \A c \in Readers : name[c] \in PathsOrURLs
  /\ result = [c \in Calls |-> "none"]
  /\ meta = [c \in Calls |-> 0]
  /\ content = [c \in Calls |-> 0]
  /\ since = [c \in Calls |-> {}]
  /\ live = {}

\* The uploads of the call's object whose caller was told it is stored.
Acknowledged(c) ==
  {p \in Puts : result[p] = "ok" /\ InBucket(c) /\ KeyOf(p) = KeyOf(c)}

\* A call begins, with a context of its own, or is refused its name.
Begin(c, first) ==
  /\ pc[c] = "idle"
  /\ since' = [since EXCEPT ![c] = Acknowledged(c)]
  /\ IF NameIsInvalid(c)
     THEN /\ pc' = [pc EXCEPT ![c] = "done"]
          /\ result' = [result EXCEPT ![c] = "invalid"]
          /\ UNCHANGED live
     ELSE /\ pc' = [pc EXCEPT ![c] = first]
          /\ live' = live \cup {c}
          /\ UNCHANGED result
  /\ UNCHANGED <<prefix, upload, name, object>>

\* A call returns and its deferred cancel runs.
Return(c, from, value) ==
  /\ pc[c] = from
  /\ pc' = [pc EXCEPT ![c] = "done"]
  /\ result' = [result EXCEPT ![c] = value]
  /\ live' = live \ {c}
  /\ UNCHANGED <<prefix, name, since>>

-----------------------------------------------------------------------------
(***************************************************************************)
(* PutObject.                                                              *)
(***************************************************************************)
PutObject(p) == Begin(p, "upload")

\* The bucket stores what a call uploads.
Apply(p) ==
  bucket' = Append(bucket, [key |-> KeyOf(p), path |-> name[p]])

\* Fault: the result of the upload is not awaited.
UploadUnawaited(p) ==
  /\ Return(p, "upload", "ok")
  /\ \/ Apply(p) /\ content' = [content EXCEPT ![p] = Len(bucket')]
     \/ UNCHANGED <<bucket, content>>
  /\ UNCHANGED <<tries, adrift, meta>>

UploadSucceeds(p) ==
  /\ Return(p, "upload", "ok")
  /\ Apply(p)
  /\ content' = [content EXCEPT ![p] = Len(bucket')]
  /\ UNCHANGED <<tries, adrift, meta>>

\* An attempt is given up on; it may still reach the bucket.
GiveUp(p) == adrift' = [adrift EXCEPT ![p] = @ + 1]

\* Fault: attempts are not limited.
UploadRetriedAlways(p) ==
  /\ pc[p] = "upload"
  /\ tries' = [tries EXCEPT ![p] = @ + 1]
  /\ GiveUp(p)
  /\ UNCHANGED <<prefix, bucket, request, name, object, since, live>>

\* There was no answer, or one that asks to try again.
UploadRetried(p) ==
  /\ pc[p] = "upload"
  /\ tries[p] < MaxAttempts
  /\ tries' = [tries EXCEPT ![p] = @ + 1]
  /\ GiveUp(p)
  /\ UNCHANGED <<prefix, bucket, request, name, object, since, live>>

\* The upload failed, was aborted or timed out.
UploadFails(p) ==
  /\ Return(p, "upload", "err")
  /\ GiveUp(p)
  /\ UNCHANGED <<bucket, tries, object>>

UploadLands(p) ==
  /\ adrift[p] > 0
  /\ adrift' = [adrift EXCEPT ![p] = @ - 1]
  /\ Apply(p)
  /\ UNCHANGED <<prefix, tries, request, name, object, since, live>>

-----------------------------------------------------------------------------
(***************************************************************************)
(* GetObject: the metadata first, then the content.                        *)
(***************************************************************************)
GetObject(g) == Begin(g, "head")

HeadObject(g) ==
  /\ pc[g] = "head"
  /\ Current(g) # 0
  /\ meta' = [meta EXCEPT ![g] = Current(g)]
  /\ pc' = [pc EXCEPT ![g] = "download"]
  /\ UNCHANGED <<prefix, upload, name, result, content, since, live>>

\* The object is missing, for which HeadObject has an error other than the
\* NoSuchKey the code looks for, or the request failed.
HeadObjectFails(g) ==
  /\ Return(g, "head", "err")
  /\ UNCHANGED <<upload, object>>

Download(g) ==
  /\ Return(g, "download", "ok")
  /\ content' = [content EXCEPT ![g] = Current(g)]
  /\ UNCHANGED <<upload, meta>>

DownloadFails(g) ==
  /\ Return(g, "download", "err")
  /\ UNCHANGED <<upload, object>>

-----------------------------------------------------------------------------
(***************************************************************************)
(* GetObjectStream: metadata and content come with one response, and the   *)
(* context lives until the caller closes the reader.                       *)
(***************************************************************************)
GetObjectStream(s) == Begin(s, "open")

StreamOpens(s) ==
  /\ pc[s] = "open"
  /\ Current(s) # 0
  /\ meta' = [meta EXCEPT ![s] = Current(s)]
  /\ content' = [content EXCEPT ![s] = Current(s)]
  /\ result' = [result EXCEPT ![s] = "ok"]
  /\ pc' = [pc EXCEPT ![s] = "streaming"]
  /\ UNCHANGED <<prefix, upload, name, since, live>>

StreamFails(s) ==
  /\ Return(s, "open", "err")
  /\ UNCHANGED <<upload, object>>

\* GetObject answers a missing key with NoSuchKey.
StreamNotFound(s) ==
  /\ Current(s) = 0
  /\ Return(s, "open", "notFound")
  /\ UNCHANGED <<upload, object>>

\* Close of the reader, whether or not the context has expired.
CloseStream(s) ==
  /\ pc[s] = "streaming"
  /\ pc' = [pc EXCEPT ![s] = "done"]
  /\ live' = live \ {s}
  /\ UNCHANGED <<prefix, upload, name, result, object, since>>

\* Fault: the timeout covers the request but not the reader.
ContextExpiresUnread(c) ==
  /\ c \in live
  /\ pc[c] = "open"
  /\ live' = live \ {c}
  /\ UNCHANGED <<prefix, upload, request, name, object, since>>

\* Five minutes have passed.  What the context does to a request is among
\* the failures above; here it ends the stream of an open reader.
ContextExpires(c) ==
  /\ c \in live
  /\ pc[c] = "streaming"
  /\ live' = live \ {c}
  /\ UNCHANGED <<prefix, upload, request, name, object, since>>

-----------------------------------------------------------------------------
PutStep(p) ==
  \/ PutObject(p)
  \/ UploadSucceeds(p)
  \/ UploadRetried(p)
  \/ UploadFails(p)

GetStep(g) ==
  \/ GetObject(g)
  \/ HeadObject(g)
  \/ HeadObjectFails(g)
  \/ Download(g)
  \/ DownloadFails(g)

StreamStep(s) ==
  \/ GetObjectStream(s)
  \/ StreamOpens(s)
  \/ StreamFails(s)
  \/ StreamNotFound(s)

Next ==
  \/ \E p \in Puts : PutStep(p) \/ UploadLands(p)
  \/ \E g \in Readers : GetStep(g)
  \/ \E s \in Readers : StreamStep(s) \/ CloseStream(s) \/ ContextExpires(s)

Spec == Init /\ [][Next]_vars

\* Requests end, if only by the expiry of their context.  Nothing makes a
\* caller close its reader.
Fairness ==
  /\ \A p \in Puts : WF_vars(PutStep(p))
  /\ \A c \in Readers : /\ WF_vars(GetStep(c) \/ StreamStep(c))
                        /\ WF_vars(ContextExpires(c))

FairSpec == Spec /\ Fairness

-----------------------------------------------------------------------------
(***************************************************************************)
(* Properties.                                                             *)
(***************************************************************************)
Versions == 0..(MaxAttempts * Cardinality(Puts))

\* Types; an upload is stored once for each of its attempts at most.
TypeOK ==
  /\ prefix \in Seq(Pieces) \ {<<>>}
  /\ bucket \in Seq([key : Seq(Pieces), path : Paths])
  /\ Len(bucket) \in Versions
  /\ tries \in [Puts -> 1..MaxAttempts]
  /\ adrift \in [Puts -> 0..MaxAttempts]
  /\ pc \in [Calls -> {"idle", "upload", "head", "download", "open",
                       "streaming", "done"}]
  /\ name \in [Calls -> Paths \cup PathsOrURLs]
  /\ result \in [Calls -> {"none", "ok", "err", "invalid", "notFound"}]
  /\ meta \in [Calls -> Versions]
  /\ content \in [Calls -> Versions]
  /\ since \in [Calls -> SUBSET Puts]
  /\ live \subseteq Calls

\* An object read by path was put at that very path: no two paths share a
\* key, whatever the prefix (s3.go:224-226), also where PutObject was given
\* paths that a read would take for URLs.
PathsAreDistinct ==
  \A c \in Readers :
    result[c] = "ok" /\ ~ByURL(c) => bucket[content[c]].path = name[c]

\* A read sees every upload of the object that was acknowledged before it
\* began, overwritten or not, and never reports the object missing; the
\* content GetObject returns is at least as recent as the metadata it read
\* before (s3.go:125-144).
ReadsAcknowledged ==
  \A c \in Readers :
    /\ result[c] = "ok" => /\ \A p \in since[c] : content[p] \in 1..meta[c]
                           /\ meta[c] <= content[c]
    /\ result[c] = "notFound" => since[c] = {}

\* Even the context of a reader nobody closes ends.
ContextsEnd == \A c \in Calls : c \in live ~> c \notin live
=============================================================================
