--------------------------- MODULE ObjectStoreMC ---------------------------
(***************************************************************************)
(* ObjectStore with two uploads and one reader (readers do not affect      *)
(* each other); a prefix with superfluous slashes and none.  Uploads: a    *)
(* path with an empty piece, one that is invalid, and one that a read      *)
(* takes for the URL of an object of the bucket.  Reads: the same, the     *)
(* first path without its empty piece, and the URLs, in either case, of an *)
(* object of another bucket and of another host.                           *)
(***************************************************************************)
EXTENDS ObjectStore, TLC

CONSTANTS p1, p2, r1

MCSchemes  == {"https:", "HTTPS:"}
MCLabels   ==
  "media.s3.amazonaws.com" :> <<"media", "s3", "amazonaws", "com">> @@
  "s3.amazonaws.com"       :> <<"s3", "amazonaws", "com">> @@
  "media.com"              :> <<"media", "com">>
MCPieces   == {"", "x", "a"} \cup MCSchemes \cup DOMAIN MCLabels
MCPuts     == {p1, p2}
MCReaders  == {r1}
MCBucket   == "media"
MCPrefixes == {<<"", "x", "">>, <<"">>}
MCPaths    ==
  {<<"x", "", "a">>, <<"", "a">>,
   <<"https:", "", "media.s3.amazonaws.com", "x", "", "a">>}
MCPathsOrURLs == MCPaths \cup
  {<<"x", "a">>,
   <<"HTTPS:", "", "s3.amazonaws.com", "x", "", "a">>,
   <<"https:", "", "media.com", "x", "", "a">>}
=============================================================================
