--------------------------- MODULE CountryCache ---------------------------
(***************************************************************************)
(* GetUserLocationFromIPAddress and LoadAllCountries                       *)
(* (utils/user-location.go): lookups and reloads run concurrently and      *)
(* share countryCache.  Every access of the map is a critical section of   *)
(* countryCacheMutex and is one step here; the requests to the two         *)
(* services happen between them, with the mutex released.  Cached names    *)
(* never expire: only a reload replaces them.                              *)
(*                                                                         *)
(* A name is represented by the version of the service's data it was taken *)
(* from, which tells a stale name from a current one.                      *)
(***************************************************************************)
EXTENDS Naturals

CONSTANTS
  Lookups,     \* goroutines in GetUserLocationFromIPAddress
  Loaders,     \* goroutines in LoadAllCountries
  Codes,       \* country codes the IP service may report
  MaxVersion   \* bound: versions of the countries service's data

ASSUME MaxVersionAssumption == MaxVersion \in Nat \ {0}

VARIABLES
  version,      \* the version the countries service answers with
  countryCache, \* the entry cached for each code
  lookupPc,     \* where each lookup is
  code,         \* the countryCode each lookup works on
  name,         \* the name each lookup has: fetched, or to be returned
  loaderPc,     \* where each reload is
  newCache,     \* the entries of each reload's newCache, empty before and after
  fetched,      \* history: the version each newCache was built from
  swapped,      \* history: the one the last reload put into the cache
  listed,       \* history: the codes that one had an entry for
  overlapped    \* history: codes being fetched when it did

lookupVars == <<lookupPc, code, name>>
loaderVars == <<loaderPc, newCache, fetched>>
history    == <<swapped, listed, overlapped>>
cacheVars  == <<version, countryCache, lookupVars, loaderVars, history>>

Versions == 1..MaxVersion
NoName   == 0               \* no entry, or no name yet
Nameless == MaxVersion + 1  \* the empty name
Entries  == Versions \cup {NoName, Nameless}

NoEntries == [c \in Codes |-> NoName]

CacheInit ==
  /\ version = 1
  /\ countryCache = NoEntries
  /\ lookupPc = [l \in Lookups |-> "idle"]
  /\ code \in [Lookups -> Codes]
  /\ name = [l \in Lookups |-> NoName]
  /\ loaderPc = [k \in Loaders |-> "idle"]
  /\ newCache = [k \in Loaders |-> NoEntries]
  /\ fetched = [k \in Loaders |-> 0]
  /\ swapped = 0
  /\ listed = {}
  /\ overlapped = {}

LookupGoto(l, from, to) ==
  /\ lookupPc[l] = from
  /\ lookupPc' = [lookupPc EXCEPT ![l] = to]

LoaderGoto(k, from, to) ==
  /\ loaderPc[k] = from
  /\ loaderPc' = [loaderPc EXCEPT ![k] = to]

-----------------------------------------------------------------------------
(***************************************************************************)
(* A lookup.                                                               *)
(***************************************************************************)

\* getLocationFromIP found the country of the caller's address.  When it
\* fails the lookup returns its error and has touched nothing.
Locate(l) ==
  /\ LookupGoto(l, "idle", "lookup")
  /\ \E c \in Codes : code' = [code EXCEPT ![l] = c]
  /\ name' = [name EXCEPT ![l] = NoName]
  /\ UNCHANGED <<version, countryCache, loaderVars, history>>

\* name, ok := countryCache[countryCode], under the read lock; an entry that
\* is empty is a hit like any other
ReadHit(l) ==
  /\ countryCache[code[l]] # NoName
  /\ LookupGoto(l, "lookup", "idle")
  /\ name' = [name EXCEPT ![l] = countryCache[code[l]]]
  /\ UNCHANGED <<version, countryCache, code, loaderVars, history>>

ReadMiss(l) ==
  /\ countryCache[code[l]] = NoName
  /\ LookupGoto(l, "lookup", "fetch")
  /\ UNCHANGED <<version, countryCache, code, name, loaderVars, history>>

\* Fault: the name is stored even if the answer has none.
FetchNameless(l) ==
  /\ LookupGoto(l, "fetch", "store")
  /\ name' \in {[name EXCEPT ![l] = v] : v \in {Nameless, version}}
  /\ UNCHANGED <<version, countryCache, code, loaderVars, history>>

\* The service answers the request for one country with a name.
FetchName(l) ==
  /\ LookupGoto(l, "fetch", "store")
  /\ name' = [name EXCEPT ![l] = version]
  /\ UNCHANGED <<version, countryCache, code, loaderVars, history>>

\* The request fails (its error is overwritten, but Unmarshal fails too on
\* the missing body), or the answer has no name: the lookup returns the code
\* and stores nothing.
FetchNothing(l) ==
  /\ LookupGoto(l, "fetch", "idle")
  /\ UNCHANGED <<version, countryCache, code, name, loaderVars, history>>

\* countryCache[countryCode] = name, under the write lock, into whatever map
\* the variable now holds
Store(l) ==
  /\ LookupGoto(l, "store", "idle")
  /\ countryCache' = [countryCache EXCEPT ![code[l]] = name[l]]
  /\ UNCHANGED <<version, code, name, loaderVars, history>>

-----------------------------------------------------------------------------
(***************************************************************************)
(* A reload.                                                               *)
(***************************************************************************)

\* The service answers the request for all countries, with whichever it then
\* has, and newCache is built from the answer: names are not checked here.
\* When the request or its decoding fails the reload returns an error and
\* has touched nothing.
FetchAll(k) ==
  /\ LoaderGoto(k, "idle", "swap")
  /\ \E list \in [Codes -> {NoName, Nameless, version}] :
       newCache' = [newCache EXCEPT ![k] = list]
  /\ fetched' = [fetched EXCEPT ![k] = version]
  /\ UNCHANGED <<version, countryCache, lookupVars, history>>

\* Bookkeeping of Swap: the list, and what was being fetched when it replaced
\* the cache.  newCache was a variable of the call, which ends.
NoteSwap(k) ==
  /\ swapped' = fetched[k]
  /\ listed' = {c \in Codes : newCache[k][c] # NoName}
  /\ overlapped' = {code[l] : l \in {l \in Lookups :
                                       lookupPc[l] \in {"fetch", "store"}}}
  /\ newCache' = [newCache EXCEPT ![k] = NoEntries]
  /\ fetched' = [fetched EXCEPT ![k] = 0]

\* Fault: the reload adds the countries that are missing and keeps the rest.
SwapKeepsExisting(k) ==
  /\ LoaderGoto(k, "swap", "idle")
  /\ countryCache' =
       [c \in Codes |-> IF countryCache[c] = NoName
                        THEN newCache[k][c] ELSE countryCache[c]]
  /\ NoteSwap(k)
  /\ UNCHANGED <<version, lookupVars>>

\* Fault: the cache is emptied and left to fill up again.
SwapEmpties(k) ==
  /\ LoaderGoto(k, "swap", "idle")
  /\ countryCache' = NoEntries
  /\ NoteSwap(k)
  /\ UNCHANGED <<version, lookupVars>>

\* countryCache = newCache, under the write lock: names fetched one by one
\* for countries the list does not contain are forgotten.
Swap(k) ==
  /\ LoaderGoto(k, "swap", "idle")
  /\ countryCache' = newCache[k]
  /\ NoteSwap(k)
  /\ UNCHANGED <<version, lookupVars>>

\* The countries service changes its data.
NewVersion ==
  /\ version < MaxVersion
  /\ version' = version + 1
  /\ UNCHANGED <<countryCache, lookupVars, loaderVars, history>>

LookupStep(l) ==
  \/ Locate(l)
  \/ ReadHit(l)
  \/ ReadMiss(l)
  \/ FetchName(l)
  \/ FetchNothing(l)
  \/ Store(l)

LoaderStep(k) == FetchAll(k) \/ Swap(k)

CacheNext ==
  \/ \E l \in Lookups : LookupStep(l)
  \/ \E k \in Loaders : LoaderStep(k)
  \/ NewVersion

CacheSpec == CacheInit /\ [][CacheNext]_cacheVars

-----------------------------------------------------------------------------
(***************************************************************************)
(* Properties.                                                             *)
(***************************************************************************)

\* Types; a lookup about to store has a name to store.
CacheTypeOK ==
  /\ version \in Versions
  /\ countryCache \in [Codes -> Entries]
  /\ lookupPc \in [Lookups -> {"idle", "lookup", "fetch", "store"}]
  /\ code \in [Lookups -> Codes]
  /\ name \in [Lookups -> Entries]
  /\ \A l \in Lookups : lookupPc[l] = "store" => name[l] \in Versions
  /\ loaderPc \in [Loaders -> {"idle", "swap"}]
  /\ newCache \in [Loaders -> [Codes -> Entries]]
  /\ fetched \in [Loaders -> {0} \cup Versions]
  /\ swapped \in {0} \cup Versions
  /\ listed \subseteq Codes
  /\ overlapped \subseteq Codes

\* A cached name is at least as recent as the last reload, except for codes
\* some lookup was fetching while the reload took effect: those lookups
\* store what they fetched before into the new map (user-location.go:100,
\* 130), and nothing corrects them until the next reload.
FreshUnlessOverlapping ==
  \A c \in Codes \ overlapped :
    countryCache[c] \in Versions => countryCache[c] >= swapped

\* No lookup misses a country the last reload listed, with a name or without,
\* however lookups and reloads overlap.
ListedStayCached == \A c \in listed : countryCache[c] # NoName
=============================================================================
