--------------------------------- MODULE CApi ---------------------------------
(***************************************************************************)
(* The C interface (src/src/capi.cpp, src/include/sealpack.h): what it     *)
(* keeps beside the Pack of a handle.  The paths of entries belong to the  *)
(* handle and live in its caches; the reason of a failed open belongs to   *)
(* the thread that called it.  What a call does to the pack is in Pack,    *)
(* PackFile and Overlay; here it succeeds or fails.                        *)
(***************************************************************************)
EXTENDS Naturals, FiniteSets

CONSTANTS
  Thread,
  SpHandle   \* bound: the handles that are open at a time

ASSUME CApiAssumption == IsFiniteSet(SpHandle)

VARIABLES
  open,        \* the handles in use
  cached,      \* the caches whose strings have not been freed
  given,       \* history: the strings that the header says a caller may still read
  g_open_err   \* of each thread

apiVars == <<open, cached, given, g_open_err>>

Status == {"OK", "IO", "AUTH", "NOMEM", "ARG"}

\* The strings of a handle: list_cache and stat_path.
String == SpHandle \X {"list_cache", "stat_path"}
StringsOf(h) == {s \in String : s[1] = h}

\* Faulty variants, each a bug one could write.
OfAnyHandle(h, cache) == {s \in String : s[2] = cache}

\* g_open_err is thread_local.
OpenErr(t, code) == [g_open_err EXCEPT ![t] = code]

\* The strings that are freed when a cache gets others.
Overwritten(h, cache) == {<<h, cache>>}

\* sealpack_create and sealpack_open: an argument is null, the Pack's call fails,
\* or there is no memory for the handle.
Outcome == [create |-> {"ARG", "IO", "NOMEM"}, open |-> {"ARG", "AUTH", "NOMEM"}]

ReturnsNull(t, code) ==
  /\ g_open_err' = OpenErr(t, code)
  /\ UNCHANGED <<open, cached, given>>

ReturnsHandle(t, h) ==
  /\ h \notin open
  /\ open' = open \union {h}
  /\ g_open_err' = OpenErr(t, "OK")
  /\ UNCHANGED <<cached, given>>

\* sealpack_close: the handle and its caches are freed.
SpClose(h) ==
  /\ h \in open
  /\ open' = open \ {h}
  /\ cached' = cached \ StringsOf(h)
  /\ given' = given \ StringsOf(h)
  /\ UNCHANGED <<g_open_err>>

\* put, del, move, copy, commit, compact, rekey, or merge into h of another handle,
\* whether or not it succeeds: by the header a mutation ends a caller's right to the
\* strings of h.  They stay in their caches.
Mutate(h) ==
  /\ h \in open
  /\ given' = given \ StringsOf(h)
  /\ UNCHANGED <<open, cached, g_open_err>>

\* list and stat fill a cache of their own; by the header either ends a caller's
\* right to what both gave out before.
Fill(h, cache) ==
  /\ cached' = (cached \ Overwritten(h, cache)) \union {<<h, cache>>}
  /\ UNCHANGED <<open, g_open_err>>

\* There may be no memory for the array, when the cache has been filled.
SpList(h) ==
  /\ h \in open
  /\ Fill(h, "list_cache")
  /\ given' \in {given \ StringsOf(h), (given \ StringsOf(h)) \union {<<h, "list_cache">>}}

\* A path that is not there leaves the cache alone.
SpStat(h) ==
  /\ h \in open
  /\ \/ /\ Fill(h, "stat_path")
        /\ given' = (given \ StringsOf(h)) \union {<<h, "stat_path">>}
     \/ /\ given' = given \ StringsOf(h)
        /\ UNCHANGED <<open, cached, g_open_err>>

ApiInit ==
  /\ open = {} /\ cached = {} /\ given = {}
  /\ g_open_err = [t \in Thread |-> "OK"]

ApiNext ==
  \/ \E t \in Thread :
       \/ \E code \in Outcome.create \union Outcome.open : ReturnsNull(t, code)
       \/ \E h \in SpHandle : ReturnsHandle(t, h)
  \/ \E h \in SpHandle : SpClose(h) \/ Mutate(h) \/ SpList(h) \/ SpStat(h)

ApiSpec == ApiInit /\ [][ApiNext]_apiVars

-----------------------------------------------------------------------------
(* Properties.                                                             *)

\* Every string that the header lets a caller read ("owned by sp - invalidated by
\* close, the next mutation, or the next sealpack_list/sealpack_stat on the same
\* handle") is still in a cache, whatever is done with the other handles.
EntriesLive == given \subseteq cached
=============================================================================
