------------------------------- MODULE Cache -------------------------------
(***************************************************************************)
(* The packument cache (src/proxy/cache.rs): documents under a key of       *)
(* package and credential, for a time, bounded by a number of entries and   *)
(* by a budget of bytes.                                                    *)
(*                                                                          *)
(* Every operation takes the lock once, but insert and get read the clock   *)
(* before they have it, so another task may store something in between and  *)
(* a lookup or an insertion may arrive with a time that is already past.    *)
(*                                                                          *)
(* Data.  A document is its estimated size.  The fingerprint is taken to be *)
(* injective, so two credentials are two keys.                              *)
(***************************************************************************)
EXTENDS Integers, FiniteSetsExt, SequencesExt

CONSTANTS
  Nothing,
  Task,       \* the handlers that use the cache
  CacheKey,   \* a package and a credential's fingerprint
  Document,
  Size,       \* estimate_size of each document
  Ttl,        \* packument_ttl_secs; 0 disables the cache, like the next two
  MaxEntries,
  MaxBytes,
  MaxTime     \* bound on the clock

ASSUME CacheAssumption ==
  /\ Size \in [Document -> Nat \ {0}]
  /\ Ttl \in Nat /\ MaxEntries \in Nat /\ MaxBytes \in Nat
  /\ MaxTime \in Nat
  /\ Nothing \notin Document

VARIABLES
  entries, \* CacheKey -> the entry held, or Nothing
  bytes,   \* the running total of CacheInner
  calls,   \* Task -> its insert or get between the clock and the lock, or Nothing
  answer,  \* the last get: its key and what it returned
  latest,  \* history: CacheKey -> the document of the last insert, or Nothing
  now      \* Instant::now()

cacheVars == <<entries, bytes, calls, answer, latest, now>>

Entry == [doc : Document, stored : 0..MaxTime]

Call ==
  [op : {"insert"}, key : CacheKey, doc : Document, at : 0..MaxTime]
    \cup [op : {"get"}, key : CacheKey, at : 0..MaxTime]

ASSUME NothingAssumption == Nothing \notin Entry /\ Nothing \notin Call

Held == {k \in CacheKey : entries[k] # Nothing}

(* What some of the held entries weigh together.                            *)
Weight(keys) == MapThenSumSet(LAMBDA k : Size[entries[k].doc], keys)

SaturatingSub(a, b) == IF a >= b THEN a - b ELSE 0

Fits(keys, total, size) ==
  Cardinality(keys) < MaxEntries /\ total + size <= MaxBytes

(* is_fresh: saturating, so an entry stored after `at` has age 0.           *)
Fresh(entry, at) == at - entry.stored < Ttl

CacheInit ==
  /\ entries = [k \in CacheKey |-> Nothing]
  /\ bytes = 0
  /\ calls = [t \in Task |-> Nothing]
  /\ answer = Nothing
  /\ latest = [k \in CacheKey |-> Nothing]
  /\ now = 0

CacheTick ==
  /\ now < MaxTime
  /\ now' = now + 1
  /\ UNCHANGED <<entries, bytes, calls, answer, latest>>

(* get and insert, up to the lock.                                          *)
Begin(t, call) ==
  /\ calls[t] = Nothing
  /\ calls' = [calls EXCEPT ![t] = call]
  /\ UNCHANGED <<entries, bytes, answer, latest, now>>

StartInsert(t, key, doc) ==
  /\ Ttl > 0 /\ MaxEntries > 0 /\ MaxBytes > 0
  /\ Begin(t, [op |-> "insert", key |-> key, doc |-> doc, at |-> now])

StartGet(t, key) == Begin(t, [op |-> "get", key |-> key, at |-> now])

(* get_at.                                                                  *)
Get(t) ==
  /\ calls[t] # Nothing /\ calls[t].op = "get"
  /\ LET key == calls[t].key
         hit == entries[key] # Nothing /\ Fresh(entries[key], calls[t].at)
     IN  answer' = [key |-> key, doc |-> IF hit THEN entries[key].doc ELSE Nothing]
  /\ calls' = [calls EXCEPT ![t] = Nothing]
  /\ UNCHANGED <<entries, bytes, latest, now>>

\* mutant: any order will do
AnyAge(keys) == SetToSeqs(keys)

(* by_age, whose order among entries of one age is the map's: any order in  *)
(* which nothing comes before what was stored earlier.                      *)
ByAge(keys) ==
  {order \in SetToSeqs(keys) :
     \A i, j \in DOMAIN order :
       i < j => entries[order[i]].stored <= entries[order[j]].stored}

(* The second pass of make_room: evict down the order until the rest fits.  *)
EvictDown(order, keys, total, size) ==
  FoldLeft(LAMBDA kept, k :
             IF Fits(kept, SaturatingSub(total, Weight(keys \ kept)), size)
             THEN kept ELSE kept \ {k},
           keys, order)

(* make_room: what may be left of the entries that are not replaced.        *)
MakeRoom(keys, total, size, at) ==
  IF Fits(keys, total, size) THEN {keys}
  ELSE LET fresh == {k \in keys : Fresh(entries[k], at)}
           left  == SaturatingSub(total, Weight(keys \ fresh))
       IN  {EvictDown(order, fresh, left, size) : order \in ByAge(fresh)}

\* mutant: the document replaced is still paid for
TotalWithout(key) == bytes

(* CacheInner::remove, what it leaves of the running total.                 *)
TotalAfterRemove(key) == SaturatingSub(bytes, Weight(Held \cap {key}))

(* The map once only `kept` is left of it.                                  *)
Keep(kept) == [k \in CacheKey |-> IF k \in kept THEN entries[k] ELSE Nothing]

\* mutant: too large to hold is found out before anything is removed
RefuseFirst(key) == UNCHANGED <<entries, bytes>>

(* Too large to hold: what the key held is gone all the same.               *)
Refuse(key) ==
  /\ entries' = Keep(Held \ {key})
  /\ bytes' = TotalAfterRemove(key)

Hold(call) ==
  LET others == Held \ {call.key}
      total  == TotalAfterRemove(call.key)
  IN  \E kept \in MakeRoom(others, total, Size[call.doc], call.at) :
        /\ entries' = [Keep(kept) EXCEPT
             ![call.key] = [doc |-> call.doc, stored |-> call.at]]
        /\ bytes' = SaturatingSub(total, Weight(others \ kept)) + Size[call.doc]

(* insert_at, once it has the lock.                                         *)
Insert(t) ==
  /\ calls[t] # Nothing /\ calls[t].op = "insert"
  /\ IF Size[calls[t].doc] > MaxBytes THEN Refuse(calls[t].key) ELSE Hold(calls[t])
  /\ calls' = [calls EXCEPT ![t] = Nothing]
  /\ latest' = [latest EXCEPT ![calls[t].key] = calls[t].doc]
  /\ UNCHANGED <<answer, now>>

Clear ==
  /\ entries' = [k \in CacheKey |-> Nothing]
  /\ bytes' = 0
  /\ UNCHANGED <<calls, answer, latest, now>>

CacheNext ==
  \/ CacheTick
  \/ Clear
  \/ \E t \in Task :
       \/ \E key \in CacheKey, doc \in Document : StartInsert(t, key, doc)
       \/ \E key \in CacheKey : StartGet(t, key)
       \/ Get(t)
       \/ Insert(t)

CacheSpec == CacheInit /\ [][CacheNext]_cacheVars

-----------------------------------------------------------------------------

CacheTypeOK ==
  /\ entries \in [CacheKey -> Entry \cup {Nothing}]
  /\ bytes \in Nat
  /\ calls \in [Task -> Call \cup {Nothing}]
  /\ answer \in [key : CacheKey, doc : Document \cup {Nothing}] \cup {Nothing}
  /\ latest \in [CacheKey -> Document \cup {Nothing}]
  /\ now \in 0..MaxTime

(* The running total is what the entries weigh, however they came and went, *)
(* and both limits hold between any two operations (CacheInner, make_room). *)
BudgetHeld ==
  /\ bytes = Weight(Held)
  /\ bytes <= MaxBytes
  /\ Cardinality(Held) <= MaxEntries

(* A fresh document goes only to make room, after everything stored before  *)
(* it, and the last one to go could not have stayed: an insertion never     *)
(* evicts what fits beside it, nor anything before what is older.           *)
EvictionNeeded ==
  [][\A t \in Task : Insert(t) =>
       LET call == calls[t]
           gone == {k \in Held \ {call.key} :
                      Fresh(entries[k], call.at) /\ entries'[k] = Nothing}
           kept == {k \in Held \ {call.key} : entries'[k] # Nothing}
       IN  gone # {} =>
             /\ \A g \in gone, k \in kept : entries[g].stored <= entries[k].stored
             /\ \E last \in gone :
                  /\ \A g \in gone : entries[g].stored <= entries[last].stored
                  /\ \/ Cardinality(kept) + 2 > MaxEntries
                     \/ Weight(kept \cup {last}) + Size[call.doc] > MaxBytes]_cacheVars

(* The rest of the daemon may take this for a cache that only forgets: a    *)
(* lookup answers with what was last inserted under its key or with         *)
(* nothing, whatever was evicted, expired or refused in between.            *)
Lossy == INSTANCE LossyCache WITH
  Key <- CacheKey, Doc <- Document, None <- Nothing, latest <- latest, answer <- answer

LossySpec == Lossy!Spec
=============================================================================
