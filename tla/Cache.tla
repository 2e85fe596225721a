------------------------------- MODULE Cache -------------------------------
(***************************************************************************)
(* PebbleCache (cache.rs): threads that share one cache.  A call is one or *)
(* more operations of the database, each of them atomic, with readings of  *)
(* the clock in between; nothing but the database's own lock orders the    *)
(* calls of different threads.  The counters of CacheStats are left out.   *)
(***************************************************************************)
EXTENDS Integers, FiniteSets

CONSTANTS
    Thread,
    Key,
    Ttl,       \* the times to live a caller may ask for, 0 for ever
    Modulus,   \* 2^64 in the code: expiry times are computed modulo this
    NoEntry,
    MaxClock,  \* bound: the clock stops here
    MaxSets    \* bound: no set is called after this many entries

ASSUME CacheAssumption ==
    /\ Ttl \subseteq Nat
    /\ Modulus \in Nat /\ MaxClock \in Nat \ {0} /\ MaxClock < Modulus
    /\ MaxSets \in Nat

VARIABLES
    store,   \* the entry under each key of the prefix
    clock,   \* milliseconds
    sets,    \* how many entries have been stored
    call,    \* what each thread is doing
    lost     \* history: entries a get has deleted before they were due

vars == <<store, clock, sets, call, lost>>

Never == -1            \* the due time of an entry without one
NoExpiration == 0

\* What is stored is an expiry time and a value, here the number of the set
\* that made it; due is history: when the caller meant it to expire.
Entry == [expires : 0 .. Modulus - 1, value : 1 .. MaxSets, due : Nat \cup {Never}]

Idle == [pc |-> "idle", key |-> {}, found |-> NoEntry, expires |-> 0,
         due |-> Never, since |-> 0, listed |-> {}]

\* is_expired: the equal case counts as expired.
IsExpiredLater(entry) ==    \* mutant
    entry.expires # NoExpiration /\ entry.expires < clock
IsExpired(entry) == entry.expires # NoExpiration /\ entry.expires <= clock

\* now_ms() + ttl.as_millis() as u64, which wraps in a release build.
ExpiryWithoutClock(ttl) == ttl    \* mutant
ExpiryRoundedUp(ttl) == clock + ttl + 1    \* mutant
Expiry(ttl) ==
    IF ttl = 0 THEN NoExpiration ELSE (clock + (ttl % Modulus)) % Modulus

IsDue(entry, time) == entry.due # Never /\ entry.due <= time

-----------------------------------------------------------------------------
Init ==
    /\ store = [k \in Key |-> NoEntry]
    /\ clock = 1 /\ sets = 0
    /\ call = [t \in Thread |-> Idle]
    /\ lost = {}

Tick ==
    /\ clock < MaxClock
    /\ clock' = clock + 1
    /\ UNCHANGED <<store, sets, call, lost>>

GoTo(t, pc) == call' = [call EXCEPT ![t].pc = pc]
Return(t) == call' = [call EXCEPT ![t] = Idle]

\* set: the expiry time is computed before the entry is stored.
Set(t, k, ttl) ==
    /\ call[t].pc = "idle"
    /\ sets + Cardinality({u \in Thread : call[u].pc = "store"}) < MaxSets
    /\ call' = [call EXCEPT ![t] =
                  [Idle EXCEPT !.pc = "store", !.key = {k},
                               !.expires = Expiry(ttl),
                               !.due = IF ttl = 0 THEN Never ELSE clock + ttl]]
    /\ UNCHANGED <<store, clock, sets, lost>>

Store(t) ==
    /\ call[t].pc = "store"
    /\ sets' = sets + 1
    /\ store' = [k \in Key |->
                   IF k \in call[t].key
                   THEN [expires |-> call[t].expires, value |-> sets + 1,
                         due |-> call[t].due]
                   ELSE store[k]]
    /\ Return(t)
    /\ UNCHANGED <<clock, lost>>

\* get: read the entry, then look at the clock, then delete what is expired.
Get(t, k) ==
    /\ call[t].pc = "idle"
    /\ call' = [call EXCEPT ![t] =
                  [Idle EXCEPT !.pc = "read", !.key = {k}, !.since = clock]]
    /\ UNCHANGED <<store, clock, sets, lost>>

Read(t) ==
    /\ call[t].pc = "read"
    /\ \E k \in call[t].key :
         IF store[k] = NoEntry
         THEN Return(t)
         ELSE call' = [call EXCEPT ![t].found = store[k], ![t].pc = "check"]
    /\ UNCHANGED <<store, clock, sets, lost>>

Check(t) ==
    /\ call[t].pc = "check"
    /\ GoTo(t, IF IsExpired(call[t].found) THEN "expire" ELSE "hit")
    /\ UNCHANGED <<store, clock, sets, lost>>

DeleteExpired(t) ==
    /\ call[t].pc = "expire"
    /\ \E k \in call[t].key :
         /\ lost' = IF store[k] # NoEntry /\ ~IsDue(store[k], clock)
                    THEN lost \cup {store[k].value}
                    ELSE lost
         /\ store' = [store EXCEPT ![k] = NoEntry]
    /\ Return(t)
    /\ UNCHANGED <<clock, sets>>

Hit(t) ==
    /\ call[t].pc = "hit"
    /\ Return(t)
    /\ UNCHANGED <<store, clock, sets, lost>>

Delete(t, k) ==
    /\ call[t].pc = "idle"
    /\ store' = [store EXCEPT ![k] = NoEntry]
    /\ UNCHANGED <<clock, sets, call, lost>>

\* clear: list the keys of the prefix on a snapshot, then delete each.
ListAllButLast ==    \* mutant: the range ends one key too soon
    {k \in Key : store[k] # NoEntry /\ \E j \in Key : k < j /\ store[j] # NoEntry}
Listed == {k \in Key : store[k] # NoEntry}

Clear(t) ==
    /\ call[t].pc = "idle"
    /\ call' = [call EXCEPT ![t] =
                  [Idle EXCEPT !.pc = "clear", !.listed = Listed, !.since = sets]]
    /\ UNCHANGED <<store, clock, sets, lost>>

DeleteListed(t) ==
    /\ call[t].pc = "clear"
    /\ \E k \in call[t].listed :
         /\ \A j \in call[t].listed : k <= j
         /\ store' = [store EXCEPT ![k] = NoEntry]
         /\ call' = [call EXCEPT ![t].listed = @ \ {k}]
    /\ UNCHANGED <<clock, sets, lost>>

Cleared(t) ==
    /\ call[t].pc = "clear"
    /\ call[t].listed = {}
    /\ Return(t)
    /\ UNCHANGED <<store, clock, sets, lost>>

Next ==
    \/ Tick
    \/ \E t \in Thread :
         \/ \E k \in Key, ttl \in Ttl : Set(t, k, ttl)
         \/ \E k \in Key : Get(t, k) \/ Delete(t, k)
         \/ Clear(t)
         \/ Store(t) \/ Read(t) \/ Check(t) \/ DeleteExpired(t) \/ Hit(t)
         \/ DeleteListed(t) \/ Cleared(t)

Spec == Init /\ [][Next]_vars

-----------------------------------------------------------------------------
\* Properties.

\* What is stored and what each thread remembers are well formed: in
\* particular every expiry time fits the field it is stored in.
TypeOK ==
    /\ store \in [Key -> Entry \cup {NoEntry}]
    /\ clock \in Nat /\ sets \in 0 .. MaxSets
    /\ lost \subseteq 1 .. MaxSets
    /\ \A t \in Thread :
         /\ call[t].pc \in {"idle", "store", "read", "check", "expire", "hit", "clear"}
         /\ call[t].key \subseteq Key /\ Cardinality(call[t].key) <= 1
         /\ call[t].found \in Entry \cup {NoEntry}
         /\ call[t].expires \in 0 .. Modulus - 1
         /\ call[t].due \in Nat \cup {Never}
         /\ call[t].since \in Nat
         /\ call[t].listed \subseteq Key

\* A get never returns an entry that was already due when it was called,
\* however long the call takes.
NoExpiredHit ==
    \A t \in Thread :
        call[t].pc = "hit" => ~IsDue(call[t].found, call[t].since)

\* set computes now + ttl: a get takes an entry for expired only once that
\* time has come.
NotExpiredEarly ==
    \A t \in Thread :
        call[t].pc = "expire" => IsDue(call[t].found, clock)

\* A clear that is about to return has left nothing that was stored before
\* it was called, whatever the other threads stored meanwhile.
ClearLeavesOnlyNewer ==
    \A t \in Thread, k \in Key :
        call[t].pc = "clear" /\ call[t].listed = {} /\ store[k] # NoEntry
            => store[k].value > call[t].since

\* get deletes expired entries and no others.
LiveEntriesKept == lost = {}
=============================================================================
