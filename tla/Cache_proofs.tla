---------------------------- MODULE Cache_proofs ----------------------------
(***************************************************************************)
(* Proofs about Cache, for any number of threads and keys, any times to    *)
(* live and any width of the expiry field: a get never returns an entry    *)
(* that was due when it was called, and a clear leaves nothing older than  *)
(* itself.                                                                 *)
(***************************************************************************)
EXTENDS Cache, FiniteSetTheorems, TLAPS

\* The types of an entry and of what a thread remembers.
Item == [expires : Int, value : Nat, due : Nat \cup {Never}]

CallType ==
    [pc : {"idle", "store", "read", "check", "expire", "hit", "clear"},
     key : SUBSET Key, found : Item \cup {NoEntry}, expires : Int,
     due : Nat \cup {Never}, since : Nat, listed : SUBSET Key]

\* Each variable has its type.
Shapes ==
    /\ store \in [Key -> Item \cup {NoEntry}]
    /\ clock \in Nat /\ 0 < clock /\ clock <= MaxClock
    /\ sets \in Nat
    /\ call \in [Thread -> CallType]

\* The expiry time is the due time, unless that does not fit the field.
Faithful(expires, due) ==
    due # Never /\ due < Modulus => expires = due /\ due > 0

GoodItem(e) == e \in Item /\ Faithful(e.expires, e.due)

\* What is stored expires when it should and is no newer than the last set.
StoreGood ==
    \A k \in Key :
        store[k] = NoEntry \/ (GoodItem(store[k]) /\ store[k].value <= sets)

\* What a call of each kind has established at its present step.
CallGood(c) ==
    /\ c.pc = "store" => Faithful(c.expires, c.due)
    /\ c.pc \in {"read", "check", "expire", "hit"} => c.since <= clock
    /\ c.pc \in {"check", "expire", "hit"} => GoodItem(c.found)
    /\ c.pc = "hit" => ~IsDue(c.found, c.since)
    /\ c.pc = "clear" =>
         /\ c.since <= sets
         /\ \A k \in Key \ c.listed : store[k] = NoEntry \/ store[k].value > c.since

CacheInv == Shapes /\ StoreGood /\ \A t \in Thread : CallGood(call[t])

-----------------------------------------------------------------------------
\* A sum that fits the field is not changed by the modulus.
LEMMA ExpiryFaithful ==
    ASSUME NEW ttl \in Ttl, clock \in Nat, 0 < clock
    PROVE  /\ Expiry(ttl) \in Int
           /\ ttl # 0 => Faithful(Expiry(ttl), clock + ttl)
<1>1. ttl \in Nat /\ Modulus \in Nat /\ Modulus > 0
  BY CacheAssumption
<1>2. \A n \in Nat : n % Modulus \in Nat /\ (n < Modulus => n % Modulus = n)
  BY <1>1
<1>3. Expiry(ttl) \in Int
  BY <1>1, <1>2 DEF Expiry, NoExpiration
<1>4. ASSUME ttl # 0, clock + ttl < Modulus PROVE Expiry(ttl) = clock + ttl
  <2>1. ttl % Modulus = ttl
    BY <1>1, <1>2, <1>4
  <2>2. (clock + ttl) % Modulus = clock + ttl
    BY <1>1, <1>2, <1>4
  <2> QED
    BY <2>1, <2>2, <1>4 DEF Expiry
<1> QED
  BY <1>1, <1>3, <1>4 DEF Faithful

\* A call that is not under way has established nothing.
LEMMA IdleGood == Idle \in CallType /\ CallGood(Idle)
BY DEF Idle, Never, CallType, CallGood

\* One thread makes a step that leaves the store and the clock alone.
LEMMA CallStep ==
    ASSUME CacheInv, NEW t \in Thread, NEW c \in CallType, CallGood(c),
           call' = [call EXCEPT ![t] = c], UNCHANGED <<store, clock, sets>>
    PROVE  CacheInv'
<1>1. Shapes' /\ StoreGood'
  BY DEF CacheInv, Shapes, StoreGood
<1>2. ASSUME NEW u \in Thread PROVE CallGood(call[u])'
  <2>1. CallGood(call'[u])
    BY DEF CacheInv, Shapes
  <2> QED
    BY <2>1 DEF CallGood
<1> QED
  BY <1>1, <1>2 DEF CacheInv

\* One thread deletes keys: what is left of the store was there before.
LEMMA DeletingStep ==
    ASSUME CacheInv, NEW t \in Thread, NEW c \in CallType, CallGood(c)',
           call' = [call EXCEPT ![t] = c], UNCHANGED <<clock, sets>>,
           NEW k \in Key, store' = [store EXCEPT ![k] = NoEntry]
    PROVE  CacheInv'
<1>1. Shapes' /\ StoreGood'
  BY DEF CacheInv, Shapes, StoreGood
<1>2. ASSUME NEW u \in Thread PROVE CallGood(call[u])'
  <2>1. CASE u = t
    BY <2>1 DEF CacheInv, Shapes
  <2>2. CASE u # t
    <3>1. CallGood(call[u]) /\ call'[u] = call[u]
      BY <2>2 DEF CacheInv, Shapes
    <3>2. \A j \in Key : store'[j] = NoEntry \/ store'[j] = store[j]
      BY DEF CacheInv, Shapes
    <3> QED
      BY <3>1, <3>2 DEF CallGood
  <2> QED
    BY <2>1, <2>2
<1> QED
  BY <1>1, <1>2 DEF CacheInv

\* The invariant holds of the empty cache.
LEMMA InitCacheInv == Init => CacheInv
<1> SUFFICES ASSUME Init PROVE CacheInv
  OBVIOUS
<1>1. Shapes
  BY CacheAssumption, IdleGood DEF Init, Shapes
<1>2. StoreGood /\ \A t \in Thread : CallGood(call[t])
  BY IdleGood DEF Init, StoreGood
<1> QED
  BY <1>1, <1>2 DEF CacheInv

\* set has computed an expiry time that agrees with the due time.
LEMMA SetStep ==
    ASSUME CacheInv, NEW t \in Thread, NEW k \in Key, NEW ttl \in Ttl,
           Set(t, k, ttl)
    PROVE  CacheInv'
<1> DEFINE due == IF ttl = 0 THEN Never ELSE clock + ttl
           c == [Idle EXCEPT !.pc = "store", !.key = {k},
                             !.expires = Expiry(ttl), !.due = due]
<1>1. Expiry(ttl) \in Int /\ due \in Nat \cup {Never} /\ Faithful(Expiry(ttl), due)
  BY ExpiryFaithful, CacheAssumption DEF CacheInv, Shapes, Faithful
<1>2. c \in CallType /\ c.pc = "store" /\ Faithful(c.expires, c.due)
  BY <1>1, IdleGood DEF CallType
<1>3. call' = [call EXCEPT ![t] = c] /\ UNCHANGED <<store, clock, sets>>
  BY DEF Set
<1> HIDE DEF c
<1>4. CallGood(c)
  BY <1>2 DEF CallGood
<1> QED
  BY <1>2, <1>3, <1>4, CallStep

\* get starts at the present time.
LEMMA GetStep ==
    ASSUME CacheInv, NEW t \in Thread, NEW k \in Key, Get(t, k)
    PROVE  CacheInv'
<1> DEFINE c == [Idle EXCEPT !.pc = "read", !.key = {k}, !.since = clock]
<1>1. c \in CallType /\ c.pc = "read" /\ c.since = clock /\ clock \in Nat
  BY IdleGood DEF CacheInv, Shapes, CallType
<1>2. call' = [call EXCEPT ![t] = c] /\ UNCHANGED <<store, clock, sets>>
  BY DEF Get
<1> HIDE DEF c
<1>3. CallGood(c)
  BY <1>1 DEF CallGood
<1> QED
  BY <1>1, <1>2, <1>3, CallStep

\* What clear does not list is not there.
LEMMA ClearStep ==
    ASSUME CacheInv, NEW t \in Thread, Clear(t)
    PROVE  CacheInv'
<1> DEFINE c == [Idle EXCEPT !.pc = "clear", !.listed = Listed, !.since = sets]
<1>1. Listed \in SUBSET Key /\ \A k \in Key \ Listed : store[k] = NoEntry
  BY DEF Listed
<1>2. /\ c \in CallType /\ c.pc = "clear" /\ c.since = sets
      /\ c.listed = Listed /\ sets \in Nat
  BY <1>1, IdleGood DEF CacheInv, Shapes, CallType
<1>3. call' = [call EXCEPT ![t] = c] /\ UNCHANGED <<store, clock, sets>>
  BY DEF Clear
<1> HIDE DEF c
<1>4. CallGood(c)
  BY <1>1, <1>2 DEF CallGood
<1> QED
  BY <1>2, <1>3, <1>4, CallStep

\* A get finds an entry, whose expiry time is its due time or has overflowed.
LEMMA ReadStep ==
    ASSUME CacheInv, NEW t \in Thread, Read(t)
    PROVE  CacheInv'
<1> PICK k \in call[t].key :
        IF store[k] = NoEntry
        THEN Return(t)
        ELSE call' = [call EXCEPT ![t].found = store[k], ![t].pc = "check"]
  BY DEF Read
<1>1. CASE store[k] = NoEntry
  BY <1>1, IdleGood, CallStep DEF Read, Return
<1>2. CASE store[k] # NoEntry
  <2> DEFINE c == [call[t] EXCEPT !.found = store[k], !.pc = "check"]
  <2>1. call[t] \in CallType /\ call[t].pc = "read" /\ CallGood(call[t])
    BY DEF CacheInv, Shapes, Read
  <2>2. k \in Key /\ store[k] \in Item /\ GoodItem(store[k])
    BY <1>2, <2>1 DEF CallType, CacheInv, Shapes, StoreGood
  <2>3. /\ c \in CallType /\ c.pc = "check" /\ c.found = store[k]
        /\ c.since = call[t].since
    BY <2>1, <2>2 DEF CallType
  <2>4. call' = [call EXCEPT ![t] = c] /\ UNCHANGED <<store, clock, sets>>
    BY <1>2 DEF Read, CacheInv, Shapes
  <2> HIDE DEF c
  <2>5. CallGood(c)
    BY <2>1, <2>2, <2>3 DEF CallGood
  <2> QED
    BY <2>3, <2>4, <2>5, CallStep
<1> QED
  BY <1>1, <1>2

\* An entry that was due when the get was called is due on the clock, so its
\* due time fits the field and is the expiry time: is_expired holds.
LEMMA CheckStep ==
    ASSUME CacheInv, NEW t \in Thread, Check(t)
    PROVE  CacheInv'
<1> DEFINE next == IF IsExpired(call[t].found) THEN "expire" ELSE "hit"
           c == [call[t] EXCEPT !.pc = next]
<1>1. call[t] \in CallType /\ call[t].pc = "check" /\ CallGood(call[t])
  BY DEF CacheInv, Shapes, Check
<1>2. /\ c \in CallType /\ c.pc = next
      /\ c.found = call[t].found /\ c.since = call[t].since
  BY <1>1 DEF CallType
<1>3. call' = [call EXCEPT ![t] = c] /\ UNCHANGED <<store, clock, sets>>
  BY DEF Check, GoTo, CacheInv, Shapes
<1>4. ASSUME ~IsExpired(call[t].found), IsDue(call[t].found, call[t].since)
      PROVE  FALSE
  <2>1. /\ GoodItem(call[t].found) /\ call[t].since <= clock
        /\ call[t].since \in Nat /\ clock \in Nat /\ clock < Modulus
    BY <1>1, CacheAssumption DEF CallGood, CallType, CacheInv, Shapes
  <2>2. call[t].found.due \in Nat /\ call[t].found.due <= clock
    BY <1>4, <2>1 DEF IsDue, GoodItem, Item
  <2>3. /\ call[t].found.expires = call[t].found.due
        /\ call[t].found.due > 0
    BY <2>1, <2>2, CacheAssumption DEF GoodItem, Faithful, Never
  <2> QED
    BY <1>4, <2>2, <2>3 DEF IsExpired, NoExpiration
<1> HIDE DEF c
<1>5. CallGood(c)
  BY <1>1, <1>2, <1>4 DEF CallGood
<1> QED
  BY <1>2, <1>3, <1>5, CallStep

\* What is stored is newer than the start of any clear.
LEMMA StoreStep ==
    ASSUME CacheInv, NEW t \in Thread, Store(t)
    PROVE  CacheInv'
<1> DEFINE e == [expires |-> call[t].expires, value |-> sets + 1,
                 due |-> call[t].due]
<1>1. call[t] \in CallType /\ Faithful(call[t].expires, call[t].due) /\ sets \in Nat
  BY DEF CacheInv, Shapes, CallGood, Store
<1>2. e \in Item /\ GoodItem(e) /\ e.value = sets + 1
  BY <1>1 DEF CallType, Item, GoodItem
<1>3. store' = [k \in Key |-> IF k \in call[t].key THEN e ELSE store[k]]
  BY DEF Store
<1>4. /\ call' = [call EXCEPT ![t] = Idle]
      /\ sets' = sets + 1 /\ clock' = clock
  BY DEF Store, Return
<1> HIDE DEF e
<1>5. Shapes'
  BY <1>1, <1>2, <1>3, <1>4, IdleGood DEF CacheInv, Shapes
<1>6. StoreGood'
  <2> SUFFICES ASSUME NEW k \in Key
               PROVE  store'[k] = NoEntry
                        \/ (GoodItem(store'[k]) /\ store'[k].value <= sets')
    BY DEF StoreGood, GoodItem, Faithful
  <2>1. store[k] = NoEntry \/ (GoodItem(store[k]) /\ store[k].value <= sets)
    BY DEF CacheInv, StoreGood
  <2> QED
    BY <1>1, <1>2, <1>3, <1>4, <2>1 DEF GoodItem, Item
<1>7. ASSUME NEW u \in Thread PROVE CallGood(call[u])'
  <2>1. CASE u = t
    <3>1. call'[u] = Idle
      BY <1>4, <2>1 DEF CacheInv, Shapes
    <3> QED
      BY <3>1 DEF CallGood, Idle
  <2>2. CASE u # t
    <3>1. call'[u] = call[u] /\ CallGood(call[u]) /\ call[u].since \in Nat
      BY <1>4, <2>2 DEF CacheInv, Shapes, CallType
    <3>2. ASSUME call[u].pc = "clear", NEW k \in Key \ call[u].listed
          PROVE  store'[k] = NoEntry \/ store'[k].value > call[u].since
      BY <1>1, <1>2, <1>3, <3>1, <3>2 DEF CallGood
    <3> QED
      BY <1>1, <1>4, <3>1, <3>2 DEF CallGood
  <2> QED
    BY <2>1, <2>2
<1> QED
  BY <1>5, <1>6, <1>7 DEF CacheInv

\* A delete only takes an entry away.
LEMMA DeleteStep ==
    ASSUME CacheInv, NEW t \in Thread, NEW k \in Key, Delete(t, k)
    PROVE  CacheInv'
<1>1. /\ call[t] \in CallType /\ call' = [call EXCEPT ![t] = call[t]]
      /\ store' = [store EXCEPT ![k] = NoEntry] /\ UNCHANGED <<clock, sets>>
  BY DEF Delete, CacheInv, Shapes
<1>2. CallGood(call[t]) /\ \A j \in Key : store'[j] = NoEntry \/ store'[j] = store[j]
  BY <1>1 DEF CacheInv, Shapes
<1>3. Shapes' /\ StoreGood'
  BY <1>1 DEF CacheInv, Shapes, StoreGood
<1>4. ASSUME NEW u \in Thread PROVE CallGood(call[u])'
  <2>1. CallGood(call[u]) /\ call'[u] = call[u]
    BY DEF CacheInv, Delete
  <2> QED
    BY <1>1, <1>2, <2>1 DEF CallGood
<1> QED
  BY <1>3, <1>4 DEF CacheInv

\* So does the delete in get.
LEMMA DeleteExpiredStep ==
    ASSUME CacheInv, NEW t \in Thread, DeleteExpired(t)
    PROVE  CacheInv'
<1> PICK k \in call[t].key : store' = [store EXCEPT ![k] = NoEntry]
  BY DEF DeleteExpired
<1>1. k \in Key
  BY DEF CacheInv, Shapes, CallType
<1>2. call' = [call EXCEPT ![t] = Idle] /\ UNCHANGED <<clock, sets>>
  BY DEF DeleteExpired, Return
<1>3. CallGood(Idle)'
  BY DEF CallGood, Idle
<1> QED
  BY <1>1, <1>2, <1>3, IdleGood, DeletingStep

\* A key that clear has deleted is empty, or stored since.
LEMMA DeleteListedStep ==
    ASSUME CacheInv, NEW t \in Thread, DeleteListed(t)
    PROVE  CacheInv'
<1> PICK k \in call[t].listed :
        /\ store' = [store EXCEPT ![k] = NoEntry]
        /\ call' = [call EXCEPT ![t].listed = @ \ {k}]
  BY DEF DeleteListed
<1> DEFINE c == [call[t] EXCEPT !.listed = @ \ {k}]
<1>1. call[t] \in CallType /\ call[t].pc = "clear" /\ CallGood(call[t]) /\ k \in Key
  BY DEF CacheInv, Shapes, CallType, DeleteListed
<1>2. /\ c \in CallType /\ c.pc = "clear" /\ c.since = call[t].since
      /\ c.listed = call[t].listed \ {k}
  BY <1>1 DEF CallType
<1>3. call' = [call EXCEPT ![t] = c] /\ UNCHANGED <<clock, sets>>
  BY DEF CacheInv, Shapes, DeleteListed
<1> HIDE DEF c
<1>4. Shapes' /\ StoreGood'
  BY <1>1, <1>2, <1>3 DEF CacheInv, Shapes, StoreGood
<1>5. ASSUME NEW u \in Thread PROVE CallGood(call[u])'
  <2>1. \A j \in Key : store'[j] = NoEntry \/ (store'[j] = store[j] /\ j # k)
    BY <1>1 DEF CacheInv, Shapes
  <2>2. CASE u = t
    <3>1. call'[u] = c
      BY <1>3, <2>2 DEF CacheInv, Shapes
    <3> QED
      BY <1>1, <1>2, <1>3, <2>1, <3>1 DEF CallGood
  <2>3. CASE u # t
    <3>1. call'[u] = call[u] /\ CallGood(call[u])
      BY <1>3, <2>3 DEF CacheInv, Shapes
    <3> QED
      BY <1>3, <2>1, <3>1 DEF CallGood
  <2> QED
    BY <2>2, <2>3
<1> QED
  BY <1>4, <1>5 DEF CacheInv

\* The moving clock makes entries due, never a hit that was none.
LEMMA TickStep ==
    ASSUME CacheInv, Tick
    PROVE  CacheInv'
<1>1. Shapes' /\ StoreGood'
  BY CacheAssumption DEF CacheInv, Shapes, StoreGood, Tick
<1>2. ASSUME NEW u \in Thread PROVE CallGood(call[u])'
  <2>1. CallGood(call[u]) /\ call[u].since \in Nat /\ clock \in Nat
    BY DEF CacheInv, Shapes, CallType
  <2> QED
    BY <2>1 DEF CallGood, Tick
<1> QED
  BY <1>1, <1>2 DEF CacheInv

\* Every step keeps the invariant.
LEMMA NextCacheInv == CacheInv /\ [Next]_vars => CacheInv'
<1> SUFFICES ASSUME CacheInv, [Next]_vars PROVE CacheInv'
  OBVIOUS
<1>1. ASSUME NEW t \in Thread, Hit(t) \/ Cleared(t) PROVE CacheInv'
  BY <1>1, IdleGood, CallStep DEF Hit, Cleared, Return
<1>2. CASE UNCHANGED vars
  BY <1>2 DEF vars, CacheInv, Shapes, StoreGood, CallGood
<1> QED
  BY <1>1, <1>2, TickStep, SetStep, GetStep, DeleteStep, ClearStep, StoreStep,
     ReadStep, CheckStep, DeleteExpiredStep, DeleteListedStep
     DEF Next

-----------------------------------------------------------------------------
\* The invariant holds in every state.
LEMMA CacheInvHolds == Spec => []CacheInv
BY InitCacheInv, NextCacheInv, PTL DEF Spec

\* No get returns an entry that was already due when it was called: not when
\* the clock moves on during the call, and not when the expiry time
\* overflows, which only ever makes an entry expire too early.
THEOREM HitsAreNotExpired == Spec => []NoExpiredHit
<1>1. CacheInv => NoExpiredHit
  BY DEF CacheInv, CallGood, NoExpiredHit
<1> QED
  BY <1>1, CacheInvHolds, PTL

\* A clear that returns has left nothing that was stored before it was
\* called, however the calls of other threads fall between its deletions.
THEOREM ClearIsComplete == Spec => []ClearLeavesOnlyNewer
<1>1. CacheInv => ClearLeavesOnlyNewer
  BY DEF CacheInv, CallGood, ClearLeavesOnlyNewer
<1> QED
  BY <1>1, CacheInvHolds, PTL

-----------------------------------------------------------------------------
(***************************************************************************)
(* TypeOK: the values that are stored are numbered by the sets, so their   *)
(* range rests on how many sets are still on their way.                    *)
(***************************************************************************)

\* The threads whose entry is computed and not yet stored.
Storing == {u \in Thread : call[u].pc = "store"}

SetsBounded == IsFiniteSet(Storing) /\ sets + Cardinality(Storing) <= MaxSets

\* TypeOK of one thread.
CallFits(c) ==
    /\ c.pc \in {"idle", "store", "read", "check", "expire", "hit", "clear"}
    /\ c.key \subseteq Key /\ Cardinality(c.key) <= 1
    /\ c.found \in Entry \cup {NoEntry}
    /\ c.expires \in 0 .. Modulus - 1
    /\ c.due \in Nat \cup {Never}
    /\ c.since \in Nat
    /\ c.listed \subseteq Key

TypeInv == TypeOK /\ SetsBounded

\* A thread that is idle again fits.
LEMMA IdleFits == CallFits(Idle)
<1>1. Cardinality({}) = 0
  BY FS_EmptySet
<1> QED
  BY <1>1, CacheAssumption DEF Idle, CallFits, Never

\* A step of one thread that neither begins nor ends a store.
LEMMA FittingStep ==
    ASSUME CacheInv, TypeInv, NEW t \in Thread, NEW c, CallFits(c),
           call' = [call EXCEPT ![t] = c], call[t].pc # "store", c.pc # "store",
           store' \in [Key -> Entry \cup {NoEntry}],
           lost' \subseteq 1 .. MaxSets, UNCHANGED <<clock, sets>>
    PROVE  TypeInv'
<1>1. \A u \in Thread : call'[u] = IF u = t THEN c ELSE call[u]
  BY DEF CacheInv, Shapes
<1>2. Storing' = Storing
  BY <1>1 DEF Storing
<1>3. SetsBounded'
  BY <1>2 DEF TypeInv, SetsBounded
<1>4. \A u \in Thread : CallFits(call'[u])
  BY <1>1 DEF TypeInv, TypeOK, CallFits
<1> QED
  BY <1>3, <1>4 DEF TypeInv, TypeOK, CallFits

\* set leaves room for the entry it has computed.
LEMMA SetFits ==
    ASSUME CacheInv, TypeInv, NEW t \in Thread, NEW k \in Key, NEW ttl \in Ttl,
           Set(t, k, ttl)
    PROVE  TypeInv'
<1> DEFINE due == IF ttl = 0 THEN Never ELSE clock + ttl
           c == [Idle EXCEPT !.pc = "store", !.key = {k},
                             !.expires = Expiry(ttl), !.due = due]
<1>1. Expiry(ttl) \in 0 .. Modulus - 1 /\ due \in Nat \cup {Never}
  <2>1. ttl \in Nat /\ clock \in Nat /\ Modulus \in Nat /\ Modulus > 0
    BY CacheAssumption DEF CacheInv, Shapes
  <2>2. \A n \in Nat : n % Modulus \in 0 .. Modulus - 1
    BY <2>1
  <2>3. ttl % Modulus \in Nat
    BY <2>1, <2>2
  <2> QED
    BY <2>1, <2>2, <2>3 DEF Expiry, NoExpiration
<1>2. /\ c.pc = "store" /\ c.key = {k} /\ c.expires = Expiry(ttl) /\ c.due = due
      /\ c.found = NoEntry /\ c.since = 0 /\ c.listed = {}
  BY DEF Idle
<1>3. call' = [call EXCEPT ![t] = c] /\ UNCHANGED <<store, clock, sets, lost>>
      /\ call[t].pc = "idle" /\ sets + Cardinality(Storing) < MaxSets
  BY DEF Set, Storing
<1> HIDE DEF c, due
<1>4. Cardinality({k}) = 1
  BY FS_Singleton
<1>5. CallFits(c)
  BY <1>1, <1>2, <1>4 DEF CallFits
<1>6. \A u \in Thread : call'[u] = IF u = t THEN c ELSE call[u]
  BY <1>3 DEF CacheInv, Shapes
<1>7. Storing' = Storing \cup {t} /\ t \notin Storing
  BY <1>2, <1>3, <1>6 DEF Storing
<1>8. IsFiniteSet(Storing') /\ Cardinality(Storing') = Cardinality(Storing) + 1
  BY <1>7, FS_AddElement DEF TypeInv, SetsBounded
<1>9. SetsBounded'
  <2>1. Cardinality(Storing) \in Nat /\ sets \in Nat /\ MaxSets \in Nat
    BY FS_CardinalityType, CacheAssumption
       DEF TypeInv, SetsBounded, CacheInv, Shapes
  <2> QED
    BY <1>3, <1>8, <2>1 DEF SetsBounded
<1>10. \A u \in Thread : CallFits(call'[u])
  BY <1>5, <1>6 DEF TypeInv, TypeOK, CallFits
<1> QED
  BY <1>3, <1>9, <1>10 DEF TypeInv, TypeOK, CallFits

\* The number of an entry is at most the bound on sets.
LEMMA StoreFits ==
    ASSUME CacheInv, TypeInv, NEW t \in Thread, Store(t)
    PROVE  TypeInv'
<1> DEFINE e == [expires |-> call[t].expires, value |-> sets + 1,
                 due |-> call[t].due]
<1>1. /\ t \in Storing /\ call' = [call EXCEPT ![t] = Idle]
      /\ sets' = sets + 1 /\ UNCHANGED <<clock, lost>>
      /\ store' = [k \in Key |-> IF k \in call[t].key THEN e ELSE store[k]]
  BY DEF Store, Storing, Return
<1>2. \A u \in Thread : call'[u] = IF u = t THEN Idle ELSE call[u]
  BY <1>1 DEF CacheInv, Shapes
<1>3. Storing' = Storing \ {t}
  BY <1>2 DEF Storing, Idle
<1>4. /\ IsFiniteSet(Storing') /\ Cardinality(Storing') = Cardinality(Storing) - 1
      /\ Cardinality(Storing') \in Nat /\ Cardinality(Storing) \in Nat
  BY <1>1, <1>3, FS_RemoveElement, FS_CardinalityType DEF TypeInv, SetsBounded
<1>5. sets \in Nat /\ MaxSets \in Nat /\ sets + Cardinality(Storing) <= MaxSets
  BY CacheAssumption DEF CacheInv, Shapes, TypeInv, SetsBounded
<1>6. SetsBounded' /\ sets + 1 \in 1 .. MaxSets
  BY <1>1, <1>4, <1>5 DEF SetsBounded
<1>7. e \in Entry
  BY <1>6 DEF TypeInv, TypeOK, Entry
<1> HIDE DEF e
<1>8. store' \in [Key -> Entry \cup {NoEntry}]
  BY <1>1, <1>7 DEF TypeInv, TypeOK
<1>9. \A u \in Thread : CallFits(call'[u])
  BY <1>2, IdleFits DEF TypeInv, TypeOK, CallFits
<1> QED
  BY <1>1, <1>6, <1>8, <1>9 DEF TypeInv, TypeOK, CallFits

\* The calls that change nothing but themselves: get and clear begin, look at
\* what they need, and return.
LEMMA CallsFit ==
    ASSUME CacheInv, TypeInv, NEW t \in Thread,
           \/ \E k \in Key : Get(t, k)
           \/ Clear(t) \/ Read(t) \/ Check(t) \/ Hit(t) \/ Cleared(t)
    PROVE  TypeInv'
<1>1. UNCHANGED <<store, clock, sets, lost>> /\ call[t].pc # "store"
  BY DEF Get, Clear, Read, Check, Hit, Cleared
<1>2. /\ store' \in [Key -> Entry \cup {NoEntry}] /\ lost' \subseteq 1 .. MaxSets
      /\ CallFits(call[t]) /\ call[t] \in CallType
  BY <1>1 DEF TypeInv, TypeOK, CallFits, CacheInv, Shapes
<1>3. ASSUME NEW c, CallFits(c), c.pc # "store", call' = [call EXCEPT ![t] = c]
      PROVE  TypeInv'
  BY <1>1, <1>2, <1>3, FittingStep
<1>4. ASSUME NEW k \in Key, Get(t, k) PROVE TypeInv'
  <2> DEFINE c == [Idle EXCEPT !.pc = "read", !.key = {k}, !.since = clock]
  <2>1. /\ c.pc = "read" /\ c.key = {k} /\ c.since = clock /\ c.expires = 0
        /\ c.due = Never /\ c.found = NoEntry /\ c.listed = {}
    BY DEF Idle
  <2>2. call' = [call EXCEPT ![t] = c] /\ clock \in Nat
    BY <1>4 DEF Get, CacheInv, Shapes
  <2> HIDE DEF c
  <2>3. Cardinality({k}) = 1
    BY FS_Singleton
  <2>4. CallFits(c)
    BY <2>1, <2>2, <2>3, CacheAssumption DEF CallFits
  <2> QED
    BY <1>3, <2>1, <2>2, <2>4
<1>5. ASSUME Clear(t) PROVE TypeInv'
  <2> DEFINE c == [Idle EXCEPT !.pc = "clear", !.listed = Listed, !.since = sets]
  <2>1. /\ c.pc = "clear" /\ c.key = {} /\ c.since = sets /\ c.expires = 0
        /\ c.due = Never /\ c.found = NoEntry /\ c.listed = Listed
    BY DEF Idle
  <2>2. call' = [call EXCEPT ![t] = c] /\ sets \in Nat /\ Listed \subseteq Key
    BY <1>5 DEF Clear, CacheInv, Shapes, Listed
  <2> HIDE DEF c
  <2>3. Cardinality({}) = 0
    BY FS_EmptySet
  <2>4. CallFits(c)
    BY <2>1, <2>2, <2>3, CacheAssumption DEF CallFits
  <2> QED
    BY <1>3, <2>1, <2>2, <2>4
<1>6. ASSUME Return(t) PROVE TypeInv'
  BY <1>3, <1>6, IdleFits DEF Return, Idle
<1>7. ASSUME Read(t) PROVE TypeInv'
  <2>1. PICK k \in call[t].key :
          IF store[k] = NoEntry
          THEN Return(t)
          ELSE call' = [call EXCEPT ![t].found = store[k], ![t].pc = "check"]
    BY <1>7 DEF Read
  <2> DEFINE c == [call[t] EXCEPT !.found = store[k], !.pc = "check"]
  <2>2. CASE store[k] # NoEntry
    <3>1. call' = [call EXCEPT ![t] = c]
      BY <2>1, <2>2 DEF CacheInv, Shapes
    <3>2. store[k] \in Entry \cup {NoEntry}
      BY <1>2 DEF CallFits, TypeInv, TypeOK
    <3>3. /\ c.pc = "check" /\ c.found = store[k] /\ c.key = call[t].key
          /\ c.expires = call[t].expires /\ c.due = call[t].due
          /\ c.since = call[t].since /\ c.listed = call[t].listed
      BY <1>2 DEF CallType
    <3> HIDE DEF c
    <3>4. CallFits(c)
      BY <1>2, <3>2, <3>3 DEF CallFits
    <3> QED
      BY <1>3, <3>1, <3>3, <3>4
  <2> QED
    BY <1>6, <2>1, <2>2
<1>8. ASSUME Check(t) PROVE TypeInv'
  <2> DEFINE next == IF IsExpired(call[t].found) THEN "expire" ELSE "hit"
             c == [call[t] EXCEPT !.pc = next]
  <2>1. call' = [call EXCEPT ![t] = c] /\ next \in {"expire", "hit"}
    BY <1>8 DEF Check, GoTo, CacheInv, Shapes
  <2>2. /\ c.pc = next /\ c.found = call[t].found /\ c.key = call[t].key
        /\ c.expires = call[t].expires /\ c.due = call[t].due
        /\ c.since = call[t].since /\ c.listed = call[t].listed
    BY <1>2 DEF CallType
  <2> HIDE DEF c, next
  <2>3. CallFits(c) /\ c.pc # "store"
    BY <1>2, <2>1, <2>2 DEF CallFits
  <2> QED
    BY <1>3, <2>1, <2>3
<1> QED
  BY <1>4, <1>5, <1>6, <1>7, <1>8 DEF Hit, Cleared

\* The calls that delete: what is left of the store was there before.
LEMMA DeletesFit ==
    ASSUME CacheInv, TypeInv, NEW t \in Thread,
           \/ \E k \in Key : Delete(t, k)
           \/ DeleteExpired(t) \/ DeleteListed(t)
    PROVE  TypeInv'
<1>1. /\ CallFits(call[t]) /\ call[t] \in CallType
      /\ store \in [Key -> Entry \cup {NoEntry}] /\ lost \subseteq 1 .. MaxSets
  BY DEF TypeInv, TypeOK, CallFits, CacheInv, Shapes
<1>2. \A k \in Key : [store EXCEPT ![k] = NoEntry] \in [Key -> Entry \cup {NoEntry}]
  BY <1>1
<1>3. CASE \E k \in Key : Delete(t, k)
  <2>1. UNCHANGED <<clock, sets, call, lost>>
    BY <1>3 DEF Delete
  <2>2. store' \in [Key -> Entry \cup {NoEntry}]
    BY <1>2, <1>3 DEF Delete
  <2> QED
    BY <2>1, <2>2 DEF TypeInv, TypeOK, SetsBounded, Storing
<1>4. CASE DeleteExpired(t)
  <2>1. PICK k \in call[t].key :
          /\ lost' = IF store[k] # NoEntry /\ ~IsDue(store[k], clock)
                     THEN lost \cup {store[k].value}
                     ELSE lost
          /\ store' = [store EXCEPT ![k] = NoEntry]
    BY <1>4 DEF DeleteExpired
  <2>2. k \in Key /\ call' = [call EXCEPT ![t] = Idle] /\ call[t].pc = "expire"
        /\ UNCHANGED <<clock, sets>>
    BY <1>1, <1>4 DEF CallType, DeleteExpired, Return
  <2>3. lost' \subseteq 1 .. MaxSets
    <3>1. store[k] # NoEntry => store[k].value \in 1 .. MaxSets
      BY <1>1, <2>2 DEF Entry
    <3> QED
      BY <1>1, <2>1, <3>1
  <2> QED
    BY <1>2, <2>1, <2>2, <2>3, IdleFits, FittingStep DEF Idle
<1>5. CASE DeleteListed(t)
  <2>1. PICK k \in call[t].listed :
          /\ store' = [store EXCEPT ![k] = NoEntry]
          /\ call' = [call EXCEPT ![t].listed = @ \ {k}]
    BY <1>5 DEF DeleteListed
  <2> DEFINE c == [call[t] EXCEPT !.listed = @ \ {k}]
  <2>2. /\ k \in Key /\ call' = [call EXCEPT ![t] = c] /\ call[t].pc = "clear"
        /\ UNCHANGED <<clock, sets, lost>>
    BY <1>1, <1>5, <2>1 DEF CallType, DeleteListed, CacheInv, Shapes
  <2>3. /\ c.pc = "clear" /\ c.found = call[t].found /\ c.key = call[t].key
        /\ c.expires = call[t].expires /\ c.due = call[t].due
        /\ c.since = call[t].since /\ c.listed = call[t].listed \ {k}
    BY <1>1, <2>2 DEF CallType
  <2> HIDE DEF c
  <2>4. CallFits(c)
    BY <1>1, <2>3 DEF CallFits
  <2> QED
    BY <1>1, <1>2, <2>1, <2>2, <2>3, <2>4, FittingStep
<1> QED
  BY <1>3, <1>4, <1>5

\* All steps.
LEMMA NextTypeInv ==
    ASSUME CacheInv, TypeInv, [Next]_vars
    PROVE  TypeInv'
<1>1. CASE Tick
  BY <1>1 DEF Tick, TypeInv, TypeOK, SetsBounded, Storing, CacheInv, Shapes
<1>2. CASE UNCHANGED vars
  BY <1>2 DEF vars, TypeInv, TypeOK, SetsBounded, Storing
<1> QED
  BY <1>1, <1>2, SetFits, StoreFits, CallsFit, DeletesFit DEF Next

\* Every variable stays of its type: every expiry time fits the field that
\* stores it, whatever time to live was asked for, and no more entries are
\* numbered than the bound lets in.
THEOREM CacheTypes == Spec => []TypeOK
<1>1. Init => TypeInv
  <2> SUFFICES ASSUME Init PROVE TypeInv
    OBVIOUS
  <2>1. Storing = {}
    BY DEF Init, Storing, Idle
  <2>2. SetsBounded
    BY <2>1, FS_EmptySet, CacheAssumption DEF Init, SetsBounded
  <2>3. \A t \in Thread : CallFits(call[t])
    BY IdleFits DEF Init
  <2> QED
    BY <2>2, <2>3, CacheAssumption DEF Init, TypeInv, TypeOK, CallFits
<1>2. CacheInv /\ TypeInv /\ [Next]_vars => TypeInv'
  BY NextTypeInv
<1>3. TypeInv => TypeOK
  BY DEF TypeInv
<1> QED
  BY <1>1, <1>2, <1>3, CacheInvHolds, PTL DEF Spec

-----------------------------------------------------------------------------
(***************************************************************************)
(* NotExpiredEarly, while no expiry time overflows: then it is exactly the *)
(* due time of its entry.                                                  *)
(***************************************************************************)
NoOverflow == \A ttl \in Ttl : MaxClock + ttl < Modulus

Exact(expires, due) == expires = IF due = Never THEN NoExpiration ELSE due

\* The inductive invariant: what is stored, about to be stored and found has
\* the expiry time the caller meant.
ExactInv ==
    /\ \A k \in Key : store[k] = NoEntry \/ Exact(store[k].expires, store[k].due)
    /\ \A t \in Thread :
         /\ call[t].pc = "store" => Exact(call[t].expires, call[t].due)
         /\ call[t].pc \in {"check", "expire"} =>
              Exact(call[t].found.expires, call[t].found.due)
         /\ call[t].pc = "expire" => IsDue(call[t].found, clock)

\* A sum that fits the field is exact.
LEMMA ExpiryExact ==
    ASSUME NoOverflow, NEW ttl \in Ttl, clock \in Nat, clock <= MaxClock
    PROVE  Exact(Expiry(ttl), IF ttl = 0 THEN Never ELSE clock + ttl)
<1>1. /\ ttl \in Nat /\ Modulus \in Nat /\ clock + ttl < Modulus
      /\ clock + ttl # Never
  BY CacheAssumption DEF NoOverflow, Never
<1>2. ttl % Modulus = ttl /\ (clock + ttl) % Modulus = clock + ttl
  BY <1>1
<1> QED
  BY <1>1, <1>2 DEF Exact, Expiry

\* All steps.
LEMMA NextExact ==
    ASSUME NoOverflow, CacheInv, ExactInv, [Next]_vars
    PROVE  ExactInv'
<1>1. /\ call \in [Thread -> CallType] /\ clock \in Nat /\ clock <= MaxClock
      /\ store \in [Key -> Item \cup {NoEntry}]
  BY DEF CacheInv, Shapes
<1>2. ASSUME NEW t \in Thread, call' = [call EXCEPT ![t] = Idle],
             \A k \in Key : store'[k] \in {NoEntry, store[k]}, clock' = clock
      PROVE  ExactInv'
  BY <1>1, <1>2 DEF ExactInv, Idle
<1>3. ASSUME NEW t \in Thread, NEW k \in Key, NEW ttl \in Ttl, Set(t, k, ttl)
      PROVE  ExactInv'
  <2>1. /\ call'[t].pc = "store" /\ call'[t].expires = Expiry(ttl)
        /\ call'[t].due = IF ttl = 0 THEN Never ELSE clock + ttl
        /\ \A u \in Thread \ {t} : call'[u] = call[u]
        /\ UNCHANGED <<store, clock>>
    BY <1>1, <1>3 DEF Set, Idle
  <2> QED
    BY <1>1, <2>1, ExpiryExact DEF ExactInv
<1>4. ASSUME NEW t \in Thread, Store(t) PROVE ExactInv'
  <2>1. /\ Exact(call[t].expires, call[t].due)
        /\ \A u \in Thread : call'[u] = IF u = t THEN Idle ELSE call[u]
        /\ clock' = clock
    BY <1>1, <1>4 DEF Store, Return, ExactInv
  <2>2. ASSUME NEW k \in Key
        PROVE  store'[k] = NoEntry \/ Exact(store'[k].expires, store'[k].due)
    BY <1>4, <2>1 DEF Store, ExactInv
  <2> QED
    BY <2>1, <2>2 DEF ExactInv, Idle
<1>5. ASSUME NEW t \in Thread, Read(t) PROVE ExactInv'
  <2>1. PICK k \in call[t].key :
          IF store[k] = NoEntry
          THEN Return(t)
          ELSE call' = [call EXCEPT ![t].found = store[k], ![t].pc = "check"]
    BY <1>5 DEF Read
  <2>2. k \in Key /\ UNCHANGED <<store, clock>>
    BY <1>1, <1>5 DEF CallType, Read
  <2>3. CASE store[k] = NoEntry
    BY <1>2, <2>1, <2>2, <2>3 DEF Return
  <2>4. CASE store[k] # NoEntry
    <3>1. /\ call'[t].pc = "check" /\ call'[t].found = store[k]
          /\ \A u \in Thread \ {t} : call'[u] = call[u]
      BY <1>1, <2>1, <2>4 DEF CallType
    <3>2. Exact(store[k].expires, store[k].due)
      BY <2>2, <2>4 DEF ExactInv
    <3> QED
      BY <2>2, <3>1, <3>2 DEF ExactInv
  <2> QED
    BY <2>3, <2>4
<1>6. ASSUME NEW t \in Thread, Check(t) PROVE ExactInv'
  <2>1. /\ call'[t].pc \in {"expire", "hit"} /\ call'[t].found = call[t].found
        /\ call'[t].pc = "expire" => IsExpired(call[t].found)
        /\ \A u \in Thread \ {t} : call'[u] = call[u]
        /\ UNCHANGED <<store, clock>>
    BY <1>1, <1>6 DEF Check, GoTo, CallType
  <2>2. Exact(call[t].found.expires, call[t].found.due)
    BY <1>6 DEF Check, ExactInv
  <2>3. IsExpired(call[t].found) => IsDue(call[t].found, clock)
    BY <2>2 DEF IsExpired, IsDue, Exact
  <2> QED
    BY <2>1, <2>2, <2>3 DEF ExactInv
<1>7. ASSUME NEW t \in Thread, NEW k \in Key, Get(t, k) \/ Delete(t, k)
      PROVE  ExactInv'
  <2>1. /\ \A j \in Key : store'[j] \in {NoEntry, store[j]}
        /\ \A u \in Thread : call'[u] = call[u] \/ call'[u].pc = "read"
        /\ clock' = clock
    BY <1>1, <1>7 DEF Get, Delete, Idle
  <2> QED
    BY <2>1 DEF ExactInv
<1>8. ASSUME NEW t \in Thread, Clear(t) \/ DeleteListed(t)
      PROVE  ExactInv'
  <2>1. /\ \A j \in Key : store'[j] \in {NoEntry, store[j]}
        /\ \A u \in Thread : call'[u] = call[u] \/ call'[u].pc = "clear"
        /\ clock' = clock
    <3>1. CASE Clear(t)
      BY <1>1, <3>1 DEF Clear, Idle, CallType
    <3>2. CASE DeleteListed(t)
      BY <1>1, <3>2 DEF DeleteListed, CallType
    <3> QED
      BY <1>8, <3>1, <3>2
  <2>2. \A j \in Key : store'[j] = NoEntry
                       \/ Exact(store'[j].expires, store'[j].due)
    BY <2>1 DEF ExactInv
  <2>3. ASSUME NEW u \in Thread
        PROVE  /\ call'[u].pc = "store" => Exact(call'[u].expires, call'[u].due)
               /\ call'[u].pc \in {"check", "expire"} =>
                    Exact(call'[u].found.expires, call'[u].found.due)
               /\ call'[u].pc = "expire" => IsDue(call'[u].found, clock')
    <3>1. CASE call'[u] = call[u]
      BY <2>1, <3>1 DEF ExactInv
    <3>2. CASE call'[u].pc = "clear"
      BY <3>2
    <3> QED
      BY <2>1, <3>1, <3>2
  <2> QED
    BY <2>2, <2>3 DEF ExactInv
<1>9. ASSUME NEW t \in Thread, Hit(t) \/ Cleared(t) \/ DeleteExpired(t)
      PROVE  ExactInv'
  <2>1. /\ \A j \in Key : store'[j] \in {NoEntry, store[j]}
        /\ call' = [call EXCEPT ![t] = Idle] /\ clock' = clock
    <3>1. CASE Hit(t) \/ Cleared(t)
      BY <3>1 DEF Hit, Cleared, Return
    <3>2. CASE DeleteExpired(t)
      BY <1>1, <3>2 DEF DeleteExpired, Return, CallType
    <3> QED
      BY <1>9, <3>1, <3>2
  <2> QED
    BY <1>2, <2>1
<1>10. CASE Tick
  <2>1. UNCHANGED <<store, call>> /\ clock' = clock + 1
    BY <1>10 DEF Tick
  <2>2. ASSUME NEW t \in Thread, call[t].pc = "expire"
        PROVE  IsDue(call[t].found, clock + 1)
    <3>1. IsDue(call[t].found, clock) /\ GoodItem(call[t].found)
      BY <2>2 DEF ExactInv, CacheInv, CallGood
    <3> QED
      BY <1>1, <3>1 DEF IsDue, GoodItem, Item
  <2> QED
    BY <2>1, <2>2 DEF ExactInv
<1>11. CASE UNCHANGED vars
  BY <1>11 DEF vars, ExactInv, IsDue
<1> QED
  BY <1>3, <1>4, <1>5, <1>6, <1>7, <1>8, <1>9, <1>10, <1>11 DEF Next

\* A get takes an entry for expired only when its time has come, provided no
\* time to live is so long that now + ttl overflows; when one is, its entry
\* may go early.
THEOREM ExpiryIsNotEarly ==
    ASSUME NoOverflow
    PROVE  Spec => []NotExpiredEarly
<1>1. Init => ExactInv
  BY DEF Init, ExactInv, Idle
<1>2. CacheInv /\ ExactInv /\ [Next]_vars => ExactInv'
  BY NextExact
<1>3. ExactInv => NotExpiredEarly
  BY DEF ExactInv, NotExpiredEarly
<1> QED
  BY <1>1, <1>2, <1>3, CacheInvHolds, PTL DEF Spec
=============================================================================
