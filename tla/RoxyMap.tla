------------------------------- MODULE RoxyMap -------------------------------
(***************************************************************************)
(* The `Map<K, V>` of the Roxy runtime (src/roxy/rt/roxy_rt.cpp), with the *)
(* calls the VM makes of it (src/roxy/vm/natives.cpp, vm/map.cpp).         *)
(*                                                                         *)
(* A Robin Hood hash table: a bucket remembers how far from its home it    *)
(* is (1 is home, 0 is empty), an insertion takes the bucket of any entry  *)
(* that is nearer to home than itself, a removal shifts the entries that   *)
(* follow back, and a search gives up at the first bucket whose distance   *)
(* is below its own.  A full table is rebuilt at twice the size.           *)
(*                                                                         *)
(* Two counts ride on it.  A string key is owned by every map and list     *)
(* that stores it; a `ref V` value is a counted borrow of its object.  And *)
(* a pin on the map, taken while a value is passed `inout`, has to keep    *)
(* every bucket where it is.                                               *)
(*                                                                         *)
(* A key is an object; Content says which of them are equal.  Hash and     *)
(* equality functions are pure here (a user-written one may be anything:   *)
(* see the README).                                                        *)
(***************************************************************************)
EXTENDS Integers, Sequences, FiniteSets, FiniteSetsExt

Sx == INSTANCE SequencesExt

CONSTANTS
    Key, Val,           \* key objects and values
    Class,              \* what a key can be equal to
    Content,            \* Content[k]: the class of a key
    Unequal,            \* the classes equal to nothing, themselves included
    Hash,               \* Hash[c]: the hash of a class
    InitialCapacity,    \* 8 in the code
    DistanceValues,     \* 256: distances are uint8_t
    Counted,            \* whether keys are strings, which are counted
    ByReference,        \* whether values are `ref`, which are counted
    ByPointer,          \* whether values are structs, passed by pointer
    None,
    MaxCapacity,        \* bound: the largest table
    MaxBorrows          \* bound: values borrowed at once

ASSUME ContentAssumption == Content \in [Key -> Class]
ASSUME HashAssumption == Hash \in [Class -> Nat]
ASSUME UnequalAssumption == Unequal \subseteq Class
\* With a first table of one bucket, its first entry would fill it.
ASSUME CapacityAssumption == InitialCapacity \in Nat \ {0, 1}
ASSUME DistanceAssumption == DistanceValues \in Nat \ {0, 1, 2}
ASSUME BoundAssumption == MaxCapacity \in Nat
\* None is neither a bucket nor a function from keys to values.
ASSUME NoneAssumption ==
    None \notin Nat /\ \A S \in SUBSET Class : None \notin [S -> Val]

VARIABLES
    alive,      \* whether the map exists
    len,        \* hdr->length
    table,      \* the buckets, 0 .. capacity - 1
    borrows,    \* the value pointers handed out, and the keys they were of
    pins,       \* hdr->borrow_count
    trapped,    \* roxy_runtime_error_set was called
    last,       \* the last call, with its arguments and its answer
    held,       \* the keys the program itself holds a count of
    key_count,  \* the owner count of each key string
    val_count,  \* the borrow count of each value's object
    product     \* the list or map last made from this one: the keys and
                \* values it releases when it is destroyed

vars == <<alive, len, table, borrows, pins, trapped, last,
          held, key_count, val_count, product>>
counts == <<held, key_count, val_count, product>>

-----------------------------------------------------------------------------
(* The table.                                                              *)

Bucket == [dist : 0 .. DistanceValues - 1, key : Key \cup {None}, val : Val \cup {None}]
Vacant == [dist |-> 0, key |-> None, val |-> None]
NoTable == <<>>
Vacancies(capacity) == [i \in 0 .. capacity - 1 |-> Vacant]

Capacity(t) == Cardinality(DOMAIN t)
Occupied(t) == {i \in DOMAIN t : t[i].dist # 0}
Farther(e) == [e EXCEPT !.dist = (@ + 1) % DistanceValues]
Home(t, k) == Hash[Content[k]] % Capacity(t)
After(t, i) == (i + 1) % Capacity(t)

\* map_keys_equal
KeysEqual(k, l) == Content[k] = Content[l] /\ Content[k] \notin Unequal

\* The probe of contains, get, insert and remove: the bucket of k, or None.
\* It goes on from its home until a bucket that is empty or less far from
\* home than the search is, or one at the same distance with an equal key.
Find(t, k) ==
    LET At(d) == (Home(t, k) + d - 1) % Capacity(t)
        Matches(d) == t[At(d)].dist = d /\ KeysEqual(t[At(d)].key, k)
        Stops(d) == t[At(d)].dist < d \/ Matches(d)
        d == Min({e \in 1 .. Capacity(t) + 1 : Stops(e)})
    IN  IF Occupied(t) # {} /\ Matches(d) THEN At(d) ELSE None

\* One round of the loop of map_insert_internal, at bucket `at` with `entry` in its hands.
PlaceRound(s) ==
    LET here == s.table[s.at]
        poorer == here.dist < s.entry.dist
    IN  IF s.placed THEN s
        ELSE IF here.dist = 0 THEN [s EXCEPT !.table = [@ EXCEPT ![s.at] = s.entry], !.placed = TRUE]
        ELSE [table |-> IF poorer THEN [s.table EXCEPT ![s.at] = s.entry] ELSE s.table,
              at |-> After(s.table, s.at),
              entry |-> Farther(IF poorer THEN here ELSE s.entry),
              placed |-> FALSE]

\* The loop from bucket i with entry e: with an empty bucket anywhere, it is over in a tour.
Placing(t, i, e) ==
    LET after[n \in Nat] ==
            IF n = 0 THEN [table |-> t, at |-> i, entry |-> e, placed |-> FALSE]
                     ELSE PlaceRound(after[n - 1])
    IN  after
Place(t, i, e) == Placing(t, i, e)[Capacity(t)].table

\* map_insert_internal
InsertInternal(t, k, v) == Place(t, Home(t, k), [dist |-> 1, key |-> k, val |-> v])

\* map_grow: the occupied buckets, in their order, inserted in a new table.
Moving(t, capacity) ==
    LET moved[n \in 0 .. Capacity(t)] ==
            IF n = 0 THEN Vacancies(capacity)
            ELSE IF t[n - 1].dist = 0 THEN moved[n - 1]
                 ELSE InsertInternal(moved[n - 1], t[n - 1].key, t[n - 1].val)
    IN  moved
Grow(t) ==
    LET capacity == IF t = NoTable THEN InitialCapacity ELSE 2 * Capacity(t)
    IN  Moving(t, capacity)[Capacity(t)]

\* Defect: the table may fill up.
IsFullAtCapacity(t, n) == t = NoTable \/ n + 1 > Capacity(t)

\* The load test of roxy_map_insert, for one entry more.
IsFull(t, n) == t = NoTable \/ n + 1 > (Capacity(t) * 4) \div 5

\* Defect: the shifted entries keep their distances.
ShiftRoundKeepingDistance(s) ==
    LET next == s.table[After(s.table, s.at)]
    IN  IF s.closed THEN s
        ELSE IF next.dist <= 1
        THEN [s EXCEPT !.table = [@ EXCEPT ![s.at] = Vacant], !.closed = TRUE]
        ELSE [table |-> [s.table EXCEPT ![s.at] = next],
              at |-> After(s.table, s.at),
              closed |-> FALSE]

\* One round of the loop of roxy_map_remove that closes the gap, at bucket `at`.
ShiftRound(s) ==
    LET next == s.table[After(s.table, s.at)]
    IN  IF s.closed THEN s
        ELSE IF next.dist <= 1
        THEN [s EXCEPT !.table = [@ EXCEPT ![s.at] = Vacant], !.closed = TRUE]
        ELSE [table |-> [s.table EXCEPT ![s.at] = [next EXCEPT !.dist = @ - 1]],
              at |-> After(s.table, s.at),
              closed |-> FALSE]

\* The loop from bucket i; it is over in a tour, too.
Shifting(t, i) ==
    LET after[n \in Nat] ==
            IF n = 0 THEN [table |-> t, at |-> i, closed |-> FALSE]
                     ELSE ShiftRound(after[n - 1])
    IN  after
ShiftBack(t, i) == Shifting(t, i)[Capacity(t)].table

-----------------------------------------------------------------------------
(* The counts.  A bag is a function to the naturals.                       *)

NoBag(S) == [x \in S |-> 0]
KeysIn(t) == [k \in Key |-> IF Counted
                            THEN Cardinality({i \in Occupied(t) : t[i].key = k}) ELSE 0]
ValsIn(t) == [v \in Val |-> IF ByReference
                            THEN Cardinality({i \in Occupied(t) : t[i].val = v}) ELSE 0]
Plus(a, b) == [x \in DOMAIN a |-> a[x] + b[x]]
Minus(a, b) == [x \in DOMAIN a |-> a[x] - b[x]]

\* roxy_string_retain and roxy_string_release, roxy_ref_inc and roxy_ref_dec
Retain(c, x, counted) == IF counted THEN [c EXCEPT ![x] = @ + 1] ELSE c
Release(c, x, counted) == IF counted THEN [c EXCEPT ![x] = @ - 1] ELSE c

NoProduct == [keys |-> NoBag(Key), vals |-> NoBag(Val)]

\* Only a string that is still there can be passed as a key.
Usable(k) == ~Counted \/ k \in held

-----------------------------------------------------------------------------
Init ==
    /\ alive = TRUE
    /\ len = 0
    /\ table = NoTable
    /\ borrows = <<>>
    /\ pins = 0
    /\ trapped = FALSE
    /\ last = None
    /\ held = IF Counted THEN Key ELSE {}
    /\ key_count = [k \in Key |-> IF Counted THEN 1 ELSE 0]
    /\ val_count = NoBag(Val)
    /\ product = NoProduct

\* map_mutation_blocked
MutationBlocked == pins # 0

\* map_mutation_blocked raising the trap; what remove then answers, false, is not looked at.
Refuse ==
    /\ trapped' = TRUE
    /\ last' = <<"refused">>
    /\ UNCHANGED <<alive, len, table, borrows, pins, counts>>

\* Defect: the replaced entry takes over the caller's key.
ReplaceRetainingKey(i, k, v) ==
    /\ val_count' = Retain(Release(val_count, table[i].val, ByReference), v, ByReference)
    /\ table' = [table EXCEPT ![i].val = v]
    /\ key_count' = Retain(key_count, k, Counted)
    /\ UNCHANGED len

\* Defect: the value of an equal key is left as it was.
ReplaceNothing(i, k, v) == UNCHANGED <<table, len, key_count, val_count>>

\* roxy_map_insert finding an equal key at bucket i: it keeps the key stored.
Replace(i, k, v) ==
    /\ val_count' = Retain(Release(val_count, table[i].val, ByReference), v, ByReference)
    /\ table' = [table EXCEPT ![i].val = v]
    /\ UNCHANGED <<len, key_count>>

\* roxy_map_insert of a key that is not there.
InsertNew(k, v) ==
    LET roomy == IF IsFull(table, len) THEN Grow(table) ELSE table
    IN  /\ Capacity(roomy) <= MaxCapacity
        /\ val_count' = Retain(val_count, v, ByReference)
        /\ key_count' = Retain(key_count, k, Counted)
        /\ table' = InsertInternal(roomy, k, v)
        /\ len' = len + 1

\* roxy_map_insert, which is also roxy_map_index_mut.
Insert(k, v) ==
    /\ alive /\ Usable(k)
    /\ \/ MutationBlocked /\ Refuse
       \/ /\ ~MutationBlocked
          /\ IF Find(table, k) # None
             THEN Replace(Find(table, k), k, v)
             ELSE InsertNew(k, v)
          /\ last' = <<"insert", Content[k], v>>
          /\ UNCHANGED <<alive, borrows, pins, trapped, held, product>>

\* roxy_map_insert of a value that is read from the map itself, m[k] = m[l]:
\* for a struct (ByPointer) the argument is a pointer into the buckets
\* (INDEX_GET_MAP), and map_grow frees those before map_insert_internal copies
\* from it.  What
\* is read from freed memory may be anything.
InsertOwn(k, l) ==
    /\ alive /\ Usable(k) /\ ~MutationBlocked
    /\ Find(table, l) # None
    /\ LET v == table[Find(table, l)].val
           freed == ByPointer /\ Find(table, k) = None /\ IsFull(table, len)
       IN  /\ \E read \in IF freed THEN Val ELSE {v} :
                  IF Find(table, k) # None
                  THEN Replace(Find(table, k), k, read)
                  ELSE InsertNew(k, read)
           /\ last' = <<"insert", Content[k], v>>
    /\ UNCHANGED <<alive, borrows, pins, trapped, held, product>>

\* The second half of roxy_map_remove: the counts of the entry at bucket i
\* are released while it can still be read, then the gap is closed.
TakeOut(i, k) ==
    /\ val_count' = Release(val_count, table[i].val, ByReference)
    /\ key_count' = Release(key_count, table[i].key, Counted)
    /\ table' = ShiftBack(table, i)
    /\ len' = len - 1

\* roxy_map_remove
Remove(k) ==
    /\ alive /\ Usable(k)
    /\ \/ MutationBlocked /\ Refuse
       \/ /\ ~MutationBlocked
          /\ IF Find(table, k) # None
             THEN TakeOut(Find(table, k), k)
             ELSE UNCHANGED <<table, len, key_count, val_count>>
          /\ last' = <<"remove", Content[k], Find(table, k) # None>>
          /\ UNCHANGED <<alive, borrows, pins, trapped, held, product>>

\* Every count the entries of the map hold.
ReleaseEntries ==
    /\ key_count' = Minus(key_count, KeysIn(table))
    /\ val_count' = Minus(val_count, ValsIn(table))

\* roxy_map_clear
Clear ==
    /\ alive
    /\ \/ MutationBlocked /\ Refuse
       \/ /\ ~MutationBlocked
          /\ ReleaseEntries
          /\ table' = Vacancies(Capacity(table))
          /\ len' = 0
          /\ last' = <<"clear">>
          /\ UNCHANGED <<alive, borrows, pins, trapped, held, product>>

\* roxy_map_contains, roxy_map_len; roxy_map_get and roxy_map_get_or (None
\* stands for the trap of the one and the fallback of the other).
Lookup(k) ==
    /\ alive /\ Usable(k)
    /\ LET i == Find(table, k)
       IN  last' \in {<<"contains", Content[k], i # None>>,
                      <<"get", Content[k], IF i # None THEN table[i].val ELSE None>>}
    /\ UNCHANGED <<alive, len, table, borrows, pins, trapped, counts>>

\* What a list or a map made from this one shows of it.
Entries ==
    LET contents == {Content[table[i].key] : i \in Occupied(table)}
    IN  <<"entries", contents \ Unequal, len>>

\* The result of keys, values or copy holds counts of its own.
Acquire(keys, vals) ==
    /\ product = NoProduct
    /\ product' = [keys |-> keys, vals |-> vals]
    /\ key_count' = Plus(key_count, keys)
    /\ val_count' = Plus(val_count, vals)

\* roxy_map_keys
Keys ==
    /\ alive
    /\ Acquire(KeysIn(table), NoBag(Val))
    /\ last' = Entries
    /\ UNCHANGED <<alive, len, table, borrows, pins, trapped, held>>

\* roxy_map_values
Values ==
    /\ alive
    /\ Acquire(NoBag(Key), ValsIn(table))
    /\ last' = Entries
    /\ UNCHANGED <<alive, len, table, borrows, pins, trapped, held>>

\* roxy_map_copy
Copy ==
    /\ alive
    /\ Acquire(KeysIn(table), ValsIn(table))
    /\ last' = Entries
    /\ UNCHANGED <<alive, len, table, borrows, pins, trapped, held>>

\* The drop of that list or map.
DropProduct ==
    /\ product # NoProduct
    /\ key_count' = Minus(key_count, product.keys)
    /\ val_count' = Minus(val_count, product.vals)
    /\ product' = NoProduct
    /\ UNCHANGED <<alive, len, table, borrows, pins, trapped, last, held>>

\* The program's own string goes out of scope, or is taken from the list.
DropKey(k) ==
    /\ Counted /\ k \in held
    /\ held' = held \ {k}
    /\ key_count' = Release(key_count, k, Counted)
    /\ UNCHANGED <<alive, len, table, borrows, pins, trapped, last, val_count, product>>

TakeKey(k) ==
    /\ Counted /\ k \notin held /\ product.keys[k] > 0
    /\ held' = held \cup {k}
    /\ key_count' = Retain(key_count, k, Counted)
    /\ UNCHANGED <<alive, len, table, borrows, pins, trapped, last, val_count, product>>

\* `inout m[k]`: INDEX_ADDR_MAP, then CONTAINER_PIN (roxy_map_pin).
Borrow(k) ==
    /\ alive /\ Usable(k)
    /\ Len(borrows) < MaxBorrows
    /\ Find(table, k) # None
    /\ borrows' = Append(borrows, [key |-> table[Find(table, k)].key,
                                   pos |-> Find(table, k), of |-> Capacity(table)])
    /\ pins' = pins + 1
    /\ last' = <<"borrow", Content[k]>>
    /\ UNCHANGED <<alive, len, table, trapped, counts>>

\* The callee stores through the innermost pointer it was given.
WriteThrough(v) ==
    /\ borrows # <<>>
    /\ LET i == Sx!Last(borrows).pos
       IN  /\ val_count' = Retain(Release(val_count, table[i].val, ByReference),
                                  v, ByReference)
           /\ table' = [table EXCEPT ![i].val = v]
    /\ last' = <<"write", v>>
    /\ UNCHANGED <<alive, len, borrows, pins, trapped, held, key_count, product>>

\* Defect: the pin of an outer call is lifted with the inner one.
UnborrowAll ==
    /\ borrows # <<>>
    /\ borrows' = Sx!Front(borrows)
    /\ pins' = 0
    /\ last' = <<"return">>
    /\ UNCHANGED <<alive, len, table, trapped, counts>>

\* The call returns: CONTAINER_UNPIN (roxy_map_unpin).
Unborrow ==
    /\ borrows # <<>>
    /\ borrows' = Sx!Front(borrows)
    /\ pins' = IF pins > 0 THEN pins - 1 ELSE pins
    /\ last' = <<"return">>
    /\ UNCHANGED <<alive, len, table, trapped, counts>>

\* delete_value of a map: refused while it is pinned, else every key and
\* value is dropped and the buckets are freed (roxy_map_delete).
Destroy ==
    /\ alive
    /\ \/ pins # 0 /\ Refuse
       \/ /\ pins = 0
          /\ ReleaseEntries
          /\ alive' = FALSE
          /\ len' = 0
          /\ table' = NoTable
          /\ last' = <<"destroy">>
          /\ UNCHANGED <<borrows, pins, trapped, held, product>>

\* The capacity an initial one of n becomes: InitialCapacity doubled until it is enough.
RoundUp(n) ==
    LET doubled[m \in Nat] ==
            IF m = 0 THEN InitialCapacity
            ELSE IF doubled[m - 1] < n THEN 2 * doubled[m - 1] ELSE doubled[m - 1]
    IN  doubled[n]

\* roxy_map_alloc, roxy_map_init
Create(n) ==
    /\ ~alive
    /\ alive' = TRUE
    /\ table' = IF n = 0 THEN NoTable ELSE Vacancies(RoundUp(n))
    /\ Capacity(table') <= MaxCapacity
    /\ last' = <<"create">>
    /\ UNCHANGED <<len, borrows, pins, trapped, counts>>

Next ==
    \/ \E k \in Key : Remove(k) \/ Lookup(k) \/ Borrow(k) \/ DropKey(k) \/ TakeKey(k)
    \/ \E k \in Key, v \in Val : Insert(k, v)
    \/ \E k, l \in Key : InsertOwn(k, l)
    \/ \E v \in Val : WriteThrough(v)
    \/ \E n \in {0, InitialCapacity + 1} : Create(n)
    \/ Clear \/ Keys \/ Values \/ Copy \/ DropProduct \/ Unborrow \/ Destroy

Spec == Init /\ [][Next]_vars

-----------------------------------------------------------------------------
(* Properties.                                                             *)

\* Every variable keeps its shape, and no count goes below zero (part of HoldingsAreCounted).
TypeOK ==
    /\ alive \in BOOLEAN /\ trapped \in BOOLEAN
    /\ len \in Nat /\ pins \in Nat
    /\ table = NoTable \/ table \in [0 .. Capacity(table) - 1 -> Bucket]
    /\ held \subseteq Key
    /\ key_count \in [Key -> Nat] /\ val_count \in [Val -> Nat]
    /\ product.keys \in [Key -> Nat] /\ product.vals \in [Val -> Nat]

\* The Robin Hood order that lets a search stop early: a bucket's distance is
\* the one from its key's home, and an entry away from home follows one that
\* is at most one step nearer.  Insertion, growth and removal all rely on it.
RobinHoodOrder ==
    \A i \in Occupied(table) :
        LET d == table[i].dist
            before == (i + Capacity(table) - 1) % Capacity(table)
        IN  /\ i = (Home(table, table[i].key) + d - 1) % Capacity(table)
            /\ d > 1 => table[before].dist >= d - 1

\* An allocated table has an empty bucket: without one the loops of
\* map_insert_internal and of the probes of absent keys run forever.
RoomForAProbeToEnd ==
    table # NoTable => Occupied(table) # DOMAIN table

\* hdr->length, which short-cuts searches and sizes lists, counts the buckets.
LengthExact == len = Cardinality(Occupied(table))

\* Equal keys never have two entries, whatever was displaced, shifted or
\* rehashed between the insertions.
EqualKeysShareAnEntry ==
    \A i, j \in Occupied(table) :
        KeysEqual(table[i].key, table[j].key) => i = j

\* A pointer handed out to an `inout` argument still points at the entry it
\* was taken of, in the same bucket array, until the call returns.
BorrowedValuesStay ==
    \A n \in 1 .. Len(borrows) :
        LET b == borrows[n]
        IN  alive /\ Capacity(table) = b.of /\ table[b.pos].key = b.key

\* A key string is owned once by the program while it holds it, once by
\* every bucket and once by every element of the product: no map operation
\* leaks a key or frees one that is still stored.
KeyCountsExact ==
    Counted => \A k \in Key :
        key_count[k] = (IF k \in held THEN 1 ELSE 0) + KeysIn(table)[k] + product.keys[k]

\* The same for the borrows of `ref` values; and every variable keeps its shape.
ValueBorrowsExact ==
    /\ TypeOK
    /\ ByReference => \A v \in Val :
           val_count[v] = ValsIn(table)[v] + product.vals[v]

\* Every holding of a key or a value is counted, through any operations (the run of counted keys).
HoldingsAreCounted == KeyCountsExact /\ ValueBorrowsExact

-----------------------------------------------------------------------------
(* The table implements the contract.                                      *)

\* The entries a search can find, the function they are, and the others.
Found(t) == {i \in Occupied(t) : Content[t[i].key] \notin Unequal}
Shown(t) == [c \in {Content[t[i].key] : i \in Found(t)} |->
                t[CHOOSE i \in Found(t) : Content[t[i].key] = c].val]
Strays(t) == Cardinality(Occupied(t) \ Found(t))
Lent(b) == [n \in DOMAIN b |-> Content[b[n].key]]

Contract == INSTANCE RoxyMapContract WITH
    contents <- IF alive THEN Shown(table) ELSE None,
    strays <- Strays(table),
    borrowed <- Lent(borrows)

\* Through all displacements, shifts and rebuilds the program sees a finite
\* function, a write through a borrow lands in its own entry, and what is
\* done under a borrow is refused.
ImplementsContract == Contract!Spec

=============================================================================
