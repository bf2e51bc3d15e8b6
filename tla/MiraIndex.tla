----------------------------- MODULE MiraIndex -----------------------------
(***************************************************************************)
(* mira::multi_index_container under chainbase::generic_index: one RocksDB *)
(* column for each index of a table, an object cache with one map for each *)
(* index, and the first key of each column.  UndoIndex takes the table for *)
(* granted; here each of its operations does to columns, cache and first   *)
(* keys what the container does, and readers fill the cache in between.    *)
(*                                                                         *)
(* There are two indices, by id and by key.  A cached object is shared by  *)
(* both maps of the cache; it is named by its id.  A write batch of        *)
(* RocksDB is atomic and external.  The cache of all tables has one list   *)
(* of recently used objects, so that trimming may take any of this one's.  *)
(***************************************************************************)
EXTENDS UndoIndex, FiniteSetsExt, Functions, TLC

CONSTANT Wide   \* bound: contents that no object has while two sessions are open

ASSUME MiraAssumption ==
  /\ Wide \subseteq Values
  /\ \A v \in Values : Key[v] \in Nat

VARIABLE mira   \* the container; its parts are given with Empty

Empty == [primary   |-> <<>>,      \* column 1: contents by id
          secondary |-> <<>>,      \* column 2: ids by key
          cached    |-> <<>>,      \* the map of the cache by id: contents
          by_key    |-> <<>>,      \* the map of the cache by key: ids of cached objects
          first_id  |-> None,      \* _first_key of column 1
          first_key |-> None,      \* _first_key of column 2
          count     |-> 0]         \* _entry_count

Without(f, x) == Restrict(f, DOMAIN f \ {x})
Least(S) == IF S = {} THEN None ELSE Min(S)
Greatest(S) == IF S = {} THEN None ELSE Max(S)
Above(col, k) == Least({x \in DOMAIN col : x > k})

-----------------------------------------------------------------------------
(* The object cache.  std::map::insert keeps what is there.                *)

Cache(c, i, v) == [c EXCEPT !.cached = @ @@ (i :> v), !.by_key = @ @@ (Key[v] :> i)]

\* Dereferencing an iterator of column 1 or of column 2.
DerefId(c, i) == IF i \in DOMAIN c.cached THEN c ELSE Cache(c, i, c.primary[i])
DerefKey(c, k) == IF k \in DOMAIN c.by_key THEN c ELSE Cache(c, c.secondary[k], c.primary[c.secondary[k]])

Invalidate(c, i) ==
  [c EXCEPT !.cached = Without(@, i), !.by_key = Without(@, Key[c.cached[i]])]

\* Seeded fault: the value is replaced and the map by key left alone.
UpdateInPlace(c, i, v) == [c EXCEPT !.cached[i] = v]

\* multi_index_cache_manager::update, for the indices whose key has changed.
Update(c, i, v) ==
  IF Key[v] = Key[c.cached[i]] THEN [c EXCEPT !.cached[i] = v]
  ELSE [c EXCEPT !.cached[i] = v, !.by_key = Without(@, Key[c.cached[i]]) @@ (Key[v] :> i)]

-----------------------------------------------------------------------------
(* insert_, modify_ and erase_.  Each column looks for the new first key   *)
(* before the batch is written; the object it finds is read, and so cached. *)

FirstInserted(first, k) == IF first = None \/ k < first THEN k ELSE first

FirstErased(first, col, k) == IF k = first THEN Above(col, first) ELSE first

FirstModified(first, col, old, new) ==
  IF first = None THEN None
  ELSE IF new < first THEN new
  ELSE IF first < new /\ old = first
  THEN LET second == Above(col, first) IN IF second # None /\ second < new THEN second ELSE new
  ELSE first

\* What is cached when the second key of a column is looked at.
SecondId(c, i) == IF i = c.first_id /\ Above(c.primary, i) # None THEN DerefId(c, Above(c.primary, i)) ELSE c
SecondKey(c, k) == IF k = c.first_key /\ Above(c.secondary, k) # None THEN DerefKey(c, Above(c.secondary, k)) ELSE c

Inserted(c, i, v) ==
  LET k == Key[v]
  IN  IF i \in DOMAIN c.primary \/ k \in DOMAIN c.secondary THEN c
      ELSE Cache([c EXCEPT !.primary = @ @@ (i :> v), !.secondary = @ @@ (k :> i),
                           !.first_id = FirstInserted(@, i), !.first_key = FirstInserted(@, k),
                           !.count = @ + 1], i, v)

\* The old key is that of the cached object, of which modify() takes a copy.
Modified(c, i, v) ==
  LET d == DerefId(c, i)
      old == Key[d.cached[i]]
      new == Key[v]
      written == [d EXCEPT !.primary[i] = v]
  IN  IF new = old THEN Update(written, i, v)
      ELSE IF new \in DOMAIN d.secondary THEN d
      ELSE LET e == IF new > old THEN SecondKey(d, old) ELSE d
           IN  Update([e EXCEPT !.primary[i] = v,
                                !.secondary = Without(@, old) @@ (new :> i),
                                !.first_key = FirstModified(@, d.secondary, old, new)], i, v)

Erased(c, i) ==
  LET d == DerefId(c, i)
      k == Key[d.cached[i]]
      e == SecondKey(SecondId(d, i), k)
  IN  Invalidate([e EXCEPT !.primary = Without(@, i), !.secondary = Without(@, k),
                           !.first_id = FirstErased(@, e.primary, i),
                           !.first_key = FirstErased(@, e.secondary, k),
                           !.count = @ - 1], i)

\* The three loops of generic_index::undo, by id; a refused modification ends the first of them.
Undone(c, u) ==
  LET back[n \in 0 .. MaxId + 1] ==
        IF n = 0 THEN [go |-> TRUE, c |-> c]
        ELSE LET s == back[n - 1]
                 i == n - 1
             IN  IF ~ s.go \/ u.old_values[i] = None THEN s
                 ELSE LET d == IF i \in DOMAIN s.c.primary THEN Modified(s.c, i, u.old_values[i])
                               ELSE Inserted(s.c, i, u.old_values[i])
                      IN  [go |-> i \in DOMAIN d.primary /\ d.primary[i] = u.old_values[i], c |-> d]
      erase[n \in 0 .. MaxId + 1] ==
        IF n = 0 THEN back[MaxId + 1].c
        ELSE IF n - 1 \in u.new_ids THEN Erased(erase[n - 1], n - 1) ELSE erase[n - 1]
      emplaced[n \in 0 .. MaxId + 1] ==
        IF n = 0 THEN erase[MaxId + 1]
        ELSE IF u.removed_values[n - 1] # None THEN Inserted(emplaced[n - 1], n - 1, u.removed_values[n - 1])
        ELSE emplaced[n - 1]
  IN  IF back[MaxId + 1].go THEN emplaced[MaxId + 1] ELSE back[MaxId + 1].c

-----------------------------------------------------------------------------
(* rocksdb_iterator: at a cached object, or at a key of its column         *)
(* (None at the end).  ix is "id" or "key".                                *)

Column(ix) == DOMAIN (IF ix = "id" THEN mira.primary ELSE mira.secondary)
Map(ix) == IF ix = "id" THEN [i \in DOMAIN mira.cached |-> i] ELSE mira.by_key
KeyIn(ix, i) == IF ix = "id" THEN i ELSE Key[mira.cached[i]]

AtObject(i) == [object |-> i, at |-> None]
AtKey(k) == [object |-> None, at |-> k]
End == AtKey(None)

find(ix, k) ==
  IF k \in DOMAIN Map(ix) THEN AtObject(Map(ix)[k])
  ELSE IF k \in Column(ix) THEN AtKey(k) ELSE End

lower_bound(ix, k) ==
  IF k \in DOMAIN Map(ix) THEN AtObject(Map(ix)[k]) ELSE AtKey(Least({x \in Column(ix) : x >= k}))

upper_bound(ix, k) == AtKey(Least({x \in Column(ix) : x > k}))

begin(ix) ==
  LET first == IF ix = "id" THEN mira.first_id ELSE mira.first_key
  IN  IF first # None THEN lower_bound(ix, first) ELSE AtKey(Least(Column(ix)))

\* operator++ and operator--: from an object by way of its key, which has to be in the column;
\* from the end back to the last key.
Place(ix, it) == IF it.object # None THEN KeyIn(ix, it.object) ELSE it.at
Successor(ix, it) ==
  LET k == Place(ix, it)
  IN  IF k \notin Column(ix) THEN End ELSE AtKey(Least({x \in Column(ix) : x > k}))
Predecessor(ix, it) ==
  LET k == Place(ix, it)
  IN  IF it = End THEN AtKey(Greatest(Column(ix)))
      ELSE IF k \notin Column(ix) THEN End ELSE AtKey(Greatest({x \in Column(ix) : x < k}))

\* The object under an iterator that is not at the end: its id and what a reader sees of it.
Id(ix, it) ==
  IF it.object # None THEN it.object
  ELSE IF it.at \in DOMAIN Map(ix) THEN Map(ix)[it.at]
  ELSE IF ix = "id" THEN it.at ELSE mira.secondary[it.at]
Content(ix, it) == LET i == Id(ix, it) IN IF i \in DOMAIN mira.cached THEN mira.cached[i] ELSE mira.primary[i]

-----------------------------------------------------------------------------
MiraInit == Init /\ mira = Empty

\* A reader finds an object by its id or by its key.
read(ix, k) ==
  /\ find(ix, k) # End
  /\ mira' = IF ix = "id" THEN DerefId(mira, k) ELSE DerefKey(mira, k)
  /\ UNCHANGED vars

\* adjust_capacity takes objects off the cache.
trim_cache(i) ==
  /\ i \in DOMAIN mira.cached
  /\ mira' = Invalidate(mira, i)
  /\ UNCHANGED vars

\* close() and open() of the same container: the cache goes, first keys stay.
reopen ==
  /\ Running /\ ~ enabled
  /\ mira' = [mira EXCEPT !.cached = <<>>, !.by_key = <<>>,
                          !.first_id = IF @ = None THEN Least(DOMAIN mira.primary) ELSE @,
                          !.first_key = IF @ = None THEN Least(DOMAIN mira.secondary) ELSE @]
  /\ UNCHANGED vars

Narrow(v) == Len(stack) > 1 => v \notin Wide

MiraNext ==
  \/ \E v \in Values : Narrow(v) /\ emplace(v) /\ mira' = Inserted(mira, next_id, v)
  \/ \E i \in Ids, v \in Values : Narrow(v) /\ modify(i, v) /\ mira' = Modified(mira, i, v)
  \/ \E i \in Ids : remove(i) /\ mira' = Erased(mira, i)
  \/ undo /\ mira' = Undone(mira, Top)
  \/ start_undo_session /\ (enabled => Range(objs) \cap Wide = {}) /\ UNCHANGED mira
  \/ (squash \/ undo_all) /\ UNCHANGED mira
  \/ \E r \in 0 .. MaxRevision : (commit(r) \/ set_revision(r)) /\ UNCHANGED mira
  \/ \E i \in Ids : read("id", i) \/ trim_cache(i)
  \/ \E k \in Range(Key) : read("key", k)
  \/ reopen

MiraSpec == MiraInit /\ [][MiraNext]_<<vars, mira>>

-----------------------------------------------------------------------------
(* Properties.                                                             *)

\* Columns, count and first keys are those of the table, whether operations succeeded, were
\* refused or were undone.
ColumnsAgree ==
  LET live == {i \in Ids : objs[i] # None}
  IN  /\ mira.primary = Restrict(objs, live)
      /\ mira.secondary = [k \in {Key[objs[i]] : i \in live} |-> CHOOSE i \in live : Key[objs[i]] = k]
      /\ mira.count = Cardinality(live)
      /\ mira.first_id = Least(live) /\ mira.first_key = Least(DOMAIN mira.secondary)

\* Whatever is cached, by whichever index it was read, a lookup by id or key finds the object
\* that has it now with its present content, the bounds are the neighbouring keys, and a walk
\* from begin() or back from end() visits every object once, in order.
ReadsRight ==
  \A ix \in {"id", "key"} :
    LET live == {i \in Ids : objs[i] # None}
        K(i) == IF ix = "id" THEN i ELSE Key[objs[i]]
        keys == {K(i) : i \in live}
        Shows(it, k) == IF k = None THEN it = End
                        ELSE it # End /\ K(Id(ix, it)) = k /\ Content(ix, it) = objs[Id(ix, it)]
        walk[n \in 0 .. Cardinality(live)] == IF n = 0 THEN begin(ix) ELSE Successor(ix, walk[n - 1])
        back[n \in 0 .. Cardinality(live)] == Predecessor(ix, IF n = 0 THEN End ELSE back[n - 1])
    IN  /\ \A k \in (IF ix = "id" THEN Ids ELSE Range(Key)) :
             /\ Shows(find(ix, k), IF k \in keys THEN k ELSE None)
             /\ Shows(lower_bound(ix, k), Least({x \in keys : x >= k}))
             /\ Shows(upper_bound(ix, k), Least({x \in keys : x > k}))
        /\ \A n \in 0 .. Cardinality(live) :
             /\ Shows(walk[n], Least({x \in keys : Cardinality({y \in keys : y < x}) = n}))
             /\ Shows(back[n], Least({x \in keys : Cardinality({y \in keys : y > x}) = n}))

\* The container is the table that generic_index takes it for.
ContainerSound == ColumnsAgree /\ ReadsRight
=============================================================================
