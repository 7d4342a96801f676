------------------------------- MODULE Memory -------------------------------
(***************************************************************************)
(* Page frames and kmalloc (memory.c): alloc_pages and free_pages over the *)
(* bit map, kmalloc, kmalloc_create and kfree over the slabs of two caches. *)
(* The slabs of a "small" cache hold their struct Slab and color_map in    *)
(* their own page; those of a "big" one take both from the small cache     *)
(* (cache sizes 128 and 2048 in the code), so kmalloc and kfree call       *)
(* themselves.                                                             *)
(*                                                                         *)
(* None of it is locked and a task may be preempted anywhere.  Whatever is *)
(* read, changed and written back (a word of a map, a counter) is loaded in *)
(* one step and stored in the next; counters updated one after the other   *)
(* are taken together.  A list operation and a walk through a list is one  *)
(* step.  An address is <<page, index>>.                                   *)
(***************************************************************************)
EXTENDS Integers, FiniteSets, FiniteSetsExt, SequencesExt

CONSTANTS
  Callers,
  PoolPage,  \* the page of each cache's own slab, cache_pool
  Pages,     \* those alloc_pages may give
  Colors,    \* color_count: the objects of a slab
  NoAddress, \* NULL
  MaxHeld,   \* bound on the objects held at once
  MaxWindows \* bound on the windows in which a task is preempted

Caches == {"small", "big"}
AllPages == Pages \cup {PoolPage[c] : c \in Caches}
Indices == 0..(Colors - 1)
Addresses == AllPages \X Indices

ASSUME MemoryAssumption ==
  /\ PoolPage \in [Caches -> Nat] /\ PoolPage["small"] # PoolPage["big"]
  /\ Pages \subseteq Nat /\ IsFiniteSet(Pages) /\ Pages \cap {PoolPage[c] : c \in Caches} = {}
  /\ Colors \in Nat \ {0}
  /\ NoAddress \notin Addresses
  /\ MaxHeld \in Nat /\ MaxWindows \in Nat

VARIABLES
  bits_map,         \* the pages in use
  page_free_count,  \* of the zone
  pool,             \* the slabs of each cache, by their pages, cache_pool first
  slab,             \* the struct Slab of each page
  total_free, total_using,
  current, memory_pc, loc, \* the running task; where each is, its variables
  held,             \* what kmalloc has given and nobody has freed
  memory_fault,     \* "none", or how the kernel has gone wrong
  failed,           \* history: the error messages printed
  memory_hit        \* history: the windows a task was preempted in

pageVars == <<bits_map, page_free_count>>
cacheVars == <<pool, slab, total_free, total_using>>
memoryVars == <<pageVars, cacheVars, current, memory_pc, loc, held, memory_fault, failed, memory_hit>>

(* A task is in "run" outside, else before the step that                    *)
(*   "choose"           looks for a slab with a free object                 *)
(*   "find", "mark"     looks for a page, enters it in bits_map             *)
(*   "link"             adds a slab to its cache                            *)
(*   "test", "set", "count"  looks for a color, takes it, counts it         *)
(*   "got"              returns from kmalloc                                *)
(*   "kfree", "flip", "uncount"  finds the slab of an address, frees it     *)
(*   "unlink"           takes an empty slab out of its cache                *)
(*   "clean", "release" gives its page back                                 *)
(*   "freed"            returns from kfree                                  *)
Windows == {"mark", "link", "test", "set", "count", "flip", "uncount", "unlink", "release"}
PCs == Windows \cup {"run", "choose", "find", "got", "kfree", "clean", "freed"}
Messages == {"no page", "no memory", "cannot free"}

NewSlab == [using_count |-> 0, free_count |-> Colors, color_map |-> {},
            at |-> NoAddress, map_at |-> NoAddress]

\* then: what follows a call of kmalloc or kfree, in the task ("user"), in
\* kmalloc_create ("struct", "map") or in kfree ("struct", "map").
\* word, was: the word of a map and the counters, loaded for the step to come.
Unused == [cache |-> "small", then |-> "user", address |-> NoAddress, page |-> 0,
           big |-> 0, at |-> NoAddress, word |-> {}, was |-> <<>>]

\* A task preempted there undoes, when it goes on, what others have counted since:
\* nothing the counters decide is right any more, and the behaviour ends.
LosesCounts == {"count", "uncount"}
MemoryAlive == memory_fault = "none" /\ memory_hit \cap LosesCounts = {}
At(t, point) == MemoryAlive /\ current = t /\ memory_pc[t] = point
Goto(t, point, l) ==
  /\ memory_pc' = [memory_pc EXCEPT ![t] = point]
  /\ loc' = [loc EXCEPT ![t] = IF point \in Windows THEN l
                               ELSE [l EXCEPT !.word = {}, !.was = <<>>]]
Slabs(c) == ToSet(pool[c])
InSlabs == UNION {Slabs(c) : c \in Caches}
Says(message) == failed' = failed \cup {message}
-----------------------------------------------------------------------------
(* alloc_pages(ZONE_NORMAL, 1, 0) and free_pages(page, 1) *)

FindPage(t) ==
  /\ At(t, "find")
  /\ LET free == Pages \ bits_map
     IN IF free = {} \/ page_free_count < 1
        THEN /\ Goto(t, "got", [loc[t] EXCEPT !.address = NoAddress])
             /\ Says("no page")
        ELSE /\ Goto(t, "mark", [loc[t] EXCEPT !.page = Min(free), !.word = bits_map,
                                               !.was = <<page_free_count>>])
             /\ UNCHANGED failed
  /\ UNCHANGED <<pageVars, cacheVars, current, held, memory_fault, memory_hit>>

LoadBits(t) ==
  /\ At(t, "clean")
  /\ Goto(t, "release", [loc[t] EXCEPT !.word = bits_map, !.was = <<page_free_count>>])
  /\ UNCHANGED <<pageVars, cacheVars, current, held, memory_fault, failed, memory_hit>>

\* A slab outside its page has its map freed before the page and itself after it.
FreePage(t) ==
  /\ At(t, "release")
  /\ LET l == loc[t]
     IN /\ bits_map' = l.word \ {l.page}
        /\ page_free_count' = l.was[1] + 1
        /\ IF l.cache = "small" THEN Goto(t, "freed", l)
           ELSE Goto(t, "kfree", [l EXCEPT !.cache = "small", !.then = "struct", !.address = l.at])
  /\ UNCHANGED <<cacheVars, current, held, memory_fault, failed, memory_hit>>
-----------------------------------------------------------------------------
(* kmalloc and kmalloc_create *)

Kmalloc(t, c) ==
  /\ At(t, "run") /\ Cardinality(held) < MaxHeld
  /\ Goto(t, "choose", [Unused EXCEPT !.cache = c])
  /\ UNCHANGED <<pageVars, cacheVars, current, held, memory_fault, failed, memory_hit>>

(* Here and below, operators named for what they do wrong are variants of the next *)
(* one that a slip would give.                                                      *)
FirstIsPool(c) == PoolPage[c]

\* The first slab with a free object, or cache_pool.
FirstFree(c) ==
  LET free == {i \in DOMAIN pool[c] : slab[pool[c][i]].free_count # 0}
  IN IF free = {} THEN PoolPage[c] ELSE pool[c][Min(free)]

\* When no object is free a slab is added.
Choose(t) ==
  /\ At(t, "choose")
  /\ LET c == loc[t].cache
     IN IF total_free[c] = 0 THEN Goto(t, "find", loc[t])
        ELSE Goto(t, "test", [loc[t] EXCEPT !.page = FirstFree(c)])
  /\ UNCHANGED <<pageVars, cacheVars, current, held, memory_fault, failed, memory_hit>>

ToLink(t, l) == Goto(t, "link", [l EXCEPT !.was = <<total_free[l.cache]>>])

\* The page is marked and, in the small cache, the slab at its end filled in; a
\* big slab needs memory of its own.
MarkPage(t) ==
  /\ At(t, "mark")
  /\ LET l == loc[t]
     IN /\ bits_map' = l.word \cup {l.page}
        /\ page_free_count' = l.was[1] - 1
        /\ memory_fault' = IF l.page \in InSlabs THEN "page_shared" ELSE "none"
        /\ IF l.cache = "small"
           THEN slab' = [slab EXCEPT ![l.page] = NewSlab] /\ ToLink(t, l)
           ELSE /\ Goto(t, "choose", [l EXCEPT !.cache = "small", !.then = "struct",
                                               !.big = l.page])
                /\ UNCHANGED slab
  /\ UNCHANGED <<pool, total_free, total_using, current, held, failed, memory_hit>>

\* total_free += slab->color_count; list_add_to_before: behind the others
Link(t) ==
  /\ At(t, "link")
  /\ LET l == loc[t]
     IN /\ total_free' = [total_free EXCEPT ![l.cache] = l.was[1] + Colors]
        /\ pool' = [pool EXCEPT ![l.cache] = Append(@, l.page)]
        /\ Goto(t, "test", l)
        /\ memory_fault' = IF l.page \in InSlabs THEN "page_shared" ELSE "none"
  /\ UNCHANGED <<pageVars, slab, total_using, current, held, failed, memory_hit>>

\* The struct Slab is still there.
Linked(l) == l.page \in Slabs(l.cache)

Dangles == memory_fault' = "use_after_free" /\ UNCHANGED <<memory_pc, loc>>

\* The first color that is free, for which the word of the map is loaded.
Test(t) ==
  /\ At(t, "test")
  /\ LET l == loc[t]
         used == slab[l.page].color_map
     IN IF ~Linked(l) THEN Dangles /\ UNCHANGED failed
        ELSE IF used = Indices
        THEN /\ Goto(t, "got", [l EXCEPT !.address = NoAddress])
             /\ Says("no memory") /\ UNCHANGED memory_fault
        ELSE /\ Goto(t, "set", [l EXCEPT !.word = used,
                                         !.address = <<l.page, Min(Indices \ used)>>])
             /\ UNCHANGED <<memory_fault, failed>>
  /\ UNCHANGED <<pageVars, cacheVars, current, held, memory_hit>>

\* What using_count, free_count, total_using and total_free are.
Counters(l) ==
  <<slab[l.page].using_count, slab[l.page].free_count, total_using[l.cache], total_free[l.cache]>>

StoreMap(t, point, map) ==
  LET l == loc[t]
  IN IF ~Linked(l) THEN Dangles /\ UNCHANGED slab
     ELSE /\ slab' = [slab EXCEPT ![l.page].color_map = map]
          /\ Goto(t, point, [l EXCEPT !.was = Counters(l)])
          /\ UNCHANGED memory_fault

Set(t) ==
  /\ At(t, "set")
  /\ StoreMap(t, "count", loc[t].word \cup {loc[t].address[2]})
  /\ UNCHANGED <<pageVars, pool, total_free, total_using, current, held, failed, memory_hit>>

\* n objects more are used.
StoreCounters(l, n) ==
  /\ slab' = [slab EXCEPT ![l.page].using_count = l.was[1] + n,
                          ![l.page].free_count = l.was[2] - n]
  /\ total_using' = [total_using EXCEPT ![l.cache] = l.was[3] + n]
  /\ total_free' = [total_free EXCEPT ![l.cache] = l.was[4] - n]

Count(t) ==
  /\ At(t, "count")
  /\ IF ~Linked(loc[t]) THEN Dangles /\ UNCHANGED <<slab, total_free, total_using>>
     ELSE /\ StoreCounters(loc[t], 1)
          /\ Goto(t, "got", loc[t])
          /\ UNCHANGED memory_fault
  /\ UNCHANGED <<pageVars, pool, current, held, failed, memory_hit>>

Got(t) ==
  /\ At(t, "got") /\ loc[t].then = "user"
  /\ IF loc[t].address \in held
     THEN memory_fault' = "given_twice" /\ UNCHANGED <<memory_pc, loc, held>>
     ELSE /\ held' = held \cup ({loc[t].address} \ {NoAddress})
          /\ Goto(t, "run", Unused)
          /\ UNCHANGED memory_fault
  /\ UNCHANGED <<pageVars, cacheVars, current, failed, memory_hit>>

\* kmalloc_create writes to what it has got without a look.
GotStruct(t) ==
  /\ At(t, "got") /\ loc[t].then = "struct"
  /\ IF loc[t].address = NoAddress THEN memory_fault' = "null_deref" /\ UNCHANGED <<memory_pc, loc>>
     ELSE /\ Goto(t, "choose", [loc[t] EXCEPT !.then = "map", !.at = loc[t].address])
          /\ UNCHANGED memory_fault
  /\ UNCHANGED <<pageVars, cacheVars, current, held, failed, memory_hit>>

GotMap(t) ==
  /\ At(t, "got") /\ loc[t].then = "map"
  /\ LET l == loc[t]
     IN IF l.address = NoAddress
        THEN memory_fault' = "null_deref" /\ UNCHANGED <<memory_pc, loc, slab>>
        ELSE /\ slab' = [slab EXCEPT ![l.big] =
                           [NewSlab EXCEPT !.at = l.at, !.map_at = l.address]]
             /\ ToLink(t, [Unused EXCEPT !.cache = "big", !.page = l.big])
             /\ UNCHANGED memory_fault
  /\ UNCHANGED <<pageVars, pool, total_free, total_using, current, held, failed, memory_hit>>
-----------------------------------------------------------------------------
(* kfree *)

\* What kmalloc has given is freed once, by whichever task.
Kfree(t, a) ==
  /\ At(t, "run") /\ a \in held
  /\ held' = held \ {a}
  /\ Goto(t, "kfree", [Unused EXCEPT !.address = a])
  /\ UNCHANGED <<pageVars, cacheVars, current, memory_fault, failed, memory_hit>>

\* The slab is the one whose page the address is in; the word of its map is loaded.
FindSlab(t) ==
  /\ At(t, "kfree")
  /\ LET p == loc[t].address[1]
         cache == {c \in Caches : loc[t].address # NoAddress /\ p \in Slabs(c)}
     IN IF cache = {} THEN Goto(t, "freed", loc[t]) /\ Says("cannot free")
        ELSE /\ Goto(t, "flip", [loc[t] EXCEPT !.page = p, !.word = slab[p].color_map,
                                               !.cache = CHOOSE c \in cache : TRUE])
             /\ UNCHANGED failed
  /\ UNCHANGED <<pageVars, cacheVars, current, held, memory_fault, memory_hit>>

\* The bit is inverted, whatever it was.
Flip(t) ==
  /\ At(t, "flip")
  /\ StoreMap(t, "uncount", SymDiff(loc[t].word, {loc[t].address[2]}))
  /\ UNCHANGED <<pageVars, pool, total_free, total_using, current, held, failed, memory_hit>>

ReturnableInUse(p, using, tfree, c) ==
  tfree >= (Colors * 3) \div 2 /\ p # PoolPage[c]

\* A slab with nothing used is given back if half as much is free elsewhere.
Returnable(p, using, tfree, c) ==
  using = 0 /\ tfree >= (Colors * 3) \div 2 /\ p # PoolPage[c]

Uncount(t) ==
  /\ At(t, "uncount")
  /\ LET l == loc[t]
     IN IF ~Linked(l) THEN Dangles /\ UNCHANGED <<slab, total_free, total_using>>
        ELSE /\ StoreCounters(l, -1)
             /\ IF Returnable(l.page, l.was[1] - 1, l.was[4] + 1, l.cache)
                THEN Goto(t, "unlink", [l EXCEPT !.was = <<l.was[4] + 1>>])
                ELSE Goto(t, "freed", l)
             /\ UNCHANGED memory_fault
  /\ UNCHANGED <<pageVars, pool, current, held, failed, memory_hit>>

TotalKept(total) == total

\* total_free -= slab->color_count
Remaining(total) == total - Colors

Unlink(t) ==
  /\ At(t, "unlink")
  /\ LET l == loc[t]
     IN IF ~Linked(l) THEN Dangles /\ UNCHANGED <<pool, total_free>>
        ELSE /\ pool' = [pool EXCEPT ![l.cache] = RemoveFirst(@, l.page)]
             /\ total_free' = [total_free EXCEPT ![l.cache] = Remaining(l.was[1])]
             /\ IF l.cache = "small" THEN Goto(t, "clean", l)
                ELSE Goto(t, "kfree", [l EXCEPT !.cache = "small", !.then = "map", !.big = l.page,
                                                !.address = slab[l.page].map_at,
                                                !.at = slab[l.page].at])
             /\ UNCHANGED memory_fault
  /\ UNCHANGED <<pageVars, slab, total_using, current, held, failed, memory_hit>>

KfreeReturns(t) ==
  /\ At(t, "freed")
  /\ IF loc[t].then = "map"
     THEN Goto(t, "clean", [loc[t] EXCEPT !.then = "user", !.cache = "big",
                                          !.page = loc[t].big])
     ELSE Goto(t, "run", Unused)
  /\ UNCHANGED <<pageVars, cacheVars, current, held, memory_fault, failed, memory_hit>>
-----------------------------------------------------------------------------
\* slab_init gives each cache one slab, whose page alloc_pages never gives out.  Of
\* each, Start_Kernel has taken an object for good before there are tasks.
Booted == [using_count |-> 1, free_count |-> Colors - 1, color_map |-> {0},
           at |-> NoAddress, map_at |-> NoAddress]

MemoryInit ==
  /\ bits_map = {} /\ page_free_count = Cardinality(Pages)
  /\ pool = [c \in Caches |-> <<PoolPage[c]>>]
  /\ slab = [p \in AllPages |-> IF p \in Pages THEN NewSlab ELSE Booted]
  /\ total_free = [c \in Caches |-> Colors - 1] /\ total_using = [c \in Caches |-> 1]
  /\ current \in Callers
  /\ memory_pc = [t \in Callers |-> "run"] /\ loc = [t \in Callers |-> Unused]
  /\ held = {}
  /\ memory_fault = "none" /\ failed = {} /\ memory_hit = {}

\* Preempted here, a task is where it would be if preempted before its call, or
\* behind it: what it does next touches nothing that others do.
Local(t) ==
  \/ memory_pc[t] \in {"choose", "kfree"} /\ loc[t].then = "user"
  \/ memory_pc[t] \in {"got", "freed"}

\* ret_from_intr and schedule: another task goes on.
Preempt(t) ==
  /\ MemoryAlive /\ t # current /\ ~Local(current)
  /\ current' = t
  /\ memory_pc[current] \in Windows => memory_pc[current] \notin memory_hit /\ Cardinality(memory_hit) < MaxWindows
  /\ memory_hit' = memory_hit \cup ({memory_pc[current]} \cap Windows)
  /\ UNCHANGED <<pageVars, cacheVars, memory_pc, loc, held, memory_fault, failed>>

Call(t) ==
  \/ \E c \in Caches : Kmalloc(t, c)
  \/ \E a \in held : Kfree(t, a)

Step(t) ==
  \/ Choose(t) \/ FindPage(t) \/ MarkPage(t) \/ Link(t)
  \/ Test(t) \/ Set(t) \/ Count(t) \/ Got(t) \/ GotStruct(t) \/ GotMap(t)
  \/ FindSlab(t) \/ Flip(t) \/ Uncount(t) \/ Unlink(t)
  \/ LoadBits(t) \/ FreePage(t) \/ KfreeReturns(t)

Stopped == ~MemoryAlive /\ UNCHANGED memoryVars

MemoryNext == (\E t \in Callers : Call(t) \/ Step(t) \/ Preempt(t)) \/ Stopped

MemorySpec == MemoryInit /\ [][MemoryNext]_memoryVars
-----------------------------------------------------------------------------
(* Properties *)

\* Every variable keeps the type its C declaration and its use give it.
MemoryTypeOK ==
  /\ bits_map \subseteq Pages /\ page_free_count \in Int
  /\ pool \in [Caches -> Seq(AllPages)]
  /\ \A p \in AllPages :
       /\ slab[p].color_map \subseteq Indices
       /\ slab[p].using_count \in Int /\ slab[p].free_count \in Int
       /\ {slab[p].at, slab[p].map_at} \subseteq Addresses \cup {NoAddress}
  /\ {total_free, total_using} \subseteq [Caches -> Int]
  /\ current \in Callers
  /\ memory_pc \in [Callers -> PCs]
  /\ held \subseteq Addresses
  /\ memory_fault \in {"none", "null_deref", "use_after_free", "given_twice", "page_shared"}
  /\ failed \subseteq Messages /\ memory_hit \subseteq Windows

\* No task is between a look and what it does for it.
Settled == \A t \in Callers : memory_pc[t] \notin Windows

\* The four counters of a cache and its slabs and the page count of the zone, by which
\* kmalloc and kfree decide, say what the maps say, also while others are in the middle
\* of the nested calls of kmalloc_create and kfree, as long as nobody has been
\* preempted in one of Windows.
Objects(c) == Slabs(c) \X Indices
Taken(c) == {o \in Objects(c) : o[2] \in slab[o[1]].color_map}
CountersMatch ==
  MemoryAlive /\ Settled /\ memory_hit = {} =>
    /\ \A p \in InSlabs : /\ slab[p].using_count = Cardinality(slab[p].color_map)
                          /\ slab[p].free_count = Colors - slab[p].using_count
    /\ \A c \in Caches :
         /\ total_using[c] = Cardinality(Taken(c))
         /\ total_free[c] = Cardinality(Objects(c) \ Taken(c))
    /\ page_free_count = Cardinality(Pages \ bits_map)

\* The counters of the allocator are in order.
AccountsMatch == MemoryTypeOK /\ CountersMatch

\* What a call that is under way has in its hands.
InHand == UNION {{loc[t].address, loc[t].at} : t \in Callers}
PagesInHand == UNION {{loc[t].page, loc[t].big} : t \in Callers}
\* The objects in which big slabs have their struct and map.
Parts ==
  LET linking == {loc[t].page : t \in {u \in Callers : memory_pc[u] = "link" /\ loc[u].cache = "big"}}
  IN UNION {{slab[p].at, slab[p].map_at} : p \in Slabs("big") \cup linking}
Permanent == {<<PoolPage[c], 0>> : c \in Caches}

\* Where a preemption makes an object or a page belong to two, or to nobody, although
\* its address was given once.
LosesBits == LosesCounts \cup {"set", "flip", "unlink", "mark", "release"}

\* Every object that is in use has one owner and its place: what tasks hold lies in a
\* slab of a cache, on a page in use, and is no slab's struct or map; and no object and
\* no page is in use that nobody has, so nothing leaks.  It takes a preemption in one
\* of LosesBits; one before the color is looked for (memory.c:470), or while a slab is
\* added (memory.c:463-467), does not suffice.
ObjectsOwned ==
  MemoryAlive /\ memory_hit \cap LosesBits = {} =>
    /\ \A a \in held :
         /\ a[1] \in InSlabs /\ a[2] \in slab[a[1]].color_map
         /\ a \notin Parts \cup Permanent
    /\ InSlabs \cap Pages \subseteq bits_map
    /\ bits_map \subseteq InSlabs \cup PagesInHand
    /\ \A p \in InSlabs : \A j \in slab[p].color_map :
         <<p, j>> \in held \cup Parts \cup Permanent \cup InHand

\* kmalloc gives nothing twice, alloc_pages gives no page that a slab has, nobody uses a
\* slab that has been freed, kmalloc fails for want of a page only and only then does
\* kmalloc_create write through NULL (memory.c:565-574), and kfree finds every address:
\* unless a task has been preempted in a window, for each fault the ones named.
FaultsByWindow ==
  /\ memory_fault = "given_twice" => memory_hit \cap LosesBits # {}
  /\ memory_fault = "use_after_free" => memory_hit \cap (LosesBits \cup {"test"}) # {}
  /\ memory_fault = "page_shared" => memory_hit \cap {"mark", "release"} # {}
  /\ memory_fault = "null_deref" => "no page" \in failed \/ memory_hit # {}
  /\ "no memory" \in failed => memory_hit # {}
  /\ "cannot free" \in failed => memory_hit \cap LosesBits # {}

\* Of one preemption in a window: an object is given twice, or a slab used that has been
\* freed, only when a map or a counter of objects is stored late, and a page is not enough;
\* kmalloc fails for want of a page unless objects or totals are counted wrong.
FaultsByOneWindow ==
  LET objects == LosesCounts \cup {"set", "unlink"}
      totals == objects \cup {"test", "flip", "link"}
  IN Cardinality(memory_hit) < 2 =>
       /\ memory_fault = "given_twice" => memory_hit \cap (objects \cup {"flip"}) # {}
       /\ memory_fault = "use_after_free" => memory_hit \cap (objects \cup {"test"}) # {}
       /\ memory_fault = "null_deref" => "no page" \in failed \/ memory_hit \cap totals # {}
       /\ "no memory" \in failed => memory_hit \cap totals # {}
       /\ "cannot free" \in failed => memory_hit \cap (LosesCounts \cup {"unlink"}) # {}
=============================================================================
