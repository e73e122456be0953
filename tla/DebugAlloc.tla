----------------------------- MODULE DebugAlloc -----------------------------
(***************************************************************************)
(* The allocation tracker, src/linux-coding-c/debug_alloc.h: malloc, free, *)
(* calloc and realloc of a program are replaced by functions that keep a   *)
(* list of the blocks of each thread, and a report at the exit goes through*)
(* the lists that were registered.  The entry of a freed block stays in    *)
(* its list, and its address is given out again.                           *)
(***************************************************************************)
EXTENDS Integers, FiniteSets, SequencesExt

CONSTANTS
    Threads, Main,   \* Main runs the constructor
    Addresses,       \* what the C library's malloc returns
    None,            \* the owner of a free address
    MaxBlocks        \* bound: blocks allocated

VARIABLES
    list,        \* thread_alloc_list, [block, ptr, freed], the newest first
    owner,       \* owner[p] is the thread that got the block at p, or None
    block,       \* block[p] is the number of that block
    damaged,     \* blocks whose red zones were written
    records,     \* global_thread_list: the lists registered, the newest first
    blocks,      \* the number of blocks allocated
    warned,      \* blocks reported as damaged
    reported,    \* blocks reported as leaked
    clean,       \* every thread freed only its own live blocks, and there was
                 \* memory for every entry
    pc           \* "run", "aborted" or "exited"

vars == <<list, owner, block, damaged, records, blocks, warned, reported, clean, pc>>

Live(t) == {p \in Addresses : owner[p] = t}

\* The constructor registers the list of the main thread, which is still
\* empty: a NULL pointer, that stays one in the record.
Init ==
    /\ list = [t \in Threads |-> <<>>]
    /\ owner = [p \in Addresses |-> None] /\ block = [p \in Addresses |-> 0]
    /\ damaged = {} /\ records = <<[thread |-> Main, list |-> <<>>]>>
    /\ blocks = 0 /\ warned = {} /\ reported = <<>>
    /\ clean = TRUE /\ pc = "run"

Running == pc = "run"

\* mutant: the new entry at the end of the list
AddAllocLast(entries, b, p) == Append(entries, [block |-> b, ptr |-> p, freed |-> FALSE])

\* add_alloc.
AddAlloc(entries, b, p) == <<[block |-> b, ptr |-> p, freed |-> FALSE]>> \o entries

\* find_alloc_info: the first entry of the address, or 0.
Find(entries, p) == SelectInSeq(entries, LAMBDA e : e.ptr = p)

\* The list of thread t with an entry for its next block, at address p; none
\* is made if there is no memory for it.
Listing(t, p) == {AddAlloc(list[t], blocks + 1, p), list[t]}

Allocate(p) ==
    /\ owner[p] = None
    /\ blocks < MaxBlocks /\ blocks' = blocks + 1
    /\ block' = [block EXCEPT ![p] = blocks + 1]

\* debug_malloc_impl, debug_calloc_impl, and realloc of NULL or of a block
\* without an entry.
Malloc(t) ==
    /\ Running
    /\ \E p \in Addresses : \E l \in Listing(t, p) :
          /\ Allocate(p)
          /\ owner' = [owner EXCEPT ![p] = t]
          /\ list' = [list EXCEPT ![t] = l]
          /\ clean' = (clean /\ l # list[t])
    /\ UNCHANGED <<damaged, records, warned, reported, pc>>

\* What is freed with entry n of l: the red zones are looked at.
Freed(l, n) == [l EXCEPT ![n].freed = TRUE]
Warn(b) == warned' = IF b \in damaged THEN warned \cup {b} ELSE warned

\* debug_free_impl, and realloc to no bytes, of a block of t, of another
\* thread, or one that was freed before.
Free(t) ==
    /\ Running
    /\ \E p \in Addresses :
          LET n == Find(list[t], p)
          IN  /\ clean' = (clean /\ p \in Live(t))
              /\ IF n = 0 \/ list[t][n].freed
                 THEN pc' = "aborted" /\ UNCHANGED <<list, owner, warned>>
                 ELSE /\ list' = [list EXCEPT ![t] = Freed(@, n)]
                      /\ owner' = [owner EXCEPT ![p] = None]
                      /\ Warn(block[p])
                      /\ UNCHANGED pc
    /\ UNCHANGED <<block, damaged, records, blocks, reported>>

\* debug_realloc_impl of a block with an entry, freed or not: a new block, the
\* data copied, the old one freed.
Realloc(t) ==
    /\ Running
    /\ \E p, q \in Addresses : \E l \in Listing(t, q) :
          /\ Find(list[t], p) # 0
          /\ Allocate(q)
          /\ clean' = (clean /\ p \in Live(t) /\ l # list[t])
          /\ IF l[Find(l, p)].freed
             THEN /\ pc' = "aborted"
                  /\ owner' = [owner EXCEPT ![q] = t]
                  /\ list' = [list EXCEPT ![t] = l]
                  /\ UNCHANGED warned
             ELSE /\ list' = [list EXCEPT ![t] = Freed(l, Find(l, p))]
                  /\ owner' = [owner EXCEPT ![q] = t, ![p] = None]
                  /\ Warn(block'[p])
                  /\ UNCHANGED pc
    /\ UNCHANGED <<damaged, records, reported>>

\* The program writes beyond a block, on one side or the other.
Overrun ==
    /\ Running
    /\ \E p \in Addresses : owner[p] # None /\ damaged' = damaged \cup {block[p]}
    /\ UNCHANGED <<list, owner, block, records, blocks, warned, reported, clean, pc>>

\* The blocks of a list that were not freed.
Leaks(entries) ==
    LET From[n \in 0 .. Len(entries)] ==
            IF n = 0 THEN <<>>
            ELSE IF entries[n].freed THEN From[n - 1]
            ELSE Append(From[n - 1], entries[n].block)
    IN  From[Len(entries)]

\* report_leaks, of the thread that exits: it registers its own list and goes
\* through all that are registered.
Exit(t) ==
    /\ Running
    /\ pc' = "exited"
    /\ records' = <<>>
    /\ reported' = Leaks(list[t] \o FlattenSeq([i \in DOMAIN records |-> records[i].list]))
    /\ UNCHANGED <<list, owner, block, damaged, blocks, warned, clean>>

Next == Overrun \/ \E t \in Threads : Malloc(t) \/ Free(t) \/ Realloc(t) \/ Exit(t)

Spec == Init /\ [][Next]_vars

-----------------------------------------------------------------------------
\* A program whose threads free only their own blocks, once, is never aborted,
\* however often an address comes back; each damaged block that was freed was
\* reported, and at the exit exactly the live blocks of the exiting thread
\* are, each once (debug_alloc.h:117-127, 144-188).
TrackerIsRight ==
    clean =>
        /\ pc # "aborted"
        /\ pc = "exited" => \E t \in Threads :
              /\ ToSet(reported) = {block[p] : p \in Live(t)}
              /\ Len(reported) = Cardinality(Live(t))
        /\ warned = {b \in damaged : \A p \in Addresses : owner[p] # None => block[p] # b}
=============================================================================
