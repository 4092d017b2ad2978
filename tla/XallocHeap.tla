----------------------------- MODULE XallocHeap -----------------------------
(***************************************************************************)
(* XallocHeap (heaplayers/xallocHeap.h): a stack of blocks in one arena.   *)
(* The word before a block holds the size of the block before it and a bit *)
(* that says whether this one is in use; memory comes back when the last   *)
(* block is freed.                                                         *)
(***************************************************************************)
EXTENDS Layer

CONSTANTS XallocSizes, XallocArena

Nuggie == 8                   \* sizeof(Nuggie)
ArenaBase == 1000             \* start_of_array

(* heap.word[x] is the word before x: [size, used].                        *)
Init ==
  LET first == ArenaBase + Align(Nuggie) IN
  /\ heap = [end_of_array |-> first, last_block |-> Null, word |-> (first :> [size |-> 0, used |-> FALSE])]
  /\ live = {} /\ calls = 0

prev_block(x) == x - heap.word[x].size
in_use(x)     == heap.word[x].used

(* end_of_array moves on even when there is no room; the new end's word    *)
(* may lie past the arena.                                                 *)
malloc(size) ==
  LET old == heap.end_of_array
      end == old + Align(size + Nuggie)
      full == old + size >= ArenaBase + XallocArena
  IN  /\ Call
      /\ heap' = IF full THEN [heap EXCEPT !.end_of_array = end]
                 ELSE [end_of_array |-> end, last_block |-> old,
                       word |-> (end :> [size |-> end - old, used |-> FALSE])
                                  @@ [heap.word EXCEPT ![old].used = TRUE]]
      /\ Gives(IF full THEN Null ELSE old, size)

(* Where the walk back from p, a block that is not in use, ends: the block *)
(* where the free memory begins and the last block in use before it.       *)
RECURSIVE LastInUse(_)
LastInUse(p) ==
  LET q == prev_block(p) IN
  IF q = p THEN [end |-> p, last |-> Null]
  ELSE IF in_use(q) THEN [end |-> p, last |-> q] ELSE LastInUse(q)

free(o) ==
  LET word == [heap.word EXCEPT ![o.ptr].used = FALSE]
      w    == LastInUse(o.ptr)
  IN  /\ heap' = IF o.ptr = heap.last_block
                 THEN [end_of_array |-> w.end, last_block |-> w.last,
                       word |-> [x \in {y \in DOMAIN word : y <= w.end} |-> word[x]]]
                 ELSE [heap EXCEPT !.word = word]
      /\ Takes(o) /\ UNCHANGED calls

Next == \/ \E sz \in XallocSizes : malloc(sz)
        \/ \E o \in live : free(o)

Spec == Init /\ [][Next]_vars

-----------------------------------------------------------------------------
(* The blocks in use are the callers', apart and in the arena with room    *)
(* for the words between them; last_block is the highest of them and the   *)
(* words lead from it to the first block.                                  *)
XallocIsStack ==
  /\ Apart({[o EXCEPT !.size = @ + Nuggie] : o \in live}) /\ Within(live, ArenaBase, ArenaBase + XallocArena)
  /\ {x \in DOMAIN heap.word : heap.word[x].used} = {o.ptr : o \in live}
  /\ IF live = {} THEN heap.last_block = Null
     ELSE heap.last_block \in {o.ptr : o \in live} /\ \A o \in live : o.ptr <= heap.last_block
  /\ \A x \in DOMAIN heap.word : prev_block(x) \in DOMAIN heap.word
=============================================================================
