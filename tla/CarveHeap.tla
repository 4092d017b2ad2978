----------------------------- MODULE CarveHeap ------------------------------
(***************************************************************************)
(* ChunkHeap (heaplayers/chunkheap.h) and SlopHeap (slopheap.h), which cut *)
(* objects from pieces of memory of the heap below, under a SizeHeap       *)
(* (sizeheap.h), which stores an object's size before it.  The heap below  *)
(* is external: its next piece may follow the last one or not, or there is *)
(* none.  heap.got is the memory that it gave.                             *)
(***************************************************************************)
EXTENDS Layer, Sequences

CONSTANTS
  CarveSizes,
  CarveChunk,      \* ChunkSize
  Slop,            \* SLOP
  CarveSpace

SizeWord  == 8          \* sizeof(freeObject) of SizeHeap
CarveBase == 1000

(* ChunkHeap: buffer and eob; SlopHeap: ptr and remaining.                 *)
Init ==
  /\ \E kind \in {"chunk", "slop"} :
       heap = [kind |-> kind, buffer |-> Null, eob |-> Null, ptr |-> Null, remaining |-> 0,
               top |-> CarveBase, got |-> {}]
  /\ live = {} /\ calls = 0

(* The addresses where the heap below may give sz bytes.                   *)
PieceAt(sz) == {a \in {heap.top, heap.top + Word} : a + sz <= CarveBase + CarveSpace} \cup {Null}
Got(buf, sz) == [heap EXCEPT !.top = buf + sz, !.got = @ \cup (buf .. buf + sz - 1)]

Gave(ptr, h) == [ptr |-> ptr, heap |-> h]

(* ChunkHeap                                                               *)
chunkMore(sz) ==
  LET req == (((sz - 1) \div CarveChunk) + 1) * CarveChunk IN
  {IF buf = Null THEN Gave(Null, heap)
   ELSE LET b == IF heap.eob # buf THEN buf ELSE heap.buffer
            n == IF heap.eob # buf THEN req ELSE req + (heap.eob - heap.buffer)
        IN  Gave(b, [Got(buf, req) EXCEPT !.buffer = b + sz, !.eob = b + n]) : buf \in PieceAt(req)}

chunkMalloc(sz) ==
  IF heap.buffer + sz <= heap.eob THEN {Gave(heap.buffer, [heap EXCEPT !.buffer = @ + sz])}
  ELSE chunkMore(sz)

(* SlopHeap                                                                *)
slopMore(sz) ==
  {IF new = Null THEN Gave(Null, heap)
   ELSE LET follows == heap.ptr # Null /\ heap.ptr + heap.remaining + Slop = new
            p       == IF follows THEN heap.ptr ELSE new
        IN  Gave(p, [Got(new, sz + Slop) EXCEPT !.ptr = p + sz,
                                                !.remaining = IF follows THEN @ + Slop ELSE 0]) :
     new \in PieceAt(sz + Slop)}

slopMalloc(sz) ==
  IF sz <= heap.remaining
  THEN {Gave(heap.ptr, [heap EXCEPT !.ptr = @ + sz, !.remaining = @ - sz])}
  ELSE slopMore(sz)

(* SizeHeap::malloc; without memory it would write to NULL, so that its    *)
(* callers need a heap below that throws or stops then.                    *)
malloc(sz) ==
  /\ Call
  /\ \E m \in IF heap.kind = "chunk" THEN chunkMalloc(sz + SizeWord) ELSE slopMalloc(sz + SizeWord) :
       /\ heap' = m.heap
       /\ Gives(IF m.ptr = Null THEN Null ELSE m.ptr + SizeWord, sz)

(* Both heaps' clear, when their callers are done with everything.         *)
clear ==
  /\ Call /\ live' = {}
  /\ heap' = IF heap.kind = "chunk" THEN [heap EXCEPT !.buffer = Null, !.eob = Null]
             ELSE [heap EXCEPT !.ptr = Null, !.remaining = 0]

Next == clear \/ \E sz \in CarveSizes : malloc(sz)

Spec == Init /\ [][Next]_vars

-----------------------------------------------------------------------------
(* Objects and their size words lie apart, in memory that came from below, *)
(* and so does what is left to cut from; SlopHeap has the slop that its    *)
(* users may look at behind its last object.                               *)
CarvedIsGot ==
  /\ Apart({[ptr |-> o.ptr - SizeWord, size |-> o.size + SizeWord] : o \in live})
  /\ \A o \in live : o.ptr - SizeWord .. o.ptr + o.size - 1 \subseteq heap.got
  /\ heap.buffer # Null => heap.buffer .. heap.eob - 1 \subseteq heap.got
  /\ heap.ptr # Null => heap.ptr .. heap.ptr + heap.remaining + Slop - 1 \subseteq heap.got
  /\ \A o \in live : o.ptr + o.size <= IF heap.kind = "chunk" THEN heap.top ELSE heap.top - Slop
=============================================================================
