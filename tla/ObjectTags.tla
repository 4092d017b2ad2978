----------------------------- MODULE ObjectTags -----------------------------
(***************************************************************************)
(* ProvideObjectManager (heaplayers/experimental/objectmanager.h): every   *)
(* object has a header with its size and the size of the object before it, *)
(* each with a bit that says that the object is free.  The heap below is   *)
(* external: it cuts objects one after another from zeroed memory, gives   *)
(* freed ones out again for the same size, and leaves their headers alone, *)
(* since malloc reads there.                                               *)
(***************************************************************************)
EXTENDS Layer

CONSTANTS
  TagSizes,
  TagSpace         \* bytes that the heap below has

TagBase  == 1000
Overhead == 16     \* sizeof(AllocatedObject)

(* AllocatedObject; memory that nobody wrote to reads as zeros.            *)
Header(prevSize, prevFree, sz, isFree) ==
  [prevSize |-> prevSize, prevFree |-> prevFree, sz |-> sz, free |-> isFree]
Zeros == Header(0, FALSE, 0, FALSE)

Init ==
  /\ heap = [top |-> TagBase, freed |-> {}, tag |-> [a \in {} |-> Zeros]]
  /\ live = {} /\ calls = 0

(* The headers are at these addresses; objects follow them.                *)
getObject(ptr) == ptr - Overhead
TagAt(h, a)    == At(h.tag, a, Zeros)
Written(h, a, tag) == [h EXCEPT !.tag = (a :> tag) @@ @]

getSize(h, ptr)     == TagAt(h, getObject(ptr)).sz
getPrevSize(h, ptr) == TagAt(h, getObject(ptr)).prevSize
getNext(h, ptr)     == ptr + getSize(h, ptr) + Overhead
getPrev(h, ptr)     == getObject(ptr) - getPrevSize(h, ptr)

(* setPrevSize, which clears the bit, markPrevFree and markPrevInUse.      *)
setPrevSize(h, a, sz) == Written(h, a, [TagAt(h, a) EXCEPT !.prevSize = sz, !.prevFree = FALSE])
markPrev(h, a, f)     == Written(h, a, [TagAt(h, a) EXCEPT !.prevFree = f])

(* The constructor tells the next header about the new object's size.      *)
makeObject(h, buf, prevSize, sz) ==
  setPrevSize(Written(h, buf, Header(prevSize, FALSE, sz, FALSE)), buf + Overhead + sz, sz)

(* markFree and markInUse: the object's bit, and the next header's.        *)
marked(h, ptr, f) ==
  markPrev(Written(h, getObject(ptr), [TagAt(h, getObject(ptr)) EXCEPT !.free = f]),
           getObject(getNext(h, ptr)), f)

(* What the heap below may give, and its state then.                       *)
Below(sz) ==
  LET old == {a \in heap.freed : TagAt(heap, a).sz = sz} IN
  IF old # {} THEN {[buf |-> a, heap |-> [heap EXCEPT !.freed = @ \ {a}]] : a \in old}
  ELSE IF heap.top + sz + Overhead <= TagBase + TagSpace
       THEN {[buf |-> heap.top, heap |-> [heap EXCEPT !.top = @ + sz + Overhead]]}
       ELSE {[buf |-> Null, heap |-> heap]}

malloc(sz) ==
  /\ Call
  /\ \E m \in Below(sz) :
       LET p == m.buf + Overhead IN
       IF m.buf = Null THEN heap' = m.heap /\ Gives(Null, sz)
       ELSE /\ heap' = marked(makeObject(m.heap, m.buf, getPrevSize(m.heap, p), sz), p, FALSE)
            /\ Gives(p, sz)

free(o) ==
  /\ heap' = [marked(heap, o.ptr, TRUE) EXCEPT !.freed = @ \cup {getObject(o.ptr)}]
  /\ Takes(o) /\ UNCHANGED calls

Next == (\E sz \in TagSizes : malloc(sz)) \/ \E o \in live : free(o)

Spec == Init /\ [][Next]_vars

-----------------------------------------------------------------------------
(* free asserts that the next header agrees with the object's size; what a *)
(* user of the headers needs is more: from every object, in use or free,   *)
(* getNext and getPrev lead to the neighbours and back, its free bit is    *)
(* right, and a header that says that the object before it is free is      *)
(* right.  (The opposite is lost: malloc after a free neighbour drops the  *)
(* bit, since getPrevSize masks it.)                                       *)
TagsAgree ==
  /\ Apart({[ptr |-> getObject(o.ptr), size |-> o.size + Overhead] : o \in live})
  /\ \A p \in {o.ptr : o \in live} \cup {a + Overhead : a \in heap.freed} :
       LET next == getNext(heap, p) IN
       /\ getPrev(heap, next) = p
       /\ getPrevSize(heap, next) = getSize(heap, p)
       /\ TagAt(heap, getObject(p)).free = (getObject(p) \in heap.freed)
       /\ TagAt(heap, getObject(next)).prevFree => TagAt(heap, getObject(p)).free
       /\ getObject(next) = heap.top \/ getObject(next) \in DOMAIN heap.tag
  /\ \A o \in live : getSize(heap, o.ptr) = o.size
=============================================================================
