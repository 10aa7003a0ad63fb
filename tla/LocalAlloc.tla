----------------------------- MODULE LocalAlloc -----------------------------
(***************************************************************************)
(* The thread-local arena of src/io2/src/local_alloc.rs: LocalAlloc's      *)
(* allocate (first fit over pages and their free-range lists, splitting a  *)
(* range when alignment leaves a gap) and deallocate (coalescing the freed *)
(* block with a free range that ends where it starts or starts where it    *)
(* ends).  Addresses are offsets inside a page; a page's base is aligned   *)
(* to every alignment used, so alignment is a property of the offset.      *)
(* The callers are the containers of the executor, which only free blocks  *)
(* they were given (the Allocator contract).                               *)
(***************************************************************************)
EXTENDS Naturals, Sequences, SequencesExt

CONSTANTS
  ALIGN,      \* the page granularity of allocate (local_alloc.rs:127-128)
  Sizes,      \* layout.size() of the requests
  Aligns,     \* layout.align() of the requests
  MaxPages,   \* bound on pages mapped
  MaxRanges   \* bound on the length of a page's free list

ASSUME ALIGN \in Nat \ {0}
ASSUME Sizes \subseteq Nat \ {0} /\ Aligns \subseteq 1..ALIGN
ASSUME \A a \in Aligns : ALIGN % a = 0

VARIABLES
  pages,  \* sequence of pages, each the sequence of its FreeRange records
  psize,  \* page -> page.layout.size()
  live    \* blocks handed out and not yet deallocated

vars == <<pages, psize, live>>

Block(p, o, n, a) == [page |-> p, start |-> o, size |-> n, align |-> a]
Bytes(o, n) == o..(o + n - 1)

\* usize::next_multiple_of
NextMultipleOf(x, a) == ((x + a - 1) \div a) * a

\* allocate, local_alloc.rs:92-96: where a request would start in range r,
\* and whether it fits before the range's end.
\* Mutation: the start is not rounded up to the alignment.
AllocStartUnaligned(r, a) == r.start

AllocStart(r, a) == NextMultipleOf(r.start, a)

\* Mutation: the fit test forgets the alignment padding.
FitsWithoutPadding(r, n, a) == r.start + n <= r.start + r.len

Fits(r, n, a) == AllocStart(r, a) + n <= r.start + r.len

\* local_alloc.rs:91-101: index of the first fitting range of a free list.
FirstFit(fl, n, a) == SelectInSeq(fl, LAMBDA r : Fits(r, n, a))

\* local_alloc.rs:103-116: take the block at o out of range i; a gap left
\* by alignment stays as the shortened range, the rest is pushed as a new
\* range at the end of the list.
Carve(fl, i, o, n) ==
  LET r == fl[i] IN
  IF o = r.start
  THEN [fl EXCEPT ![i] = [start |-> r.start + n, len |-> r.len - n]]
  ELSE Append([fl EXCEPT ![i] = [start |-> r.start, len |-> o - r.start]],
              [start |-> o + n, len |-> r.len - (o - r.start) - n])

\* LocalAlloc::allocate, local_alloc.rs:87-125, when some page has a
\* fitting range: the first such page, its first fitting range.
AllocateInPage(n, a) ==
  \E p \in DOMAIN pages :
    /\ FirstFit(pages[p], n, a) # 0
    /\ \A q \in 1..(p - 1) : FirstFit(pages[q], n, a) = 0
    /\ LET i == FirstFit(pages[p], n, a)
           o == AllocStart(pages[p][i], a)
       IN /\ Len(Carve(pages[p], i, o, n)) <= MaxRanges
          /\ pages' = [pages EXCEPT ![p] = Carve(@, i, o, n)]
          /\ live' = live \cup {Block(p, o, n, a)}
          /\ UNCHANGED psize

\* The size of the page allocate maps for a request of n bytes,
\* ALIGN.next_multiple_of(layout.size()) (local_alloc.rs:128): the least
\* multiple of n that is at least ALIGN, so n itself once n > ALIGN.
NewPageSize(n) == NextMultipleOf(ALIGN, n)

\* LocalAlloc::allocate, local_alloc.rs:127-148, when no page fits: map a
\* new page; the block takes its start and the rest is one free range.
AllocateNewPage(n, a) ==
  /\ \A q \in DOMAIN pages : FirstFit(pages[q], n, a) = 0
  /\ Len(pages) < MaxPages
  /\ pages' = Append(pages, <<[start |-> n, len |-> NewPageSize(n) - n]>>)
  /\ psize' = Append(psize, NewPageSize(n))
  /\ live' = live \cup {Block(Len(pages) + 1, 0, n, a)}

Allocate(n, a) == AllocateInPage(n, a) \/ AllocateNewPage(n, a)

\* LocalAlloc::deallocate, local_alloc.rs:161-169: every range that ends
\* where the block starts grows over it; every other range that starts
\* where the block ends is moved back by the block's size.
Coalesce(fl, o, n) ==
  [i \in DOMAIN fl |->
     IF o = fl[i].start + fl[i].len
     THEN [fl[i] EXCEPT !.len = @ + n]
     ELSE IF o + n = fl[i].start
          THEN [fl[i] EXCEPT !.start = @ - n]
          ELSE fl[i]]

Adjacent(fl, o, n) ==
  \E i \in DOMAIN fl : o = fl[i].start + fl[i].len \/ o + n = fl[i].start

\* LocalAlloc::deallocate, local_alloc.rs:152-183: coalesce, or push the
\* block as a new range when no range touched it.
Deallocate(b) ==
  LET fl  == pages[b.page]
      new == IF Adjacent(fl, b.start, b.size)
             THEN Coalesce(fl, b.start, b.size)
             ELSE Append(fl, [start |-> b.start, len |-> b.size])
  IN /\ Len(new) <= MaxRanges
     /\ pages' = [pages EXCEPT ![b.page] = new]
     /\ live' = live \ {b}
     /\ UNCHANGED psize

Init ==
  /\ pages = <<>>
  /\ psize = <<>>
  /\ live = {}

Next ==
  \/ \E n \in Sizes, a \in Aligns : Allocate(n, a)
  \/ \E b \in live : Deallocate(b)

Spec == Init /\ [][Next]_vars

-----------------------------------------------------------------------------
FreeBytes(p) == UNION {Bytes(r.start, r.len) : r \in ToSet(pages[p])}
LiveBytes(p) == UNION {Bytes(b.start, b.size) : b \in {c \in live : c.page = p}}

TypeOK ==
  /\ pages \in Seq(Seq([start : Nat, len : Nat]))
  /\ Len(pages) <= MaxPages /\ psize \in Seq(Nat) /\ Len(psize) = Len(pages)
  /\ \A p \in DOMAIN pages : Len(pages[p]) <= MaxRanges
  /\ live \subseteq [page : Nat, start : Nat, size : Sizes, align : Aligns]

\* Every block allocate hands out lies inside its page and is aligned as
\* the layout asked, whatever sequence of allocations and deallocations
\* shaped the free lists before it.
BlocksInPageAndAligned ==
  \A b \in live :
    /\ b.page \in DOMAIN pages
    /\ b.start + b.size <= psize[b.page]
    /\ b.start % b.align = 0

\* The Allocator contract: no two blocks that are live at the same time
\* share a byte.
NoOverlap ==
  \A b, c \in live :
    b # c /\ b.page = c.page => Bytes(b.start, b.size) \cap Bytes(c.start, c.size) = {}

\* No memory is lost: every byte of a mapped page is either in a live block
\* or in a free range, so deallocate gives back exactly what was taken.
NoLeak ==
  \A p \in DOMAIN pages : FreeBytes(p) \cup LiveBytes(p) = 0..(psize[p] - 1)

=============================================================================
