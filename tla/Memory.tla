------------------------------- MODULE Memory -------------------------------
(***************************************************************************)
(* The paged memory of the virtual machine (src/pvm.rs, Memory): which     *)
(* pages are mapped, which are writable, and where the heap ends.          *)
(*                                                                         *)
(* A memory is [pages, heap_top, heap_max]: pages maps a page to whether   *)
(* it is writable.  The bytes themselves are left out.                     *)
(***************************************************************************)
EXTENDS Integers, FiniteSetsExt

CONSTANTS
  PageSize,   \* bytes of a page (4096)
  ZoneSize,   \* bytes of a zone, the lowest of which nobody may access (2^16)
  InputSize,  \* bytes set aside for the arguments (2^24)
  AddrSpace,  \* bytes of the address space (2^32)
  HalfWord    \* half the values of a register (2^63)

\* A register is a u64.
Word == 2 * HalfWord

PageOf(addr) == addr \div PageSize
CeilTo(unit, x) == unit * ((x + unit - 1) \div unit)

\* Bug: the last page counts only if it is full.
MapFullPages(mem, address, length, writable) ==
  LET new == PageOf(address)..(PageOf(address + length) - 1)
  IN  [mem EXCEPT !.pages = [p \in DOMAIN @ \cup new |->
                               IF p \in DOMAIN @ THEN @[p] ELSE writable]]

\* map: a page that is there already keeps its permission.
Map(mem, address, length, writable) ==
  LET new == PageOf(address)..(PageOf(address + length + PageSize - 1) - 1)
  IN  [mem EXCEPT !.pages = [p \in DOMAIN @ \cup new |->
                               IF p \in DOMAIN @ THEN @[p] ELSE writable]]

\* sbrk: a growth past the end of the zone, or of u32, is refused.
Sbrk(mem, size) ==
  LET new == mem.heap_top + size
  IN  IF size = 0 \/ new >= AddrSpace \/ new > mem.heap_max
      THEN mem
      ELSE [Map(mem, mem.heap_top, size, TRUE) EXCEPT !.heap_top = new]

Readable(mem, addr) == addr >= ZoneSize /\ PageOf(addr) \in DOMAIN mem.pages
Writable(mem, addr) == Readable(mem, addr) /\ mem.pages[PageOf(addr)]

Accessible(mem, addr, write) ==
  IF write THEN Writable(mem, addr) ELSE Readable(mem, addr)

\* Bug: a range that takes all the pages there are is refused for its length.
RangeOkShort(mem, address, len, write) ==
  \/ len = 0
  \/ LET first == PageOf(address)
         last == PageOf((address + len - 1) % Word)
     IN  /\ (last - first + 1) % Word < Cardinality(DOMAIN mem.pages)
         /\ \A p \in first..last : Accessible(mem, p * PageSize, write)

\* range_ok: page by page, for the host calls; sums and differences are of u64.
RangeOk(mem, address, len, write) ==
  \/ len = 0
  \/ LET first == PageOf(address)
         last == PageOf((address + len - 1) % Word)
     IN  /\ (last - first + 1) % Word <= Cardinality(DOMAIN mem.pages)
         /\ \A p \in first..last : Accessible(mem, p * PageSize, write)

\* check: byte by byte, for the instructions; addresses wrap.
Check(mem, address, len, write) ==
  LET bad == {x \in {(address + k) % AddrSpace : k \in 0..(len - 1)} :
                ~Accessible(mem, x, write)}
  IN  IF bad = {} THEN "Ok"
      ELSE IF Min(bad) < ZoneSize \/ PageOf(Min(bad)) \in DOMAIN mem.pages
           THEN "Panic"
           ELSE "PageFault"

\* spi: read-only data, read-write data and z heap pages, a stack of s bytes
\* and the arguments, each in a zone of its own.
HeapBase(olen) == 2 * ZoneSize + CeilTo(ZoneSize, olen)

Spi(olen, wlen, z, s, args) ==
  LET wbase == HeapBase(olen)
      rw == CeilTo(PageSize, wlen) + z * PageSize
      stackTop == AddrSpace - 2 * ZoneSize - InputSize
      none == [pages |-> [p \in {} |-> FALSE],
               heap_top |-> wbase + rw,
               heap_max |-> wbase + CeilTo(ZoneSize, wlen + z * PageSize)]
      ro == Map(none, ZoneSize, CeilTo(PageSize, olen), FALSE)
      data == Map(ro, wbase, rw, TRUE)
      stack == Map(data, stackTop - CeilTo(PageSize, s), CeilTo(PageSize, s), TRUE)
  IN  Map(stack, AddrSpace - ZoneSize - InputSize, CeilTo(PageSize, args), FALSE)
=============================================================================
