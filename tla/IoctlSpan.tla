------------------------------ MODULE IoctlSpan ------------------------------
(***************************************************************************)
(* Which bytes one ioctl transfers: the offset and the length pciemu_ioctl *)
(* computes from the address it is given (pciemu_module.c:52-56), against  *)
(* the bytes of the int there that lie in the one page it pins.            *)
(***************************************************************************)
EXTENDS Integers

CONSTANTS
  PAGE_SIZE, INT_SIZE,   (* in bytes: 4096 and sizeof(int)                 *)
  Addrs                  (* the addresses programs pass to the ioctls      *)

ASSUME SpanAssumption ==
  /\ PAGE_SIZE \in Nat \ {0} /\ INT_SIZE \in Nat \ {0}
  /\ INT_SIZE <= PAGE_SIZE
  /\ Addrs \subseteq Nat

(* vaddr & ~PAGE_MASK *)
SpanOfs(vaddr) == vaddr % PAGE_SIZE

(* A bug this code could have: a transfer always goes on to the page's end. *)
LenToPageEnd(vaddr) == PAGE_SIZE - SpanOfs(vaddr)

SpanLen(vaddr) ==
  IF SpanOfs(vaddr) + INT_SIZE > PAGE_SIZE THEN PAGE_SIZE - SpanOfs(vaddr) ELSE INT_SIZE

PageOf(vaddr) == vaddr \div PAGE_SIZE

(* The bytes the engine is told to transfer: those of the pinned page from *)
(* the offset on.                                                          *)
SpanBytes(vaddr) ==
  LET start == PageOf(vaddr) * PAGE_SIZE + SpanOfs(vaddr)
  IN  start .. start + SpanLen(vaddr) - 1

SpanIsExact(vaddr) ==
  /\ SpanBytes(vaddr) = {b \in vaddr .. vaddr + INT_SIZE - 1 : PageOf(b) = PageOf(vaddr)}
  /\ PAGE_SIZE % INT_SIZE = 0 /\ vaddr % INT_SIZE = 0 => SpanLen(vaddr) = INT_SIZE

(* Of the int at any address, an ioctl transfers exactly the bytes that    *)
(* lie in the page it pins, never one of the next page, and the whole int  *)
(* where the compiler aligns it (pciemu_module.c:52-56).                   *)
SpansExact == \A vaddr \in Addrs : SpanIsExact(vaddr)
=============================================================================
