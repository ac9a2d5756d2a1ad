-------------------------------- MODULE Leases --------------------------------
(***************************************************************************)
(* Memory crossing address spaces: message and reply bodies, the lease      *)
(* table of a send and the borrow calls of its receiver (kernel/src/ipc.rs),*)
(* the permission walk and the page-by-page copy they rest on               *)
(* (kernel/src/paging.rs).  Bytes carry a token saying where in physical    *)
(* memory they started, so a copy shows exactly which bytes it moved.  An   *)
(* address space is built when its task is, and does not change while the   *)
(* task is in a send.                                                       *)
(***************************************************************************)
EXTENDS Integers, Sequences

CONSTANTS
  Tasks,
  PAGE_SIZE,
  VA_PAGES,     \* pages a translation table indexes; higher bits are masked off
  KERNEL_BASE,  \* first address no task may name
  ADDRESSES,    \* 2^64
  FRAMES,       \* physical frames
  Permission,   \* [Tasks -> [pages -> {"none", "ro", "rw"}]]
  FrameAt,      \* [Tasks -> [pages -> frames]]
  MAX_LEASES, MAX_MESSAGE, MAX_BORROW,
  LeaseTables,  \* the lease tables tasks send: sequences of [base, len, attrs]
  Messages,     \* the buffers they send with: [out, outLen, replyBuf, replyCap]
  Offsets, Locals,  \* what receivers pass to the borrow calls
  Lengths,      \* what they say of their own buffers
  MaxCopies     \* bound: copies over the whole behaviour

Pages == 0 .. VA_PAGES - 1

Addresses == 0 .. ADDRESSES - 1

ASSUME LeaseAssumption ==
  /\ {PAGE_SIZE, VA_PAGES, FRAMES} \subseteq Nat \ {0}
  /\ {KERNEL_BASE, ADDRESSES, MAX_LEASES, MAX_MESSAGE, MAX_BORROW, MaxCopies} \subseteq Nat
  /\ KERNEL_BASE < ADDRESSES
  /\ MAX_MESSAGE <= VA_PAGES * PAGE_SIZE /\ MAX_BORROW <= VA_PAGES * PAGE_SIZE
  /\ Permission \in [Tasks -> [Pages -> {"none", "ro", "rw"}]]
  /\ FrameAt \in [Tasks -> [Pages -> 0 .. FRAMES - 1]]
  /\ Messages \subseteq [out : Addresses, outLen : Addresses,
                         replyBuf : Addresses, replyCap : Addresses]
  /\ LeaseTables \subseteq Seq([base : Addresses, len : Addresses, attrs : SUBSET STRING])
  /\ Offsets \cup Locals \cup Lengths \subseteq Addresses

(* The frames under a space are allocated for it, one for each page. *)
ASSUME FrameAssumption ==
  \A t, u \in Tasks, p, q \in Pages :
    /\ Permission[t][p] # "none" /\ Permission[u][q] # "none"
    /\ FrameAt[t][p] = FrameAt[u][q]
    => t = u /\ p = q

VARIABLES
  mem,     \* [physical addresses -> tokens]
  sends,   \* [Tasks -> what the task's send has come to, and its leases]
  copies   \* copies so far

leaseVars == <<mem, sends, copies>>

NoSend == [kind |-> "None"]

Init ==
  /\ mem = [pa \in 0 .. FRAMES * PAGE_SIZE - 1 |-> pa]
  /\ sends = [t \in Tasks |-> NoSend]
  /\ copies = 0

-----------------------------------------------------------------------------
(* table_index masks what lies above the tables: lookup and translate agree. *)
PageOf(va) == (va \div PAGE_SIZE) % VA_PAGES
Mapped(t, va) == Permission[t][PageOf(va)] # "none"
Translate(t, va) == FrameAt[t][PageOf(va)] * PAGE_SIZE + (va % PAGE_SIZE)

(* Variant: only the page of the first byte is looked up. *)
FirstPageOnly(t, va, len, allowed) ==
  \/ len = 0
  \/ /\ va + len < ADDRESSES /\ va + len <= KERNEL_BASE
     /\ Permission[t][PageOf(va)] \in allowed

(* user_range: every page the range touches, none of it in the kernel's half *)
UserRange(t, va, len, allowed) ==
  \/ len = 0
  \/ /\ va + len < ADDRESSES /\ va + len <= KERNEL_BASE
     /\ \A page \in (va \div PAGE_SIZE) .. ((va + len - 1) \div PAGE_SIZE) :
          Permission[t][page % VA_PAGES] \in allowed

UserReadable(t, va, len) == UserRange(t, va, len, {"ro", "rw"})
UserWritable(t, va, len) == UserRange(t, va, len, {"rw"})

Least(a, b) == IF a <= b THEN a ELSE b

(* Variant: the chunk ends at the source's page boundary, whatever the target's. *)
ChunkBySource(src, dst, left) == Least(left, PAGE_SIZE - (src % PAGE_SIZE))

(* copy_across: a chunk ends where the first of the two pages does. *)
Chunk(src, dst, left) ==
  Least(left, Least(PAGE_SIZE - (src % PAGE_SIZE), PAGE_SIZE - (dst % PAGE_SIZE)))

(***************************************************************************)
(* A turn of copy_across.  A chunk is contiguous in physical memory; past   *)
(* the end of memory it would be a wild write, kept visible here by         *)
(* dropping what falls outside.                                             *)
(***************************************************************************)
CopyChunk(s, srcVa, d, dstVa, len, last) ==
  LET src  == srcVa + last.done
      dst  == dstVa + last.done
      size == Chunk(src, dst, len - last.done)
      from == Translate(s, src)
      to   == Translate(d, dst)
  IN  IF ~last.ok \/ last.done >= len THEN last
      ELSE IF ~Mapped(s, src) \/ ~Mapped(d, dst) THEN [last EXCEPT !.ok = FALSE]
      ELSE [done |-> last.done + size, ok |-> TRUE,
            mem |-> [pa \in DOMAIN mem |->
                       IF pa \in to .. to + size - 1 /\ from + (pa - to) \in DOMAIN mem
                       THEN last.mem[from + (pa - to)] ELSE last.mem[pa]]]

(* copy_across: its loop, which a turn for every byte is enough for *)
CopyAcross(s, srcVa, d, dstVa, len) ==
  LET turn[n \in 0 .. len] ==
        IF n = 0 THEN [done |-> 0, mem |-> mem, ok |-> TRUE]
        ELSE CopyChunk(s, srcVa, d, dstVa, len, turn[n - 1])
  IN  turn[len]

-----------------------------------------------------------------------------
(* collect_leases: every lease permits something, and the sender may do it too. *)
LeaseOK(t, lease) ==
  /\ lease.attrs # {} /\ lease.attrs \subseteq {"read", "write"}
  /\ "read" \in lease.attrs => UserReadable(t, lease.base, lease.len)
  /\ "write" \in lease.attrs => UserWritable(t, lease.base, lease.len)

CollectLeases(t, table) ==
  /\ Len(table) <= MAX_LEASES
  /\ \A k \in DOMAIN table : LeaseOK(t, table[k])

(* A task in a send is blocked; the others run. *)
Runs(t) == sends[t] = NoSend

(* send, up to the rendezvous: every buffer is checked before the sender blocks. *)
Send(t, u, message, table) ==
  /\ Runs(t) /\ u # t
  /\ message.outLen <= MAX_MESSAGE /\ message.replyCap <= MAX_MESSAGE
  /\ UserReadable(t, message.out, message.outLen)
  /\ UserWritable(t, message.replyBuf, message.replyCap)
  /\ CollectLeases(t, table)
  /\ sends' = [sends EXCEPT ![t] = [kind |-> "SendWait", target |-> u,
                                    message |-> message, leases |-> table]]
  /\ UNCHANGED <<mem, copies>>

(* deliver: a body, cut to what its destination said it could hold *)
Deliver(s, buf, len, d, dst, cap) ==
  LET size == Least(len, cap)
  IN  /\ UserReadable(s, buf, size) /\ UserWritable(d, dst, size)
      /\ mem' = CopyAcross(s, buf, d, dst, size).mem
      /\ copies < MaxCopies /\ copies' = copies + 1

(* The message is collected, by recv or by send when the receiver is already
   waiting, and its leases become usable. *)
Receive(u, t, buf, cap) ==
  /\ Runs(u) /\ cap <= MAX_MESSAGE /\ UserWritable(u, buf, cap)
  /\ sends[t].kind = "SendWait" /\ sends[t].target = u
  /\ Deliver(t, sends[t].message.out, sends[t].message.outLen, u, buf, cap)
  /\ sends' = [sends EXCEPT ![t].kind = "ReplyWait"]

(* reply: the answer is delivered, the send is over, and so are its leases. *)
Reply(u, t, data, len) ==
  /\ Runs(u) /\ len <= MAX_MESSAGE
  /\ sends[t].kind = "ReplyWait" /\ sends[t].target = u
  /\ Deliver(u, data, len, t, sends[t].message.replyBuf, sends[t].message.replyCap)
  /\ sends' = [sends EXCEPT ![t] = NoSend]

(* abandon: the receiver is gone, and with it the send and its leases. *)
Abandoned(t) ==
  /\ ~Runs(t)
  /\ sends' = [sends EXCEPT ![t] = NoSend]
  /\ UNCHANGED <<mem, copies>>

(* The first guard of borrow: the lease exists, and exists for us. *)
LeaseIsOurs(me, peer, k) ==
  /\ sends[peer].kind = "ReplyWait" /\ sends[peer].target = me
  /\ k \in DOMAIN sends[peer].leases

(* The last: the piece asked for is inside it, without wrapping. *)
Fits(offset, len, lease) == offset + len < ADDRESSES /\ offset + len <= lease.len

BorrowWrite(me, peer, lease, offset, local, len) ==
  /\ "write" \in lease.attrs
  /\ UserReadable(me, local, len)
  /\ mem' = CopyAcross(me, local, peer, (lease.base + offset) % ADDRESSES, len).mem

BorrowRead(me, peer, lease, offset, local, len) ==
  /\ "read" \in lease.attrs
  /\ UserWritable(me, local, len)
  /\ mem' = CopyAcross(peer, (lease.base + offset) % ADDRESSES, me, local, len).mem

(* borrow, when nothing refuses it; a refusal changes nothing. *)
Borrow(me, peer, k, offset, local, len) ==
  /\ Runs(me) /\ copies < MaxCopies
  /\ len <= MAX_BORROW
  /\ LeaseIsOurs(me, peer, k)
  /\ LET lease == sends[peer].leases[k]
     IN  /\ Fits(offset, len, lease)
         /\ \/ BorrowWrite(me, peer, lease, offset, local, len)
            \/ BorrowRead(me, peer, lease, offset, local, len)
  /\ copies' = copies + 1
  /\ UNCHANGED sends

Next ==
  \/ \E t, u \in Tasks, message \in Messages, table \in LeaseTables : Send(t, u, message, table)
  \/ \E t \in Tasks : Abandoned(t)
  \/ \E t, u \in Tasks, buf \in Locals, len \in Lengths :
       Receive(u, t, buf, len) \/ Reply(u, t, buf, len)
  \/ \E me, peer \in Tasks, k \in 1 .. MAX_LEASES, offset \in Offsets, local \in Locals,
       len \in Lengths : Borrow(me, peer, k, offset, local, len)

Spec == Init /\ [][Next]_leaseVars

-----------------------------------------------------------------------------
(* What EL0 may do with one byte, said without pages or ranges *)
ByteAllows(t, va, what) ==
  /\ va < KERNEL_BASE
  /\ Permission[t][PageOf(va)] \in (IF what = "read" THEN {"ro", "rw"} ELSE {"rw"})

MayAll(t, va, len, what) == \A i \in 0 .. len - 1 : ByteAllows(t, va + i, what)

(***************************************************************************)
(* Buffers and leases are checked once, when they are sent, and used later  *)
(* with no second look: every byte of them is one their owner may itself    *)
(* access that way.  So deliver cannot refuse a queued message.             *)
(***************************************************************************)
SentBuffersAccessible ==
  \A t \in Tasks : ~Runs(t) =>
    LET message == sends[t].message
    IN  /\ MayAll(t, message.out, message.outLen, "read")
        /\ MayAll(t, message.replyBuf, message.replyCap, "write")
        /\ \A k \in DOMAIN sends[t].leases :
             LET lease == sends[t].leases[k]
             IN  \A what \in lease.attrs : MayAll(t, lease.base, lease.len, what)

(* len bytes moved one at a time: the reference copy_across is held to *)
Moved(s, srcVa, d, dstVa, len) ==
  [pa \in DOMAIN mem |->
     IF \E i \in 0 .. len - 1 : Translate(d, dstVa + i) = pa
     THEN mem[Translate(s, srcVa + (CHOOSE i \in 0 .. len - 1 : Translate(d, dstVa + i) = pa))]
     ELSE mem[pa]]

(* A step that moves len bytes that s may read to where d may write them *)
MovesBytes(s, srcVa, d, dstVa, len) ==
  /\ MayAll(s, srcVa, len, "read") /\ MayAll(d, dstVa, len, "write")
  /\ mem' = Moved(s, srcVa, d, dstVa, len)

(* A step that moves them for a message, a reply or a borrow between peer and me *)
AgreedCopy(me, peer, local, len) ==
  /\ ~Runs(peer) /\ sends[peer].target = me
  /\ \/ /\ sends[peer].kind = "SendWait" /\ sends'[peer].kind = "ReplyWait"
        /\ len <= sends[peer].message.outLen /\ len <= MAX_MESSAGE
        /\ MovesBytes(peer, sends[peer].message.out, me, local, len)
     \/ /\ sends[peer].kind = "ReplyWait" /\ sends'[peer] = NoSend
        /\ len <= sends[peer].message.replyCap /\ len <= MAX_MESSAGE
        /\ MovesBytes(me, local, peer, sends[peer].message.replyBuf, len)
     \/ /\ sends[peer].kind = "ReplyWait" /\ UNCHANGED sends
        /\ len <= MAX_BORROW
        /\ \E k \in DOMAIN sends[peer].leases :
             LET lease == sends[peer].leases[k]
             IN  \E offset \in 0 .. lease.len - len :
                   \/ /\ "write" \in lease.attrs
                      /\ MovesBytes(me, local, peer, lease.base + offset, len)
                   \/ /\ "read" \in lease.attrs
                      /\ MovesBytes(peer, lease.base + offset, me, local, len)

(***************************************************************************)
(* A change of memory is a body of a message or a reply, no longer than     *)
(* either side said, or a borrow between a lease the borrower is being      *)
(* waited on for, inside its bounds and as it permits, and the borrower's   *)
(* own buffer.  Both ends may be accessed by their own task, and exactly    *)
(* those bytes move, wherever the pages lie.                                *)
(***************************************************************************)
OnlyAgreedBytesMove ==
  [][mem' # mem => \E me, peer \in Tasks, local \in Locals, len \in 1 .. KERNEL_BASE :
                     AgreedCopy(me, peer, local, len)]_leaseVars

=============================================================================
