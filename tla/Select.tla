------------------------------- MODULE Select -------------------------------
(***************************************************************************)
(* Select, the event demultiplexer of a reactor: include/dtc/event/        *)
(* select.hpp and src/event/select.cpp.                                    *)
(*                                                                         *)
(* The events to poll are bits of two masks, in arrays that grow with the  *)
(* highest file descriptor.  _poll copies the masks, calls select() and    *)
(* goes through the result while the handler takes events out of the very  *)
(* masks it came from.  Only the owner of the reactor calls any of this.   *)
(***************************************************************************)
EXTENDS Integers, FiniteSets, FiniteSetsExt, Doubling

CONSTANTS
  MaxFd,       \* bound: the highest file descriptor
  ByteBits,    \* file descriptors in a byte of a mask
  MaskBytes,   \* sizeof(fd_mask)
  Notifier     \* the descriptor of the notifier, which activation does not take out

ASSUME SelectAssumption ==
  /\ MaxFd \in Nat /\ Notifier \in 0 .. MaxFd
  /\ ByteBits \in Nat \ {0} /\ MaskBytes \in Nat \ {0}

Fd == 0 .. MaxFd
Kinds == {"READ", "WRITE"}
Event == Fd \X Kinds

\* The loop of _poll goes down the descriptors, the read before the write bit of each.
Bit(p) == <<p \div 2, IF p % 2 = 1 THEN "READ" ELSE "WRITE">>

VARIABLES
  mask,        \* _R[0] and _W[0]: the events whose bit is set
  fd2ev,       \* _fd2ev: the events found there
  max_fd,      \* _max_fd
  cap,         \* _cap
  found,       \* _R[1] and _W[1]
  pos,         \* the bit the loop of _poll is at, or -1 outside _poll
  able,        \* history: the events whose device is ready in this _poll
  activated    \* history: the events _poll has called the handler for

selectVars == <<mask, fd2ev, max_fd, cap, found, pos, able, activated>>

SelectInit ==
  /\ mask = {} /\ fd2ev = {} /\ found = {}
  /\ max_fd = -1
  /\ cap = <<0, 0>>
  /\ pos = -1
  /\ able = {} /\ activated = {}
-----------------------------------------------------------------------------
(* Capacities, in bytes *)

num_masks(n) == (n + MaskBytes * ByteBits - 1) \div (MaskBytes * ByteBits)

\* Mutated form of Grown: the capacity is compared with the descriptor, not the count.
GrownShort(c, fd) ==
  LET tgt == num_masks(fd) * MaskBytes
  IN  IF c >= tgt THEN c ELSE Doubled(IF c = 0 THEN MaskBytes ELSE c, tgt)

\* The capacity after _recap: doubled until it holds the descriptor.
Grown(c, fd) ==
  LET tgt == num_masks(fd + 1) * MaskBytes
  IN  IF c >= tgt THEN c ELSE Doubled(IF c = 0 THEN MaskBytes ELSE c, tgt)

\* _recap.  The new space is zeroed.
Recap(fd) ==
  IF max_fd >= fd THEN UNCHANGED cap
  ELSE cap' = [cap EXCEPT ![1] = Grown(cap[1], fd)]

Highest(s) == Max({-1} \union {e[1] : e \in s})
-----------------------------------------------------------------------------
(* What the reactor calls outside _poll *)

Forget == able' = {} /\ activated' = {}

Insert(e) ==
  /\ pos = -1
  /\ Recap(e[1])
  /\ max_fd' = Max({max_fd, e[1]})
  /\ mask' = mask \union {e}
  /\ fd2ev' = fd2ev \union {e}
  /\ Forget /\ UNCHANGED <<found, pos>>

\* _remove.  The loop at its end goes down from _max_fd to the next bit that is set.
Erase(e) ==
  /\ Recap(e[1])
  /\ mask' = mask \ {e}
  /\ fd2ev' = fd2ev \ {e}
  /\ max_fd' = Highest({f \in mask' : f[1] <= Max({max_fd, e[1]})})

Remove(e) ==
  /\ pos = -1
  /\ Erase(e)
  /\ Forget /\ UNCHANGED <<found, pos>>

Clear ==
  /\ pos = -1
  /\ mask' = {} /\ fd2ev' = {}
  /\ max_fd' = -1
  /\ Forget /\ UNCHANGED <<cap, found, pos>>
-----------------------------------------------------------------------------
(* _poll *)

\* _prepare_select: the bytes up to _max_fd are copied, the rest is what it was.
Pollee ==
  LET bytes == IF max_fd = -1 THEN 0 ELSE max_fd \div ByteBits + 1
  IN  {e \in mask : e[1] < bytes * ByteBits} \union {e \in found : e[1] >= bytes * ByteBits}

\* select() returns: of the events it was given, those that are able.  It writes the
\* masks for descriptors up to nfds.
Poll(s) ==
  /\ pos = -1
  /\ max_fd # -1
  /\ cap' = [cap EXCEPT ![2] = Max({cap[1], cap[2]})]
  /\ found' = {e \in Pollee : e[1] <= max_fd => e \in s}
  /\ pos' = 2 * max_fd + 1
  /\ able' = s
  /\ activated' = {}
  /\ UNCHANGED <<mask, fd2ev, max_fd>>

\* select() fails and _poll throws out of dispatch.
PollThrows ==
  /\ pos = -1
  /\ max_fd # -1
  /\ cap' = [cap EXCEPT ![2] = Max({cap[1], cap[2]})]
  /\ found' = Pollee
  /\ Forget /\ UNCHANGED <<mask, fd2ev, max_fd, pos>>

\* The loop calls the handler for this event.
Activates(e) == e \in found /\ e \in fd2ev

\* Mutated form of Scan: after a read bit the write bit is not looked at.
ScanElse ==
  /\ pos # -1
  /\ IF Activates(Bit(pos))
       THEN /\ activated' = activated \union {Bit(pos)}
            /\ IF Bit(pos)[1] = Notifier
                 THEN UNCHANGED <<mask, fd2ev, max_fd, cap>> ELSE Erase(Bit(pos))
            /\ pos' = IF Bit(pos)[2] = "READ" THEN pos - 2 ELSE pos - 1
       ELSE /\ UNCHANGED <<mask, fd2ev, max_fd, cap, activated>>
            /\ pos' = pos - 1
  /\ UNCHANGED <<found, able>>

\* A bit of the loop.  The handler, Reactor::_activate_event, takes the event out.
Scan ==
  /\ pos # -1
  /\ IF Activates(Bit(pos))
       THEN /\ activated' = activated \union {Bit(pos)}
            /\ IF Bit(pos)[1] = Notifier
                 THEN UNCHANGED <<mask, fd2ev, max_fd, cap>> ELSE Erase(Bit(pos))
       ELSE UNCHANGED <<mask, fd2ev, max_fd, cap, activated>>
  /\ pos' = pos - 1
  /\ UNCHANGED <<found, able>>

SelectNext ==
  \/ \E e \in Event : Insert(e) \/ Remove(e)
  \/ \E s \in SUBSET mask : Poll(s)
  \/ Clear \/ PollThrows \/ Scan

SelectSpec == SelectInit /\ [][SelectNext]_selectVars
-----------------------------------------------------------------------------
(* Properties *)

\* No mask or slot is touched outside its array: _recap grows the arrays before a
\* descriptor is used, and the loop of _poll stays inside the copies.
InBounds ==
  /\ max_fd < cap[1] * ByteBits
  /\ pos # -1 => Bit(pos)[1] < Min({cap[1], cap[2]}) * ByteBits

\* Every device that is ready has its event activated, though the masks shrink as the
\* loop runs, and no event is activated that is not ready.
ReadyActivated == pos = -1 => activated = able
=============================================================================
