--------------------------- MODULE SpscCursorRing ---------------------------
(***************************************************************************)
(* The rings whose positions are cursors that are never wrapped: impl_4,   *)
(* impl_5 and impl_6.  All slots can be used.  A cursor's slot is the      *)
(* cursor & kMask, for a Capacity that is a power of two the remainder.    *)
(* (2^63 pushes, which would overflow a cursor, are out of reach.)         *)
(***************************************************************************)
EXTENDS SpscClients

\* The buffer is full, or empty, if the other side is at this position
\* (mutants: the comparisons are off by one).
FullOneLate(r) == writePos - r > Capacity

FullAt(r) == writePos - r >= Capacity

EmptyOneLate(w) == readPos > w

EmptyOneEarly(w) == readPos + 1 >= w

EmptyAt(w) == readPos >= w

Push == \/ StartPush(FullAt(cachedRead))
        \/ RefreshRead(FullAt(readPos))
        \/ Write
        \/ Publish(writePos + 1)

Pop == \/ StartPop(EmptyAt(cachedWrite))
       \/ RefreshWrite(EmptyAt(writePos))
       \/ Read
       \/ Release(readPos + 1)
=============================================================================
