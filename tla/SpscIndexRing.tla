---------------------------- MODULE SpscIndexRing ----------------------------
(***************************************************************************)
(* The rings whose positions are indices and that leave one slot free to   *)
(* tell full from empty: impl_1, with copies of the positions, and impl_2, *)
(* impl_3 and impl_3_size, which load the other side's position on every   *)
(* call (cachedRead and cachedWrite are then the calls' temporaries).  The *)
(* last three compute the next index with a mask, for a Capacity that is a *)
(* power of two.                                                           *)
(***************************************************************************)
EXTENDS SpscClients

NextIndex(i) == IF i + 1 = Capacity THEN 0 ELSE i + 1

\* The buffer is full, or empty, if the other side is at this position.
FullAt(r) == NextIndex(writePos) = r

EmptyAt(w) == readPos = w

CachedPush == \/ StartPush(FullAt(cachedRead))
              \/ RefreshRead(FullAt(readPos))
              \/ Write
              \/ Publish(NextIndex(writePos))

CachedPop == \/ StartPop(EmptyAt(cachedWrite))
             \/ RefreshWrite(EmptyAt(writePos))
             \/ Read
             \/ Release(NextIndex(readPos))

UncachedPush == \/ StartPush(TRUE)
                \/ RefreshRead(FullAt(readPos))
                \/ Write
                \/ Publish(NextIndex(writePos))

UncachedPop == \/ StartPop(TRUE)
               \/ RefreshWrite(EmptyAt(writePos))
               \/ Read
               \/ Release(NextIndex(readPos))
=============================================================================
