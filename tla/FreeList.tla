------------------------------ MODULE FreeList -------------------------------
(***************************************************************************)
(* FreeList of src/DataStructures/FreeList_ThreadSafe: blocks of memory in *)
(* a linked stack whose links lie in the free blocks themselves, taken and *)
(* given back by compare-exchange on its head, refilled by the chunk.  The *)
(* clients are the workers of test_multithreaded: each takes a block,      *)
(* writes to it and gives it back, again and again.                        *)
(*                                                                         *)
(* One action per access to shared memory.  A client that reads the link   *)
(* of a block which another is writing to finds the link or the other's    *)
(* bytes.  Requests above BlockSize go past the list and are left out, so  *)
(* is the vector of chunks, which only the destructor reads.               *)
(***************************************************************************)
EXTENDS FiniteSets

CONSTANTS Clients,
          Chunks,  \* what operator new returns: sets of blocks
          Null,    \* no block
          Bytes    \* what a link reads as that a client has written over

VARIABLES head,   \* freeList
          link,   \* link[b]: the member next of the node in block b
          fresh,  \* the chunks that operator new has not yet returned
          chunk,  \* chunk[c]: blocks of a new chunk still to be put in
          block,  \* block[c]: the block c has out of the list
          top,    \* top[c]: its local variable head
          next,   \* next[c]: its local variable next
          pc

vars == <<head, link, fresh, chunk, block, top, next, pc>>

Blocks == UNION Chunks

Init == /\ head = Null
        /\ link = [b \in Blocks |-> Bytes]
        /\ fresh = Chunks
        /\ chunk = [c \in Clients |-> {}]
        /\ block = [c \in Clients |-> Null]
        /\ top = [c \in Clients |-> Null]
        /\ next = [c \in Clients |-> Null]
        /\ pc = [c \in Clients |-> "allocate"]

Go(c, to) == pc' = [pc EXCEPT ![c] = to]

-----------------------------------------------------------------------------
(* allocate *)

\* What the load of the head, or an exchange that has failed, leaves.
SeeHead(c) == /\ top' = [top EXCEPT ![c] = head]
              /\ Go(c, IF head = Null THEN "refill" ELSE "look")
              /\ UNCHANGED <<head, link, fresh, chunk, block, next>>

Allocate(c) == pc[c] = "allocate" /\ SeeHead(c)

\* head->next, whoever has the block by now.
Look(c) ==
  /\ pc[c] = "look"
  /\ top[c] \in Blocks
  /\ next' = [next EXCEPT ![c] = link[top[c]]]
  /\ Go(c, "take")
  /\ UNCHANGED <<head, link, fresh, chunk, block, top>>

Take(c) ==
  /\ pc[c] = "take"
  /\ head = top[c]
  /\ head' = next[c]
  /\ block' = [block EXCEPT ![c] = top[c]]
  /\ Go(c, "write")
  /\ UNCHANGED <<link, fresh, chunk, top, next>>

\* Another head, or a spurious failure.
TakeFails(c) == pc[c] = "take" /\ SeeHead(c)

-----------------------------------------------------------------------------
(* refill: the blocks of a chunk are put in one by one. *)

PutNext(c, blocks) ==
  \E b \in blocks :
    /\ block' = [block EXCEPT ![c] = b]
    /\ chunk' = [chunk EXCEPT ![c] = blocks \ {b}]
    /\ Go(c, "deallocate")

Refill(c) ==
  /\ pc[c] = "refill"
  /\ \E new \in fresh : fresh' = fresh \ {new} /\ PutNext(c, new)
  /\ UNCHANGED <<head, link, top, next>>

-----------------------------------------------------------------------------
(* deallocate *)

\* std::memset(p, 0x11, 256): the link lies in these bytes.
Write(c) ==
  /\ pc[c] = "write"
  /\ link' = [link EXCEPT ![block[c]] = Bytes]
  /\ Go(c, "deallocate")
  /\ UNCHANGED <<head, fresh, chunk, block, top, next>>

SeeOldHead(c) == /\ top' = [top EXCEPT ![c] = head]
                 /\ Go(c, "link")
                 /\ UNCHANGED <<head, link, fresh, chunk, block, next>>

Deallocate(c) == pc[c] = "deallocate" /\ SeeOldHead(c)

Link(c) ==
  /\ pc[c] = "link"
  /\ link' = [link EXCEPT ![block[c]] = top[c]]
  /\ Go(c, "put")
  /\ UNCHANGED <<head, fresh, chunk, block, top, next>>

Put(c) ==
  /\ pc[c] = "put"
  /\ head = top[c]
  /\ head' = block[c]
  /\ IF chunk[c] # {} THEN PutNext(c, chunk[c])
     ELSE /\ block' = [block EXCEPT ![c] = Null]
          /\ Go(c, "allocate")
          /\ UNCHANGED chunk
  /\ UNCHANGED <<link, fresh, top, next>>

PutFails(c) == pc[c] = "put" /\ SeeOldHead(c)

-----------------------------------------------------------------------------

Client(c) == \/ Allocate(c) \/ Look(c) \/ Take(c) \/ TakeFails(c)
             \/ Refill(c) \/ Write(c)
             \/ Deallocate(c) \/ Link(c) \/ Put(c) \/ PutFails(c)

Next == \E c \in Clients : Client(c)

Spec == Init /\ [][Next]_vars

-----------------------------------------------------------------------------

(***************************************************************************)
(* The list leads to a block, and a block that a client has out of it is   *)
(* neither offered to the next client nor in the hands of another:         *)
(* test_multithreaded, "Multi-thread stress", has eight workers write to   *)
(* their blocks and expects to end well.                                   *)
(***************************************************************************)
BlocksApart ==
  /\ head \in Blocks \cup {Null}
  /\ \A c \in Clients :
       block[c] # Null => /\ block[c] # head
                          /\ \A d \in Clients \ {c} : block[d] # block[c]
=============================================================================
