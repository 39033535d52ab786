--------------------------- MODULE MatchingEngine ---------------------------
(***************************************************************************)
(* OrderMatchingEngine of src/FinTechMarketProjects/MatchingEngine/        *)
(* MatchingEngine.cpp, the variant whose price levels are lists behind     *)
(* pointers (TestMatchingEngine_ListPtr, the one its tests use).           *)
(*                                                                         *)
(* An order lives in a list node; three indexes lead to it, and each is    *)
(* updated in another place: the list of all orders, the map by id, whose  *)
(* block holds iterators into both lists, and the list of its price level. *)
(* A node is named by the number of orders inserted before it; an iterator *)
(* into either list is that name.                                          *)
(***************************************************************************)
EXTENDS Integers, Sequences, FiniteSetsExt, Functions, Filtering

CONSTANTS OrderIds, Prices, Quantities,
          MaxOrders   \* bound: how many orders are inserted into the book

ASSUME InputsAssumption == /\ Prices \subseteq Nat
                           /\ Quantities \subseteq Nat
                           /\ MaxOrders \in Nat

Sides == {"BUY", "SELL"}
Actions == {"NEW", "CANCEL", "AMEND"}
Orders == [id : OrderIds, side : Sides, price : Prices, quantity : Quantities]

VARIABLES book,    \* the engine's members:
                   \*   orders: node -> Order, filled ones included
                   \*   byId: id -> ReferencesBlock
                   \*   levels: <<side, price>> -> nodes, in time order
                   \*   trades: node -> quantity, of the latest order
          action,  \* what the caller of processOrder asks for, or "none"
          order    \* and the Order it passes

engineVars == <<book, action, order>>

EngineInit == /\ book = [orders |-> <<>>, byId |-> <<>>, levels |-> <<>>,
                         trades |-> <<>>, inserted |-> 0]
              /\ action = "none"
              /\ order = <<>>

-----------------------------------------------------------------------------
(* matchOrder *)

Quantity(b, nodes) == SumFunction([n \in nodes |-> b.orders[n].quantity])

Opposite(side) == IF side = "BUY" THEN "SELL" ELSE "BUY"

\* Mutant: the walk starts after the order's own price (upper_bound).
BeyondLimit(o, price) ==
  IF o.side = "SELL" THEN price > o.price ELSE price < o.price

WithinLimit(o, price) ==
  IF o.side = "SELL" THEN price >= o.price ELSE price <= o.price

Matching(b, o) ==
  {l \in DOMAIN b.levels : l[1] = Opposite(o.side) /\ WithinLimit(o, l[2])}

(***************************************************************************)
(* What is left of the order when the walk comes to the level l.  The walk *)
(* starts at the order's own price and goes on to the better ones.         *)
(***************************************************************************)
Left(b, o, l) ==
  LET earlier == {m \in Matching(b, o) :
                    IF o.side = "SELL" THEN m[2] < l[2] ELSE m[2] > l[2]}
  IN o.quantity - Quantity(b, UNION {Range(b.levels[m]) : m \in earlier})

First(level, k) == {level[i] : i \in 1..k}

(***************************************************************************)
(* matchOrderList: the orders of the level that are filled, and the trades *)
(* of all that are visited.  When the incoming order is used up, the loop  *)
(* does not end before the next order, which gets a trade of what is left, *)
(* be it nothing.                                                          *)
(***************************************************************************)
LevelMatchWhole(b, level, left) ==   \* mutant: an order is filled whole or not at all
  LET filled == Max({k \in 0..Len(level) : Quantity(b, First(level, k)) <= left})
  IN [filled |-> filled,
      trades |-> [n \in First(level, filled) |-> b.orders[n].quantity]]

LevelMatch(b, level, left) ==
  LET filled == Max({k \in 0..Len(level) : Quantity(b, First(level, k)) <= left})
      rest == left - Quantity(b, First(level, filled))
  IN [filled |-> filled,
      trades |-> [n \in First(level, Min({filled + 1, Len(level)})) |->
                    IF n \in First(level, filled) THEN b.orders[n].quantity
                                                  ELSE rest]]

\* The levels that the walk reaches, with what happens there.
Walk(b, o) ==
  [l \in {m \in Matching(b, o) : Left(b, o, m) > 0} |->
     LevelMatch(b, b.levels[l], Left(b, o, l))]

\* The id map after the walk (mutant: a filled order stays in it).
KeepFilled(byId, filled) == byId

EraseFilled(byId, filled) ==
  Restrict(byId, {id \in DOMAIN byId : byId[id].node \notin filled})

Reduced(o, traded) == [o EXCEPT !.quantity = @ - traded]

\* The members after the walk.
Matched(b, o) ==
  LET walk == Walk(b, o)
      trades == [n \in UNION {DOMAIN walk[l].trades : l \in DOMAIN walk} |->
                   walk[<<Opposite(o.side), b.orders[n].price>>].trades[n]]
      filled == UNION {First(b.levels[l], walk[l].filled) : l \in DOMAIN walk}
  IN [b EXCEPT
        !.trades = trades,
        !.orders = [n \in DOMAIN @ |->
                      IF n \in DOMAIN trades
                        THEN Reduced(@[n], trades[n]) ELSE @[n]],
        !.byId = EraseFilled(@, filled),
        !.levels = [l \in DOMAIN @ |->
                      IF l \in DOMAIN walk
                        THEN SubSeq(@[l], walk[l].filled + 1, Len(@[l])) ELSE @[l]]]

-----------------------------------------------------------------------------
(* handleOrderNew, handleOrderCancel, handleOrderAmend *)

Traded(b) == SumFunction(b.trades)

\* An assignment to the element of a map at a key.
Assigned(map, key, value) ==
  [k \in DOMAIN map \cup {key} |-> IF k = key THEN value ELSE map[k]]

LevelOf(b, l) == IF l \in DOMAIN b.levels THEN b.levels[l] ELSE <<>>

\* Mutant: the order is put at the begin of its level.
RestingFirst(b, o) ==
  LET l == <<o.side, o.price>>
      node == b.inserted + 1
  IN [b EXCEPT !.inserted = node,
               !.orders = Assigned(@, node, o),
               !.byId = Assigned(@, o.id, [node |-> node, level |-> l]),
               !.levels = Assigned(@, l, <<node>> \o LevelOf(b, l))]

Resting(b, o) ==
  LET l == <<o.side, o.price>>
      node == b.inserted + 1
  IN [b EXCEPT !.inserted = node,
               !.orders = Assigned(@, node, o),
               !.byId = Assigned(@, o.id, [node |-> node, level |-> l]),
               !.levels = Assigned(@, l, Append(LevelOf(b, l), node))]

\* What is left of the order rests, unless its id is in the book.
AfterNew(b, o) ==
  LET matched == Matched(b, o)
      left == o.quantity - Traded(matched)
  IN IF left = 0 \/ o.id \in DOMAIN matched.byId
       THEN matched
       ELSE Resting(matched, [o EXCEPT !.quantity = left])

AfterCancel(b, id) ==
  LET block == b.byId[id]
  IN [b EXCEPT !.levels[block.level] =
                  Keep(@, {k \in DOMAIN @ : @[k] # block.node}),
               !.orders = Restrict(@, DOMAIN @ \ {block.node}),
               !.byId = Restrict(@, DOMAIN @ \ {id})]

Done == action' = "none" /\ order' = <<>>

New == /\ action = "NEW"
       /\ book' = AfterNew(book, order)
       /\ Done

Known == order.id \in DOMAIN book.byId
Original == book.orders[book.byId[order.id].node]

Cancel == /\ action = "CANCEL"
          /\ book' = IF Known THEN AfterCancel(book, order.id) ELSE book
          /\ Done

\* An order of the other side is not amended.
AmendPrice == /\ action = "AMEND"
              /\ Known /\ Original.side = order.side
              /\ Original.price # order.price
              /\ book' = AfterNew(AfterCancel(book, order.id), order)
              /\ Done

AmendQuantity ==
  /\ action = "AMEND"
  /\ Known /\ Original.side = order.side
  /\ Original.price = order.price
  /\ book' = [book EXCEPT !.orders[book.byId[order.id].node].quantity = order.quantity]
  /\ Done

AmendNothing == /\ action = "AMEND"
                /\ Known => Original.side # order.side
                /\ Done
                /\ UNCHANGED book

-----------------------------------------------------------------------------

\* The caller: the next order, as long as the bound leaves room for it.
Receive == /\ action = "none"
           /\ book.inserted < MaxOrders
           /\ action' \in Actions
           /\ order' \in Orders
           /\ book' = [book EXCEPT !.trades = <<>>]

EngineNext ==
  Receive \/ New \/ Cancel \/ AmendPrice \/ AmendQuantity \/ AmendNothing

EngineSpec == EngineInit /\ [][EngineNext]_engineVars

-----------------------------------------------------------------------------

Levels == DOMAIN book.levels

(***************************************************************************)
(* The engine's own check (info() prints "ERROR: ID" otherwise), in full:  *)
(* the id map, the list of orders and the levels hold the same resting     *)
(* orders, each once and at its own side and price, through every fill,    *)
(* cancellation and amendment.                                             *)
(***************************************************************************)
IndexesAgree ==
  /\ \A id \in DOMAIN book.byId :
       LET block == book.byId[id]
       IN /\ block.node \in DOMAIN book.orders
          /\ book.orders[block.node].id = id
          /\ block.node \in Range(book.levels[block.level])
  /\ \A l \in Levels : \A k \in DOMAIN book.levels[l] :
       LET resting == book.orders[book.levels[l][k]]
       IN /\ <<resting.side, resting.price>> = l
          /\ resting.id \in DOMAIN book.byId
          /\ book.byId[resting.id] = [node |-> book.levels[l][k], level |-> l]
  /\ \A l \in Levels : IsInjective(book.levels[l])

(***************************************************************************)
(* No buy order rests at or above the price of a resting sell order: they  *)
(* would have been traded.                                                 *)
(***************************************************************************)
NotCrossed ==
  \A l, m \in Levels :
    /\ l[1] = "BUY" /\ book.levels[l] # <<>>
    /\ m[1] = "SELL" /\ book.levels[m] # <<>>
    => l[2] < m[2]

(***************************************************************************)
(* An order trades with a resting one only within its limit, and only when *)
(* all that came to that price level earlier have been filled by then.     *)
(***************************************************************************)
FilledInTurn ==
  [][action # "none" =>
       \A n \in DOMAIN book'.trades :
         LET resting == book.orders[n]
             level == book.levels[<<resting.side, resting.price>>]
         IN /\ resting.side = Opposite(order.side)
            /\ WithinLimit(order, resting.price)
            /\ \A m \in Range(level) : m < n => book'.orders[m].quantity = 0]_engineVars

RestingQuantity(b, side) ==
  Quantity(b, UNION {Range(b.levels[l]) : l \in {m \in DOMAIN b.levels : m[1] = side}})

TradesAll(b, o, after) ==
  LET opposite == Opposite(o.side)
      offered == Quantity(b, UNION {Range(b.levels[l]) : l \in Matching(b, o)})
      traded == RestingQuantity(b, opposite) - RestingQuantity(after, opposite)
      left == o.quantity - traded
  IN /\ traded = Min({offered, o.quantity})
     /\ Traded(after) = traded
     /\ left > 0 => o.id \in DOMAIN after.byId
     /\ left > 0 /\ o.id \notin DOMAIN b.byId =>
          after.orders[after.byId[o.id].node] = [o EXCEPT !.quantity = left]

(***************************************************************************)
(* An order trades all it can: what the orders within its limit offer, or  *)
(* else its whole quantity.  The resting side loses exactly that much, and *)
(* what is left rests at the order's price, unless its id was in use.      *)
(***************************************************************************)
TradesAllItCan ==
  [][New \/ AmendPrice => TradesAll(book, order, book')]_engineVars
=============================================================================
