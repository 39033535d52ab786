-------------------------- MODULE SequentialProofs --------------------------
(***************************************************************************)
(* Proofs about the components that one thread calls: the event bus, for   *)
(* any number of topics and subscriptions and any depth of nesting, and    *)
(* the matching engine, for any number of orders, ids and prices.  Both    *)
(* erase from lists in place; what is proved of Keep serves both.          *)
(***************************************************************************)
EXTENDS EventBus, MatchingEngine, FiniteSetTheorems, WellFoundedInduction, TLAPS

-----------------------------------------------------------------------------
(* Induction over the numbers, as the absence of a least counterexample:   *)
(* unlike the library's NatInduction this form speaks of a set.            *)

LEMMA Induction ==
  ASSUME NEW T \in SUBSET Nat, 0 \in T, \A n \in T : n + 1 \in T
  PROVE  T = Nat
<1> DEFINE less == {pair \in Nat \X Nat : pair[1] < pair[2]}
<1> SUFFICES ASSUME Nat \ T # {} PROVE FALSE
  OBVIOUS
<1>1. OpToRel(<, Nat) = less
  BY DEF OpToRel
<1>2. IsWellFoundedOn(less, Nat)
  BY <1>1, NatLessThanWellFounded
<1>3. PICK x \in Nat \ T : \A y \in Nat \ T : <<y, x>> \notin less
  BY <1>2, WFMin
<1>4. x - 1 \in Nat /\ (x - 1) + 1 = x
  OBVIOUS
<1>5. <<x - 1, x>> \in less
  BY <1>4
<1>6. x - 1 \in T
  BY <1>3, <1>4, <1>5
<1> QED BY <1>4, <1>6

\* The same for sequences: what holds of <<>>, and of Append(s, e) if it does
\* of s, holds of all.
LEMMA SeqInduction ==
  ASSUME NEW S, NEW T \in SUBSET Seq(S), <<>> \in T,
         \A s \in T, e \in S : Append(s, e) \in T
  PROVE  T = Seq(S)
<1> DEFINE N == {n \in Nat : \A s \in Seq(S) : Len(s) = n => s \in T}
<1>1. 0 \in N
  <2>1. \A s \in Seq(S) : Len(s) = 0 => s = <<>>
    OBVIOUS
  <2> QED BY <2>1
<1>2. ASSUME NEW n \in N PROVE n + 1 \in N
  <2> SUFFICES ASSUME NEW s \in Seq(S), Len(s) = n + 1 PROVE s \in T
    OBVIOUS
  <2> DEFINE front == [k \in 1..n |-> s[k]]
  <2>1. s[n + 1] \in S /\ \A k \in 1..n : s[k] \in S
    OBVIOUS
  <2>2. front \in Seq(S) /\ Len(front) = n
    BY <2>1
  <2>3. \A k \in 1..(n + 1) : k = n + 1 \/ k \in 1..n
    OBVIOUS
  <2>4. s = Append(front, s[n + 1])
    BY <2>1, <2>2, <2>3
  <2>5. front \in T
    BY <2>2
  <2> HIDE DEF front
  <2> QED BY <2>1, <2>4, <2>5
<1> HIDE DEF N
<1>3. N \in SUBSET Nat
  BY DEF N
<1>4. N = Nat
  BY <1>1, <1>2, <1>3, Induction
<1>5. \A s \in Seq(S) : Len(s) \in N
  BY <1>4
<1> QED BY <1>5 DEF N

-----------------------------------------------------------------------------
(* Filtering *)

\* g[m] holds the kept ones of the first m elements, for m up to n.
Filters(g, s, kept, n) ==
  g = [m \in 0..n |-> IF m = 0 THEN <<>>
                      ELSE IF m \in kept THEN Append(g[m - 1], s[m])
                      ELSE g[m - 1]]

LEMMA FilterExists ==
  ASSUME NEW s, NEW kept, NEW n \in Nat PROVE \E g : Filters(g, s, kept, n)
<1> DEFINE T == {k \in Nat : \E g : Filters(g, s, kept, k)}
<1>1. 0 \in T
  <2>1. Filters([m \in 0..0 |-> <<>>], s, kept, 0)
    BY DEF Filters
  <2> QED BY <2>1
<1>2. ASSUME NEW k \in T PROVE k + 1 \in T
  <2>1. PICK g : Filters(g, s, kept, k)
    OBVIOUS
  <2> DEFINE last == IF k + 1 \in kept THEN Append(g[k], s[k + 1]) ELSE g[k]
             h == [m \in 0..(k + 1) |-> IF m = k + 1 THEN last ELSE g[m]]
  <2>2. ASSUME NEW m \in 0..(k + 1)
        PROVE  h[m] = IF m = 0 THEN <<>>
                      ELSE IF m \in kept THEN Append(h[m - 1], s[m])
                      ELSE h[m - 1]
    <3>1. CASE m = k + 1
      BY <3>1
    <3>2. CASE m # k + 1 /\ m # 0
      <4>1. m \in 0..k /\ m - 1 \in 0..k /\ m - 1 # k + 1
        BY <3>2
      <4>2. g[m] = IF m \in kept THEN Append(g[m - 1], s[m]) ELSE g[m - 1]
        BY <2>1, <3>2, <4>1 DEF Filters
      <4> QED BY <3>2, <4>1, <4>2
    <3>3. CASE m = 0
      BY <2>1, <3>3 DEF Filters
    <3> QED BY <3>1, <3>2, <3>3
  <2>3. Filters(h, s, kept, k + 1)
    <3> HIDE DEF last
    <3> QED BY <2>2 DEF Filters
  <2> QED BY <2>3
<1> HIDE DEF T
<1>3. T \in SUBSET Nat
  BY DEF T
<1>4. T = Nat
  BY <1>1, <1>2, <1>3, Induction
<1> QED BY <1>4 DEF T

LEMMA KeepFilters ==
  ASSUME NEW s, NEW kept, Len(s) \in Nat
  PROVE  \E g : Filters(g, s, kept, Len(s)) /\ Keep(s, kept) = g[Len(s)]
<1> DEFINE g == CHOOSE g : Filters(g, s, kept, Len(s))
<1>1. Keep(s, kept) = g[Len(s)]
  BY DEF Keep, Filters
<1>2. Filters(g, s, kept, Len(s))
  BY FilterExists
<1> QED BY <1>1, <1>2

LEMMA FilterSteps ==
  ASSUME NEW g, NEW s, NEW kept, NEW n \in Nat, Filters(g, s, kept, n)
  PROVE  /\ g[0] = <<>>
         /\ \A m \in 1..n :
              g[m] = IF m \in kept THEN Append(g[m - 1], s[m]) ELSE g[m - 1]
<1>1. g[0] = <<>>
  <2>1. 0 \in 0..n
    OBVIOUS
  <2> QED BY <2>1 DEF Filters
<1>2. ASSUME NEW m \in 1..n
      PROVE  g[m] = IF m \in kept THEN Append(g[m - 1], s[m]) ELSE g[m - 1]
  <2>1. m \in 0..n /\ m # 0
    OBVIOUS
  <2> QED BY <2>1 DEF Filters
<1> QED BY <1>1, <1>2

\* The first m elements decide what is kept of them.
LEMMA FiltersAgree ==
  ASSUME NEW g, NEW h, NEW s, NEW z, NEW kept, NEW old,
         NEW n \in Nat, NEW i \in Nat, i <= n,
         Filters(g, s, kept, n), Filters(h, z, old, i),
         \A k \in 1..i : s[k] = z[k] /\ (k \in kept <=> k \in old)
  PROVE  g[i] = h[i]
<1> DEFINE T == {m \in Nat : m <= i => g[m] = h[m]}
<1>1. 0 \in T
  BY FilterSteps
<1>2. ASSUME NEW m \in T PROVE m + 1 \in T
  <2> SUFFICES ASSUME m + 1 <= i PROVE g[m + 1] = h[m + 1]
    OBVIOUS
  <2>1. m + 1 \in 1..i /\ m + 1 \in 1..n /\ (m + 1) - 1 = m /\ g[m] = h[m]
    OBVIOUS
  <2>2. g[m + 1] = IF m + 1 \in kept THEN Append(g[(m + 1) - 1], s[m + 1])
                   ELSE g[(m + 1) - 1]
    BY <2>1, FilterSteps
  <2>3. h[m + 1] = IF m + 1 \in old THEN Append(h[(m + 1) - 1], z[m + 1])
                   ELSE h[(m + 1) - 1]
    BY <2>1, FilterSteps
  <2> QED BY <2>1, <2>2, <2>3
<1> HIDE DEF T
<1>3. T \in SUBSET Nat
  BY DEF T
<1>4. T = Nat
  BY <1>1, <1>2, <1>3, Induction
<1> QED BY <1>4 DEF T

LEMMA KeepEmpty == ASSUME NEW kept PROVE Keep(<<>>, kept) = <<>>
<1>1. Len(<<>>) = 0
  OBVIOUS
<1> QED BY <1>1, KeepFilters, FilterSteps

LEMMA KeepAppend ==
  ASSUME NEW S, NEW s \in Seq(S), NEW e \in S, NEW kept, NEW old,
         \A k \in 1..Len(s) : k \in kept <=> k \in old
  PROVE  Keep(Append(s, e), kept) =
           IF Len(s) + 1 \in kept THEN Append(Keep(s, old), e) ELSE Keep(s, old)
<1> DEFINE z == Append(s, e)
           n == Len(s)
<1>1. /\ n \in Nat /\ Len(z) = n + 1 /\ z[n + 1] = e
      /\ \A k \in 1..n : z[k] = s[k]
  OBVIOUS
<1> HIDE DEF z
<1>2. PICK g : Filters(g, z, kept, n + 1) /\ Keep(z, kept) = g[n + 1]
  BY <1>1, KeepFilters
<1>3. PICK h : Filters(h, s, old, n) /\ Keep(s, old) = h[n]
  BY <1>1, KeepFilters
<1> HIDE DEF n
<1>4. g[n] = h[n]
  <2>1. \A k \in 1..n : z[k] = s[k] /\ (k \in kept <=> k \in old)
    BY <1>1 DEF n
  <2>2. n + 1 \in Nat /\ n <= n + 1
    BY <1>1
  <2> QED BY <1>1, <1>2, <1>3, <2>1, <2>2, FiltersAgree
<1>5. g[n + 1] = IF n + 1 \in kept THEN Append(g[n], z[n + 1]) ELSE g[n]
  <2>1. n + 1 \in 1..(n + 1) /\ (n + 1) - 1 = n /\ n + 1 \in Nat
    BY <1>1
  <2> QED BY <1>2, <2>1, FilterSteps
<1> QED BY <1>1, <1>2, <1>3, <1>4, <1>5 DEF z, n

-----------------------------------------------------------------------------
(* The active entries *)

AnEntry == [id : Nat, active : BOOLEAN]

LEMMA ActiveSteps ==
  /\ Active(<<>>) = <<>>
  /\ \A s \in Seq(AnEntry), e \in AnEntry :
       Active(Append(s, e)) = IF e.active THEN Append(Active(s), e) ELSE Active(s)
<1>1. Active(<<>>) = <<>>
  BY KeepEmpty DEF Active
<1>2. ASSUME NEW s \in Seq(AnEntry), NEW e \in AnEntry
      PROVE  Active(Append(s, e)) =
               IF e.active THEN Append(Active(s), e) ELSE Active(s)
  <2> DEFINE z == Append(s, e)
             n == Len(s)
             kept == {k \in DOMAIN z : z[k].active}
             old == {k \in DOMAIN s : s[k].active}
  <2>1. /\ n \in Nat /\ DOMAIN z = 1..(n + 1) /\ DOMAIN s = 1..n
        /\ z[n + 1] = e /\ \A k \in 1..n : z[k] = s[k] /\ k \in 1..(n + 1)
        /\ n + 1 \in 1..(n + 1)
    OBVIOUS
  <2>2. (n + 1 \in kept <=> e.active) /\ \A k \in 1..n : k \in kept <=> k \in old
    BY <2>1
  <2> HIDE DEF z, kept, old
  <2>3. Keep(Append(s, e), kept) =
          IF Len(s) + 1 \in kept THEN Append(Keep(s, old), e) ELSE Keep(s, old)
    BY <2>2, KeepAppend
  <2>4. Active(Append(s, e)) = Keep(Append(s, e), kept) /\ Active(s) = Keep(s, old)
    BY DEF Active, z, kept, old
  <2> QED BY <2>2, <2>3, <2>4
<1> QED BY <1>1, <1>2

\* What the filter keeps: entries, all of them active, and every active one.
LEMMA ActiveKeeps ==
  ASSUME NEW s \in Seq(AnEntry)
  PROVE  /\ Active(s) \in Seq(AnEntry)
         /\ \A k \in DOMAIN Active(s) : Active(s)[k].active
         /\ \A e : e.active => ((\E k \in DOMAIN Active(s) : Active(s)[k] = e)
                               <=> \E k \in DOMAIN s : s[k] = e)
<1> DEFINE Among(e, z) == \E k \in 1..Len(z) : z[k] = e
           Kept(z) == /\ Active(z) \in Seq(AnEntry)
                      /\ \A k \in 1..Len(Active(z)) : Active(z)[k].active
                      /\ \A e : e.active => (Among(e, Active(z)) <=> Among(e, z))
           T == {z \in Seq(AnEntry) : Kept(z)}
<1>1. \A z \in Seq(AnEntry), last \in AnEntry :
        /\ Append(z, last) \in Seq(AnEntry)
        /\ Len(Append(z, last)) = Len(z) + 1 /\ Len(z) \in Nat
        /\ Append(z, last)[Len(z) + 1] = last
        /\ \A k \in 1..Len(z) : Append(z, last)[k] = z[k]
  OBVIOUS
<1>2. ASSUME NEW z \in Seq(AnEntry), NEW last \in AnEntry, NEW e
      PROVE  Among(e, Append(z, last)) <=> e = last \/ Among(e, z)
  <2> DEFINE a == Append(z, last)
  <2>1. /\ Len(a) = Len(z) + 1 /\ Len(z) \in Nat /\ a[Len(z) + 1] = last
        /\ \A k \in 1..Len(z) : a[k] = z[k]
    BY <1>1
  <2> HIDE DEF a
  <2>2. \A k \in 1..Len(a) : k = Len(z) + 1 \/ k \in 1..Len(z)
    BY <2>1
  <2>3. Len(z) + 1 \in 1..Len(a) /\ \A k \in 1..Len(z) : k \in 1..Len(a)
    BY <2>1
  <2> QED BY <2>1, <2>2, <2>3 DEF a
<1>3. <<>> \in T
  <2>1. Len(<<>>) = 0 /\ <<>> \in Seq(AnEntry) /\ 1..0 = {}
    OBVIOUS
  <2> QED BY <2>1, ActiveSteps
<1>4. ASSUME NEW z \in T, NEW last \in AnEntry PROVE Append(z, last) \in T
  <2>1. z \in Seq(AnEntry) /\ Kept(z)
    OBVIOUS
  <2>2. Append(z, last) \in Seq(AnEntry)
    BY <1>1
  <2> HIDE DEF Among
  <2>3. CASE last.active
    <3>1. Active(Append(z, last)) = Append(Active(z), last)
      BY <2>3, ActiveSteps
    <3> DEFINE a == Active(z)
               b == Append(a, last)
    <3>2. /\ b \in Seq(AnEntry) /\ Len(b) = Len(a) + 1 /\ Len(a) \in Nat
          /\ b[Len(a) + 1] = last /\ \A k \in 1..Len(a) : b[k] = a[k]
      BY <1>1, <2>1
    <3>3. \A k \in 1..Len(a) : a[k].active
      BY <2>1
    <3>4. \A e : Among(e, b) <=> e = last \/ Among(e, a)
      BY <1>2, <2>1
    <3>5. \A e : Among(e, Append(z, last)) <=> e = last \/ Among(e, z)
      BY <1>2
    <3> HIDE DEF a, b
    <3>6. \A k \in 1..Len(b) : k = Len(a) + 1 \/ k \in 1..Len(a)
      BY <3>2
    <3>7. \A k \in 1..Len(b) : b[k].active
      BY <2>3, <3>2, <3>3, <3>6
    <3>8. \A e : e.active => (Among(e, a) <=> Among(e, z))
      BY <2>1 DEF a
    <3>9. \A e : e.active => (Among(e, b) <=> Among(e, Append(z, last)))
      BY <3>4, <3>5, <3>8
    <3>10. Active(Append(z, last)) = b
      BY <3>1 DEF a, b
    <3> QED BY <2>2, <3>2, <3>7, <3>9, <3>10
  <2>4. CASE ~last.active
    <3>1. Active(Append(z, last)) = Active(z)
      BY <2>4, ActiveSteps
    <3>2. \A e : e.active => (Among(e, Append(z, last)) <=> Among(e, z))
      BY <1>2, <2>4
    <3> QED BY <2>1, <2>2, <3>1, <3>2
  <2> QED BY <2>3, <2>4
<1> HIDE DEF T
<1>5. T \in SUBSET Seq(AnEntry)
  BY DEF T
<1>6. T = Seq(AnEntry)
  BY <1>3, <1>4, <1>5, SeqInduction
<1>7. Kept(s)
  BY <1>6 DEF T
<1>8. DOMAIN Active(s) = 1..Len(Active(s)) /\ DOMAIN s = 1..Len(s)
  BY <1>7
<1> QED BY <1>7, <1>8

-----------------------------------------------------------------------------
(* The inductive invariant *)

AFrame == [topic : Topics, index : Nat \ {0}, running : Nat \cup {None},
           initialSize : Nat]

TypeOK ==
  /\ DOMAIN table \subseteq Topics
  /\ table \in [DOMAIN table -> Seq(AnEntry)]
  /\ nextId \in 0..MaxIds
  /\ publishDepth \in Nat
  /\ frames \in Seq(AFrame)
  /\ handles \subseteq Topics \X Ids

\* A running handler's entry is one of those that the publish set out to call.
RunningInside ==
  \A k \in DOMAIN frames :
    frames[k].running # None => frames[k].index <= frames[k].initialSize

IInv == TypeOK /\ RunningInside /\ ReferencesValid /\ NothingLeftBehind

-----------------------------------------------------------------------------
(* What the operations make of a table *)

TableOK(tbl) == /\ DOMAIN tbl \subseteq Topics
                /\ tbl \in [DOMAIN tbl -> Seq(AnEntry)]

\* The subscription id to topic t is in the table, and active.
Holds(tbl, t, id) == /\ t \in DOMAIN tbl
                     /\ \E k \in DOMAIN tbl[t] : tbl[t][k] = Entry(id)

AllActive(tbl, t) == tbl[t] # <<>> /\ \A k \in DOMAIN tbl[t] : tbl[t][k].active

\* No vector of the table goes away, shrinks or shifts.
Extends(tbl, new) ==
  \A t \in DOMAIN tbl : /\ t \in DOMAIN new
                        /\ Len(tbl[t]) <= Len(new[t])
                        /\ \A k \in 1..Len(tbl[t]) : new[t][k].id = tbl[t][k].id

LEMMA CleaningKeeps ==
  ASSUME NEW tbl, TableOK(tbl), NEW ts
  PROVE  /\ TableOK(Cleaned(tbl, ts))
         /\ \A t, id : Holds(Cleaned(tbl, ts), t, id) <=> Holds(tbl, t, id)
         /\ \A t \in DOMAIN Cleaned(tbl, ts) :
              IF t \in ts THEN AllActive(Cleaned(tbl, ts), t)
              ELSE t \in DOMAIN tbl /\ Cleaned(tbl, ts)[t] = tbl[t]
<1> DEFINE new == Cleaned(tbl, ts)
<1>1. /\ DOMAIN new = {u \in DOMAIN tbl : u \in ts => Active(tbl[u]) # <<>>}
      /\ \A t \in DOMAIN new : new[t] = IF t \in ts THEN Active(tbl[t]) ELSE tbl[t]
      /\ new = [t \in DOMAIN new |-> new[t]]
  BY DEF Cleaned
<1>2. \A t \in DOMAIN tbl : tbl[t] \in Seq(AnEntry)
  BY DEF TableOK
<1> HIDE DEF new
<1>3. TableOK(new)
  <2>1. \A t \in DOMAIN new : new[t] \in Seq(AnEntry)
    BY <1>1, <1>2, ActiveKeeps
  <2>2. DOMAIN new \subseteq Topics
    BY <1>1 DEF TableOK
  <2> QED BY <1>1, <2>1, <2>2 DEF TableOK
<1>4. ASSUME NEW t, NEW id PROVE Holds(new, t, id) <=> Holds(tbl, t, id)
  <2>1. CASE t \in DOMAIN tbl /\ t \in ts
    <3>1. Entry(id).active
      BY DEF Entry
    <3>2. (\E k \in DOMAIN Active(tbl[t]) : Active(tbl[t])[k] = Entry(id))
             <=> \E k \in DOMAIN tbl[t] : tbl[t][k] = Entry(id)
      BY <1>2, <2>1, <3>1, ActiveKeeps
    <3>3. Active(tbl[t]) = <<>> => DOMAIN Active(tbl[t]) = {}
      <4>1. DOMAIN <<>> = {}
        OBVIOUS
      <4> QED BY <4>1
    <3> QED BY <1>1, <2>1, <3>2, <3>3 DEF Holds
  <2>2. CASE t \notin DOMAIN tbl
    BY <1>1, <2>2 DEF Holds
  <2>3. CASE t \in DOMAIN tbl /\ t \notin ts
    BY <1>1, <2>3 DEF Holds
  <2> QED BY <2>1, <2>2, <2>3
<1>5. ASSUME NEW t \in DOMAIN new
      PROVE  IF t \in ts THEN AllActive(new, t)
             ELSE t \in DOMAIN tbl /\ new[t] = tbl[t]
  BY <1>1, <1>2, ActiveKeeps DEF AllActive
<1> QED BY <1>3, <1>4, <1>5 DEF new

LEMMA DeactivatingKeeps ==
  ASSUME NEW s \in Seq(AnEntry), NEW id
  PROVE  /\ Deactivated(s, id) \in Seq(AnEntry)
         /\ Len(Deactivated(s, id)) = Len(s)
         /\ \A k \in 1..Len(s) : Deactivated(s, id)[k].id = s[k].id
         /\ \A n : (\E k \in DOMAIN Deactivated(s, id) :
                      Deactivated(s, id)[k] = Entry(n))
                  <=> n # id /\ \E k \in DOMAIN s : s[k] = Entry(n)
<1> DEFINE new == Deactivated(s, id)
<1>1. DOMAIN s = 1..Len(s) /\ Len(s) \in Nat /\ \A k \in 1..Len(s) : s[k] \in AnEntry
  OBVIOUS
<1>2. new = [k \in 1..Len(s) |-> IF s[k].id = id
                                   THEN [s[k] EXCEPT !.active = FALSE] ELSE s[k]]
  BY <1>1 DEF Deactivated
<1> HIDE DEF new
<1>3. ASSUME NEW k \in 1..Len(s)
      PROVE  /\ new[k] \in AnEntry
             /\ new[k].id = s[k].id
             /\ s[k].id = id => new[k].active = FALSE
             /\ s[k].id # id => new[k] = s[k]
  BY <1>1, <1>2 DEF AnEntry
<1>4. new \in Seq(AnEntry) /\ Len(new) = Len(s) /\ DOMAIN new = 1..Len(s)
  <2>1. new \in [1..Len(s) -> AnEntry]
    BY <1>2, <1>3
  <2> QED BY <1>1, <2>1
<1>5. ASSUME NEW n
      PROVE (\E k \in DOMAIN new : new[k] = Entry(n))
              <=> n # id /\ \E k \in DOMAIN s : s[k] = Entry(n)
  <2>1. Entry(n).id = n /\ Entry(n).active = TRUE
    BY DEF Entry
  <2> QED BY <1>1, <1>3, <1>4, <2>1
<1> QED BY <1>3, <1>4, <1>5 DEF new

LEMMA UnsubscribingKeeps ==
  ASSUME TableOK(table), NEW t, NEW id
  PROVE  /\ TableOK(Unsubscribed(t, id))
         /\ \A u, n : Holds(Unsubscribed(t, id), u, n)
                      <=> Holds(table, u, n) /\ <<u, n>> # <<t, id>>
         /\ publishDepth # 0 => Extends(table, Unsubscribed(t, id))
         /\ publishDepth = 0 =>
              \A u \in DOMAIN Unsubscribed(t, id) :
                IF u = t THEN AllActive(Unsubscribed(t, id), u)
                ELSE u \in DOMAIN table /\ Unsubscribed(t, id)[u] = table[u]
<1>1. CASE t \notin DOMAIN table
  <2>1. Unsubscribed(t, id) = table
    BY <1>1 DEF Unsubscribed
  <2>2. \A u, n : Holds(table, u, n) => <<u, n>> # <<t, id>>
    BY <1>1 DEF Holds
  <2>3. \A u \in DOMAIN table : Len(table[u]) \in Nat
    BY DEF TableOK
  <2>4. Extends(table, table)
    BY <2>3 DEF Extends
  <2> QED BY <1>1, <2>1, <2>2, <2>4
<1>2. CASE t \in DOMAIN table
  <2> DEFINE new == [table EXCEPT ![t] = Deactivated(@, id)]
             cleaned == Cleaned(new, {t})
  <2>1. \A u \in DOMAIN table : table[u] \in Seq(AnEntry)
    BY DEF TableOK
  <2>2. /\ DOMAIN new = DOMAIN table
        /\ new[t] = Deactivated(table[t], id)
        /\ \A u \in DOMAIN table : u # t => new[u] = table[u]
        /\ new = [u \in DOMAIN table |-> new[u]]
    BY <1>2
  <2>3. Unsubscribed(t, id) = IF publishDepth = 0 THEN cleaned ELSE new
    BY <1>2 DEF Unsubscribed
  <2> HIDE DEF new
  <2>4. TableOK(new)
    <3>1. \A u \in DOMAIN table : new[u] \in Seq(AnEntry)
      BY <1>2, <2>1, <2>2, DeactivatingKeeps
    <3> QED BY <2>2, <3>1 DEF TableOK
  <2>5. ASSUME NEW u, NEW n
        PROVE  Holds(new, u, n) <=> Holds(table, u, n) /\ <<u, n>> # <<t, id>>
    <3>1. CASE u = t
      <4>1. (\E k \in DOMAIN new[t] : new[t][k] = Entry(n))
              <=> n # id /\ \E k \in DOMAIN table[t] : table[t][k] = Entry(n)
        BY <1>2, <2>1, <2>2, DeactivatingKeeps
      <4> QED BY <1>2, <2>2, <3>1, <4>1 DEF Holds
    <3>2. CASE u # t
      BY <2>2, <3>2 DEF Holds
    <3> QED BY <3>1, <3>2
  <2>6. Extends(table, new)
    <3>1. ASSUME NEW u \in DOMAIN table
          PROVE  /\ Len(table[u]) <= Len(new[u])
                 /\ \A k \in 1..Len(table[u]) : new[u][k].id = table[u][k].id
      <4>1. Len(table[u]) \in Nat
        BY <2>1
      <4>2. CASE u = t
        BY <2>1, <2>2, <4>1, <4>2, DeactivatingKeeps
      <4>3. CASE u # t
        BY <2>2, <4>1, <4>3
      <4> QED BY <4>2, <4>3
    <3> QED BY <2>2, <3>1 DEF Extends
  <2> HIDE DEF cleaned
  <2>7. /\ TableOK(cleaned)
        /\ \A u, n : Holds(cleaned, u, n) <=> Holds(new, u, n)
        /\ \A u \in DOMAIN cleaned : IF u \in {t} THEN AllActive(cleaned, u)
                                     ELSE u \in DOMAIN new /\ cleaned[u] = new[u]
    BY <2>4, CleaningKeeps DEF cleaned
  <2>8. CASE publishDepth = 0
    <3>1. Unsubscribed(t, id) = cleaned
      BY <2>3, <2>8
    <3>2. \A u \in DOMAIN cleaned : IF u = t THEN AllActive(cleaned, u)
                                   ELSE u \in DOMAIN table /\ cleaned[u] = table[u]
      BY <2>2, <2>7
    <3> QED BY <2>5, <2>7, <2>8, <3>1, <3>2
  <2>9. CASE publishDepth # 0
    <3>1. Unsubscribed(t, id) = new
      BY <2>3, <2>9
    <3> QED BY <2>4, <2>5, <2>6, <2>9, <3>1
  <2> QED BY <2>8, <2>9
<1> QED BY <1>1, <1>2

LEMMA SubscribingKeeps ==
  ASSUME TableOK(table), NEW t \in Topics, nextId \in Nat, Subscribe(t)
  PROVE  /\ TableOK(table')
         /\ \A u, n : Holds(table', u, n)
                      <=> Holds(table, u, n) \/ <<u, n>> = <<t, nextId>>
         /\ Extends(table, table')
         /\ \A u \in DOMAIN table' :
              \/ u \in DOMAIN table /\ table'[u] = table[u]
              \/ u \in DOMAIN table /\ table'[u] = Append(table[u], Entry(nextId))
              \/ table'[u] = <<Entry(nextId)>>
<1> DEFINE entry == Entry(nextId)
<1>1. entry \in AnEntry
  BY DEF Entry, AnEntry
<1>2. \A n : Entry(n) = entry <=> n = nextId
  BY DEF Entry
<1>3. /\ DOMAIN table' = DOMAIN table \cup {t}
      /\ \A u \in DOMAIN table : u # t => table'[u] = table[u]
      /\ t \in DOMAIN table => table'[t] = Append(table[t], entry)
      /\ t \notin DOMAIN table => table'[t] = <<entry>>
      /\ table' = [u \in DOMAIN table' |-> table'[u]]
  BY DEF Subscribe
<1>4. \A u \in DOMAIN table : table[u] \in Seq(AnEntry)
  BY DEF TableOK
<1> HIDE DEF entry
<1>5. ASSUME NEW u \in DOMAIN table'
      PROVE  table'[u] \in Seq(AnEntry)
  <2>1. <<entry>> \in Seq(AnEntry)
    BY <1>1
  <2>2. \A a \in Seq(AnEntry) : Append(a, entry) \in Seq(AnEntry)
    BY <1>1
  <2> QED BY <1>3, <1>4, <2>1, <2>2
<1>6. TableOK(table')
  BY <1>3, <1>5 DEF TableOK
<1>7. ASSUME NEW u, NEW n
      PROVE Holds(table', u, n) <=> Holds(table, u, n) \/ <<u, n>> = <<t, nextId>>
  <2>1. CASE u # t
    BY <1>3, <2>1 DEF Holds
  <2>2. CASE u = t /\ t \in DOMAIN table
    <3> DEFINE a == table[t]
               b == table'[t]
    <3>1. a \in Seq(AnEntry) /\ b = Append(a, entry)
      BY <1>3, <1>4, <2>2
    <3> HIDE DEF a, b
    <3>2. /\ DOMAIN a = 1..Len(a) /\ DOMAIN b = 1..(Len(a) + 1) /\ Len(a) \in Nat
          /\ b[Len(a) + 1] = entry /\ \A k \in 1..Len(a) : b[k] = a[k]
      BY <1>1, <3>1
    <3>3. \A k \in 1..(Len(a) + 1) : k = Len(a) + 1 \/ k \in 1..Len(a)
      BY <3>2
    <3>4. \A k \in 1..Len(a) : k \in 1..(Len(a) + 1)
      BY <3>2
    <3>5. Len(a) + 1 \in 1..(Len(a) + 1)
      BY <3>2
    <3>6. (\E k \in DOMAIN b : b[k] = Entry(n))
            <=> entry = Entry(n) \/ \E k \in DOMAIN a : a[k] = Entry(n)
      BY <3>2, <3>3, <3>4, <3>5
    <3> QED BY <1>2, <1>3, <2>2, <3>6 DEF Holds, a, b
  <2>3. CASE u = t /\ t \notin DOMAIN table
    <3>1. DOMAIN <<entry>> = {1} /\ <<entry>>[1] = entry
      OBVIOUS
    <3> QED BY <1>2, <1>3, <2>3, <3>1 DEF Holds
  <2> QED BY <2>1, <2>2, <2>3
<1>8. Extends(table, table')
  <2>1. ASSUME NEW u \in DOMAIN table
        PROVE  /\ Len(table[u]) <= Len(table'[u])
               /\ \A k \in 1..Len(table[u]) : table'[u][k].id = table[u][k].id
    <3> DEFINE a == table[u]
               b == table'[u]
    <3>1. a \in Seq(AnEntry)
      BY <1>4
    <3>2. b = a \/ b = Append(a, entry)
      BY <1>3
    <3> HIDE DEF a, b
    <3>3. /\ Len(a) <= Len(b)
          /\ \A k \in 1..Len(a) : b[k] = a[k]
      BY <1>1, <3>1, <3>2
    <3> QED BY <3>3 DEF a, b
  <2> QED BY <1>3, <2>1 DEF Extends
<1> QED BY <1>3, <1>6, <1>7, <1>8 DEF entry

-----------------------------------------------------------------------------
(* The publishes under way *)

\* What the invariant says of a publish.
FrameOK(tbl, f) ==
  /\ f.topic \in DOMAIN tbl
  /\ f.initialSize <= Len(tbl[f.topic])
  /\ f.running # None => /\ f.index <= f.initialSize
                         /\ tbl[f.topic][f.index].id = f.running

\* The invariant again, in the terms of the lemmas.
Inv == /\ TableOK(table)
       /\ nextId \in 0..MaxIds
       /\ frames \in Seq(AFrame)
       /\ publishDepth = Len(frames)
       /\ \A k \in 1..Len(frames) : FrameOK(table, frames[k])
       /\ handles = {h \in Topics \X Ids : Holds(table, h[1], h[2])}
       /\ frames = <<>> => \A t \in DOMAIN table : AllActive(table, t)

LEMMA SameInvariant == IInv <=> Inv
<1>1. ASSUME frames \in Seq(AFrame)
      PROVE  ReferencesValid /\ RunningInside
               <=> /\ publishDepth = Len(frames)
                   /\ \A k \in 1..Len(frames) : FrameOK(table, frames[k])
  <2>1. DOMAIN frames = 1..Len(frames)
    BY <1>1
  <2> QED BY <2>1 DEF ReferencesValid, RunningInside, FrameOK
<1>2. NothingLeftBehind
        <=> /\ handles = {h \in Topics \X Ids : Holds(table, h[1], h[2])}
            /\ frames = <<>> => \A t \in DOMAIN table : AllActive(table, t)
  <2>1. {h \in Topics \X Ids : h[1] \in DOMAIN table
                                /\ \E k \in DOMAIN table[h[1]] :
                                     table[h[1]][k] = Entry(h[2])}
          = {h \in Topics \X Ids : Holds(table, h[1], h[2])}
    BY DEF Holds
  <2> QED BY <2>1 DEF NothingLeftBehind, AllActive
<1>3. ASSUME frames \in Seq(AFrame), publishDepth = Len(frames)
      PROVE  publishDepth \in Nat
  BY <1>3
<1>4. handles = {h \in Topics \X Ids : Holds(table, h[1], h[2])}
        => handles \subseteq Topics \X Ids
  OBVIOUS
<1> QED BY <1>1, <1>2, <1>3, <1>4 DEF IInv, Inv, TypeOK, TableOK

LEMMA FramesKept ==
  ASSUME NEW tbl, NEW new, TableOK(tbl), Extends(tbl, new), TableOK(new),
         NEW f \in AFrame, FrameOK(tbl, f)
  PROVE  FrameOK(new, f)
<1>1. f.topic \in DOMAIN tbl /\ f.index \in Nat \ {0} /\ f.initialSize \in Nat
  BY DEF AFrame, FrameOK
<1>2. Len(tbl[f.topic]) \in Nat /\ Len(new[f.topic]) \in Nat
  BY <1>1 DEF TableOK, Extends
<1>3. /\ f.topic \in DOMAIN new
      /\ Len(tbl[f.topic]) <= Len(new[f.topic])
      /\ \A k \in 1..Len(tbl[f.topic]) : new[f.topic][k].id = tbl[f.topic][k].id
  BY <1>1 DEF Extends
<1>4. f.initialSize <= Len(new[f.topic])
  BY <1>1, <1>2, <1>3 DEF FrameOK
<1>5. f.running # None => f.index \in 1..Len(tbl[f.topic])
  BY <1>1, <1>2 DEF FrameOK
<1> QED BY <1>3, <1>4, <1>5 DEF FrameOK

LEMMA InitInv == Init => Inv
<1> SUFFICES ASSUME Init PROVE Inv
  OBVIOUS
<1>1. DOMAIN table = {} /\ table = [t \in {} |-> table[t]]
  BY DEF Init
<1>2. TableOK(table)
  BY <1>1 DEF TableOK
<1>3. frames = <<>> /\ Len(frames) = 0 /\ 1..0 = {} /\ frames \in Seq(AFrame)
  BY DEF Init
<1>4. {h \in Topics \X Ids : Holds(table, h[1], h[2])} = {}
  BY <1>1 DEF Holds
<1>5. nextId \in 0..MaxIds
  BY BoundsAssumption DEF Init
<1> QED BY <1>1, <1>2, <1>3, <1>4, <1>5 DEF Init, Inv

LEMMA SubscribeInv ==
  ASSUME Inv, NEW t \in Topics, Subscribe(t) PROVE Inv'
<1>1. nextId \in Nat /\ MaxIds \in Nat /\ nextId < MaxIds /\ nextId \in Ids
  BY BoundsAssumption DEF Inv, Subscribe, Ids
<1>2. /\ TableOK(table) /\ TableOK(table') /\ Extends(table, table')
      /\ \A u, n : Holds(table', u, n) <=> Holds(table, u, n) \/ <<u, n>> = <<t, nextId>>
  BY <1>1, SubscribingKeeps DEF Inv
<1>3. nextId' \in 0..MaxIds
  BY <1>1 DEF Subscribe
<1>4. frames' = frames /\ publishDepth' = publishDepth
  BY DEF Subscribe
<1>5. \A k \in 1..Len(frames) : FrameOK(table', frames[k])
  <2>1. \A k \in 1..Len(frames) : frames[k] \in AFrame /\ FrameOK(table, frames[k])
    BY DEF Inv
  <2> QED BY <1>2, <2>1, FramesKept
<1>6. handles' = {h \in Topics \X Ids : Holds(table', h[1], h[2])}
  <2>1. handles' = handles \cup {<<t, nextId>>}
    BY DEF Subscribe
  <2>2. handles = {h \in Topics \X Ids : Holds(table, h[1], h[2])}
    BY DEF Inv
  <2>3. ASSUME NEW h \in Topics \X Ids
        PROVE  h = <<h[1], h[2]>>
    OBVIOUS
  <2>4. \A h \in Topics \X Ids :
          Holds(table', h[1], h[2]) <=> Holds(table, h[1], h[2]) \/ h = <<t, nextId>>
    BY <1>2, <2>3
  <2>5. <<t, nextId>> \in Topics \X Ids
    BY <1>1
  <2> QED BY <2>1, <2>2, <2>4, <2>5
<1>7. frames = <<>> => \A u \in DOMAIN table' : AllActive(table', u)
  <2> SUFFICES ASSUME frames = <<>>, NEW u \in DOMAIN table'
               PROVE  AllActive(table', u)
    OBVIOUS
  <2>1. Entry(nextId) \in AnEntry /\ Entry(nextId).active = TRUE
    BY <1>1 DEF Entry, AnEntry
  <2>2. u \in DOMAIN table => AllActive(table, u) /\ table[u] \in Seq(AnEntry)
    BY <1>2 DEF Inv, TableOK
  <2>3. \/ u \in DOMAIN table /\ table'[u] = table[u]
        \/ u \in DOMAIN table /\ table'[u] = Append(table[u], Entry(nextId))
        \/ table'[u] = <<Entry(nextId)>>
    BY <1>1, <1>2, SubscribingKeeps
  <2> DEFINE entry == Entry(nextId)
  <2> HIDE DEF entry
  <2>4. CASE u \in DOMAIN table /\ table'[u] = table[u]
    BY <2>2, <2>4 DEF AllActive
  <2>5. CASE u \in DOMAIN table /\ table'[u] = Append(table[u], entry)
    <3>1. /\ \A k \in 1..Len(table[u]) : table[u][k].active
          /\ table[u] \in Seq(AnEntry)
          /\ entry \in AnEntry /\ entry.active
      BY <2>1, <2>2, <2>5 DEF AllActive, entry
    <3>2. /\ DOMAIN table'[u] = 1..(Len(table[u]) + 1)
          /\ table'[u][Len(table[u]) + 1] = entry
          /\ \A k \in 1..Len(table[u]) : table'[u][k] = table[u][k]
          /\ table'[u] # <<>>
      BY <2>5, <3>1
    <3>3. \A k \in 1..(Len(table[u]) + 1) :
            k = Len(table[u]) + 1 \/ k \in 1..Len(table[u])
      BY <3>1
    <3> QED BY <3>1, <3>2, <3>3 DEF AllActive
  <2>6. CASE table'[u] = <<entry>>
    <3>1. entry.active /\ DOMAIN <<entry>> = {1} /\ <<entry>>[1] = entry
      BY <2>1 DEF entry
    <3>2. <<entry>> # <<>>
      OBVIOUS
    <3> QED BY <2>6, <3>1, <3>2 DEF AllActive
  <2> QED BY <2>3, <2>4, <2>5, <2>6 DEF entry
<1> QED BY <1>2, <1>3, <1>4, <1>5, <1>6, <1>7 DEF Inv

LEMMA ResetInv ==
  ASSUME Inv, NEW h \in handles, Reset(h) PROVE Inv'
<1> DEFINE t == h[1]
           id == h[2]
<1>1. TableOK(table)
  BY DEF Inv
<1>2. /\ frames' = frames /\ publishDepth' = publishDepth /\ nextId' = nextId
      /\ table' = Unsubscribed(t, id)
      /\ handles' = handles \ {h}
  BY DEF Reset
<1>3. h \in Topics \X Ids /\ h = <<t, id>>
  BY DEF Inv
<1> HIDE DEF t, id
<1>4. /\ TableOK(table')
      /\ \A u, n : Holds(table', u, n) <=> Holds(table, u, n) /\ <<u, n>> # <<t, id>>
      /\ publishDepth # 0 => Extends(table, table')
      /\ publishDepth = 0 =>
           \A u \in DOMAIN table' :
             IF u = t THEN AllActive(table', u)
             ELSE u \in DOMAIN table /\ table'[u] = table[u]
  BY <1>1, <1>2, UnsubscribingKeeps
<1>5. \A k \in 1..Len(frames) : FrameOK(table', frames[k])
  <2>1. \A k \in 1..Len(frames) : frames[k] \in AFrame /\ FrameOK(table, frames[k])
    BY DEF Inv
  <2>2. publishDepth = 0 => 1..Len(frames) = {}
    BY DEF Inv
  <2> QED BY <1>1, <1>4, <2>1, <2>2, FramesKept
<1>6. handles' = {g \in Topics \X Ids : Holds(table', g[1], g[2])}
  <2>1. handles = {g \in Topics \X Ids : Holds(table, g[1], g[2])}
    BY DEF Inv
  <2>2. ASSUME NEW g \in Topics \X Ids
        PROVE  g = <<g[1], g[2]>>
    OBVIOUS
  <2>3. \A g \in Topics \X Ids :
          Holds(table', g[1], g[2]) <=> Holds(table, g[1], g[2]) /\ g # h
    BY <1>3, <1>4, <2>2
  <2> QED BY <1>2, <2>1, <2>3
<1>7. frames = <<>> => \A u \in DOMAIN table' : AllActive(table', u)
  <2> SUFFICES ASSUME frames = <<>>, NEW u \in DOMAIN table'
               PROVE  AllActive(table', u)
    OBVIOUS
  <2>1. publishDepth = 0
    BY DEF Inv
  <2>2. IF u = t THEN AllActive(table', u)
        ELSE u \in DOMAIN table /\ table'[u] = table[u]
    BY <1>4, <2>1
  <2>3. \A v \in DOMAIN table : AllActive(table, v)
    BY DEF Inv
  <2> QED BY <2>2, <2>3 DEF AllActive
<1> QED BY <1>2, <1>4, <1>5, <1>6, <1>7 DEF Inv

LEMMA PublishInv ==
  ASSUME Inv, NEW t \in Topics, Publish(t) PROVE Inv'
<1> DEFINE f == [topic |-> t, index |-> 1, running |-> None,
                 initialSize |-> Len(table[t])]
<1>1. /\ t \in DOMAIN table /\ publishDepth' = publishDepth + 1
      /\ frames' = Append(frames, f)
      /\ table' = table /\ nextId' = nextId /\ handles' = handles
  BY DEF Publish
<1>2. Len(table[t]) \in Nat
  BY <1>1 DEF Inv, TableOK
<1>3. f \in AFrame /\ FrameOK(table, f)
  BY <1>1, <1>2 DEF AFrame, FrameOK
<1> HIDE DEF f
<1>4. frames \in Seq(AFrame) /\ publishDepth = Len(frames)
  BY DEF Inv
<1>5. /\ frames' \in Seq(AFrame) /\ Len(frames') = Len(frames) + 1
      /\ frames' # <<>>
      /\ \A k \in 1..Len(frames') :
           frames'[k] = f \/ (k \in 1..Len(frames) /\ frames'[k] = frames[k])
  BY <1>1, <1>3, <1>4
<1>6. \A k \in 1..Len(frames') : FrameOK(table, frames'[k])
  BY <1>3, <1>5 DEF Inv
<1>7. publishDepth' = Len(frames')
  BY <1>1, <1>4, <1>5
<1> QED BY <1>1, <1>5, <1>6, <1>7 DEF Inv

\* A step of the innermost publish that stays in its loop.
LEMMA TopInv ==
  ASSUME Inv, frames # <<>>, NEW f \in AFrame, FrameOK(table, f), ReplaceTop(f),
         UNCHANGED <<table, nextId, publishDepth, handles>>
  PROVE  Inv'
<1>1. frames \in Seq(AFrame) /\ publishDepth = Len(frames)
  BY DEF Inv
<1>2. Len(frames) \in Nat \ {0} /\ Len(frames) \in 1..Len(frames)
  BY <1>1
<1>3. frames' = [frames EXCEPT ![Len(frames)] = f]
  BY DEF ReplaceTop
<1>4. /\ frames' \in Seq(AFrame) /\ Len(frames') = Len(frames)
      /\ \A k \in 1..Len(frames) : frames'[k] = f \/ frames'[k] = frames[k]
  BY <1>1, <1>2, <1>3
<1>5. frames' # <<>>
  BY <1>2, <1>4
<1>6. \A k \in 1..Len(frames') : FrameOK(table, frames'[k])
  BY <1>4 DEF Inv
<1> QED BY <1>1, <1>4, <1>5, <1>6 DEF Inv

LEMMA TopFrame ==
  ASSUME Inv, frames # <<>>
  PROVE  /\ Top \in AFrame
         /\ FrameOK(table, Top)
         /\ table[Top.topic] \in Seq(AnEntry)
         /\ Top.index \in Nat \ {0} /\ Top.initialSize \in Nat
<1>1. Len(frames) \in 1..Len(frames) /\ frames \in Seq(AFrame)
  BY DEF Inv
<1>2. Top \in AFrame /\ FrameOK(table, Top)
  BY <1>1 DEF Inv, Top
<1> QED BY <1>2 DEF Inv, AFrame, FrameOK, TableOK

LEMMA InvokeInv == ASSUME Inv, Invoke PROVE Inv'
<1>1. frames # <<>>
  BY DEF Invoke, Looping
<1> DEFINE f == [Top EXCEPT !.running = table[Top.topic][Top.index].id]
<1>2. Top.index <= Top.initialSize /\ Top.initialSize <= Len(table[Top.topic])
      /\ Top.topic \in DOMAIN table
  BY <1>1, TopFrame DEF Invoke, Inside, FrameOK
<1>3. table[Top.topic][Top.index] \in AnEntry
  <2>1. Top.index \in 1..Len(table[Top.topic])
    BY <1>1, <1>2, TopFrame
  <2> QED BY <1>1, <2>1, TopFrame
<1>4. /\ f \in AFrame
      /\ f.topic = Top.topic /\ f.index = Top.index
      /\ f.initialSize = Top.initialSize
      /\ f.running = table[Top.topic][Top.index].id
  BY <1>1, <1>3, TopFrame DEF AFrame, AnEntry
<1>5. FrameOK(table, f)
  <2> HIDE DEF f
  <2> QED BY <1>2, <1>4 DEF FrameOK
<1>6. ReplaceTop(f) /\ UNCHANGED <<table, nextId, publishDepth, handles>>
  BY DEF Invoke
<1> HIDE DEF f
<1> QED BY <1>1, <1>4, <1>5, <1>6, TopInv

LEMMA SkipInv == ASSUME Inv, SkipInactive PROVE Inv'
<1>1. frames # <<>> /\ Top.running = None
  BY DEF SkipInactive, Looping
<1> DEFINE f == [Top EXCEPT !.index = @ + 1]
<1>2. /\ f \in AFrame /\ f.topic = Top.topic /\ f.running = None
      /\ f.initialSize = Top.initialSize
  BY <1>1, TopFrame DEF AFrame
<1>3. FrameOK(table, f)
  <2> HIDE DEF f
  <2> QED BY <1>1, <1>2, TopFrame DEF FrameOK
<1>4. ReplaceTop(f) /\ UNCHANGED <<table, nextId, publishDepth, handles>>
  BY DEF SkipInactive
<1> HIDE DEF f
<1> QED BY <1>1, <1>2, <1>3, <1>4, TopInv

LEMMA ReturnInv == ASSUME Inv, HandlerReturns PROVE Inv'
<1>1. frames # <<>>
  BY DEF HandlerReturns
<1> DEFINE f == [Top EXCEPT !.running = None, !.index = @ + 1]
<1>2. /\ f \in AFrame /\ f.topic = Top.topic /\ f.running = None
      /\ f.initialSize = Top.initialSize
  <2> DEFINE top == Top
  <2>1. /\ top \in [topic : Topics, index : Nat \ {0}, running : Nat \cup {None},
                     initialSize : Nat]
        /\ top.index + 1 \in Nat \ {0}
    BY <1>1, TopFrame DEF AFrame
  <2>2. f = [[top EXCEPT !.running = None] EXCEPT !.index = top.index + 1]
    BY <2>1
  <2> HIDE DEF top
  <2> QED BY <2>1, <2>2 DEF AFrame, top
<1>3. FrameOK(table, f)
  <2> HIDE DEF f
  <2> QED BY <1>1, <1>2, TopFrame DEF FrameOK
<1>4. ReplaceTop(f) /\ UNCHANGED <<table, nextId, publishDepth, handles>>
  BY DEF HandlerReturns
<1> HIDE DEF f
<1> QED BY <1>1, <1>2, <1>3, <1>4, TopInv

LEMMA EndInv == ASSUME Inv, EndPublish PROVE Inv'
<1> DEFINE cleaned == Cleaned(table, DOMAIN table)
<1>1. /\ frames # <<>>
      /\ frames' = SubSeq(frames, 1, Len(frames) - 1)
      /\ publishDepth' = publishDepth - 1
      /\ table' = IF publishDepth' = 0 THEN cleaned ELSE table
      /\ nextId' = nextId /\ handles' = handles
  BY DEF EndPublish, Looping
<1> HIDE DEF cleaned
<1>2. frames \in Seq(AFrame) /\ publishDepth = Len(frames)
  BY DEF Inv
<1>3. /\ frames' \in Seq(AFrame) /\ Len(frames') = Len(frames) - 1
      /\ \A k \in 1..Len(frames') : k \in 1..Len(frames) /\ frames'[k] = frames[k]
  BY <1>1, <1>2
<1>4. publishDepth' = Len(frames') /\ Len(frames') \in Nat
  BY <1>1, <1>2, <1>3
<1>5. CASE publishDepth' = 0
  <2>1. table' = cleaned /\ 1..Len(frames') = {}
    BY <1>1, <1>4, <1>5
  <2>2. /\ TableOK(cleaned)
        /\ \A t, id : Holds(cleaned, t, id) <=> Holds(table, t, id)
        /\ \A t \in DOMAIN cleaned :
             IF t \in DOMAIN table THEN AllActive(cleaned, t)
             ELSE t \in DOMAIN table /\ cleaned[t] = table[t]
    BY CleaningKeeps DEF Inv, cleaned
  <2>3. \A t \in DOMAIN cleaned : AllActive(cleaned, t)
    BY <2>2
  <2>4. handles = {h \in Topics \X Ids : Holds(cleaned, h[1], h[2])}
    BY <2>2 DEF Inv
  <2> QED BY <1>1, <1>3, <1>4, <2>1, <2>2, <2>3, <2>4 DEF Inv
<1>6. CASE publishDepth' # 0
  <2>1. table' = table /\ frames' # <<>>
    BY <1>1, <1>4, <1>6
  <2> QED BY <1>1, <1>3, <1>4, <2>1 DEF Inv
<1> QED BY <1>5, <1>6

LEMMA NextInv == Inv /\ [Next]_vars => Inv'
<1> SUFFICES ASSUME Inv, [Next]_vars PROVE Inv'
  OBVIOUS
<1>1. ASSUME NEW t \in Topics, Subscribe(t) PROVE Inv'
  BY <1>1, SubscribeInv
<1>2. ASSUME NEW t \in Topics, Publish(t) PROVE Inv'
  BY <1>2, PublishInv
<1>3. ASSUME NEW h \in handles, Reset(h) PROVE Inv'
  BY <1>3, ResetInv
<1>4. CASE Invoke
  BY <1>4, InvokeInv
<1>5. CASE SkipInactive
  BY <1>5, SkipInv
<1>6. CASE HandlerReturns
  BY <1>6, ReturnInv
<1>7. CASE EndPublish
  BY <1>7, EndInv
<1>8. CASE UNCHANGED vars
  BY <1>8 DEF vars, Inv, TableOK, Holds, FrameOK, AllActive
<1> QED BY <1>1, <1>2, <1>3, <1>4, <1>5, <1>6, <1>7, <1>8 DEF Next

-----------------------------------------------------------------------------

(***************************************************************************)
(* The inductive invariant: besides what the next theorems state, that a   *)
(* running handler's entry is among those that its publish set out to call.*)
(***************************************************************************)
THEOREM Invariance == Spec => []IInv
<1>1. Init => Inv
  BY InitInv
<1>2. Inv /\ [Next]_vars => Inv'
  BY NextInv
<1>3. Inv <=> IInv
  BY SameInvariant
<1> QED BY <1>1, <1>2, <1>3, PTL DEF Spec

(***************************************************************************)
(* The table maps topics to vectors of entries, the publishes' locals are  *)
(* in range and publishDepth never goes below zero.                        *)
(***************************************************************************)
THEOREM TypeCorrect == Spec => []TypeOK
<1>1. IInv => TypeOK
  BY DEF IInv
<1> QED BY <1>1, Invariance, PTL

(***************************************************************************)
(* However deep publishes nest and whatever handlers call, the vector that *)
(* a publish walks (EventBus::publish) stays where it is, as long as it    *)
(* was at least, and the running handler's entry stays at the index.       *)
(***************************************************************************)
THEOREM WalksStayValid == Spec => []ReferencesValid
<1>1. IInv => ReferencesValid
  BY DEF IInv
<1> QED BY <1>1, Invariance, PTL

(***************************************************************************)
(* The deferred removal (EventBus::unsubscribe and cleanup) loses no       *)
(* subscription that has not been reset, and leaves neither an inactive    *)
(* entry nor an empty topic when no publish is under way.                  *)
(***************************************************************************)
THEOREM RemovalComplete == Spec => []NothingLeftBehind
<1>1. IInv => NothingLeftBehind
  BY DEF IInv
<1> QED BY <1>1, Invariance, PTL

-----------------------------------------------------------------------------
(* What EventBus and PubSub make of sequences                              *)

LEMMA IdsOfSteps ==
  /\ IdsOf(<<>>) = <<>>
  /\ \A s \in Seq(AnEntry) : IdsOf(s) \in Seq(Nat)
  /\ \A s \in Seq(AnEntry), e \in AnEntry :
       IdsOf(Append(s, e)) = IF e.active THEN Append(IdsOf(s), e.id) ELSE IdsOf(s)
<1>1. IdsOf(<<>>) = <<>>
  <2>1. DOMAIN <<>> = {}
    OBVIOUS
  <2>2. [k \in {} |-> Active(<<>>)[k].id] = <<>>
    OBVIOUS
  <2> QED BY <2>1, <2>2, ActiveSteps DEF IdsOf
<1>2. ASSUME NEW a \in Seq(AnEntry)
      PROVE  [k \in DOMAIN a |-> a[k].id] \in Seq(Nat)
  <2>1. DOMAIN a = 1..Len(a) /\ Len(a) \in Nat /\ \A k \in 1..Len(a) : a[k] \in AnEntry
    OBVIOUS
  <2>2. \A k \in 1..Len(a) : a[k].id \in Nat
    BY <2>1 DEF AnEntry
  <2> QED BY <2>1, <2>2
<1>3. \A s \in Seq(AnEntry) : IdsOf(s) \in Seq(Nat)
  BY <1>2, ActiveKeeps DEF IdsOf
<1>4. ASSUME NEW a \in Seq(AnEntry), NEW e \in AnEntry
      PROVE  [k \in DOMAIN Append(a, e) |-> Append(a, e)[k].id]
               = Append([k \in DOMAIN a |-> a[k].id], e.id)
  <2> DEFINE n == Len(a)
             b == Append(a, e)
             ids == [k \in 1..n |-> a[k].id]
             more == [k \in 1..(n + 1) |-> b[k].id]
  <2>1. /\ n \in Nat /\ DOMAIN a = 1..n /\ DOMAIN b = 1..(n + 1)
        /\ b[n + 1] = e /\ \A k \in 1..n : b[k] = a[k] /\ a[k].id \in Nat
        /\ e.id \in Nat
    <3>1. \A k \in 1..n : a[k] \in AnEntry
      OBVIOUS
    <3>2. (\A k \in 1..n : a[k].id \in Nat) /\ e.id \in Nat
      BY <3>1 DEF AnEntry
    <3> QED BY <3>2
  <2> HIDE DEF b, n
  <2>2. /\ ids \in Seq(Nat) /\ Len(ids) = n /\ \A k \in 1..n : ids[k] = a[k].id
    BY <2>1
  <2>3. \A k \in 1..(n + 1) : more[k] = IF k = n + 1 THEN e.id ELSE ids[k]
    BY <2>1, <2>2
  <2>4. more \in [1..(n + 1) -> Nat]
    <3>1. \A k \in 1..(n + 1) : b[k].id \in Nat
      BY <2>1
    <3> QED BY <3>1
  <2>5. DOMAIN more = 1..(n + 1)
    OBVIOUS
  <2> HIDE DEF ids, more
  <2>6. more = Append(ids, e.id)
    BY <2>1, <2>2, <2>3, <2>4, <2>5
  <2> QED BY <2>1, <2>6 DEF b, ids, more
<1>5. ASSUME NEW s \in Seq(AnEntry), NEW e \in AnEntry
      PROVE  IdsOf(Append(s, e)) = IF e.active THEN Append(IdsOf(s), e.id) ELSE IdsOf(s)
  <2>1. Active(s) \in Seq(AnEntry)
    BY ActiveKeeps
  <2>2. Active(Append(s, e)) = IF e.active THEN Append(Active(s), e) ELSE Active(s)
    BY ActiveSteps
  <2>3. CASE e.active
    BY <1>4, <2>1, <2>2, <2>3 DEF IdsOf
  <2>4. CASE ~e.active
    BY <2>2, <2>4 DEF IdsOf
  <2> QED BY <2>3, <2>4
<1> QED BY <1>1, <1>3, <1>5

LEMMA WithoutSteps ==
  ASSUME NEW id
  PROVE  /\ Bus!Without(<<>>, id) = <<>>
         /\ \A ids \in Seq(Nat), i \in Nat :
              Bus!Without(Append(ids, i), id) =
                IF i # id THEN Append(Bus!Without(ids, id), i) ELSE Bus!Without(ids, id)
<1>1. \A ids, kept : Bus!Keep(ids, kept) = Keep(ids, kept)
  BY DEF Bus!Keep, Keep
<1>2. Bus!Without(<<>>, id) = <<>>
  BY <1>1, KeepEmpty DEF Bus!Without
<1>3. ASSUME NEW ids \in Seq(Nat), NEW i \in Nat
      PROVE  Bus!Without(Append(ids, i), id) =
               IF i # id THEN Append(Bus!Without(ids, id), i) ELSE Bus!Without(ids, id)
  <2> DEFINE z == Append(ids, i)
             n == Len(ids)
             kept == {k \in DOMAIN z : z[k] # id}
             old == {k \in DOMAIN ids : ids[k] # id}
  <2>1. /\ n \in Nat /\ DOMAIN z = 1..(n + 1) /\ DOMAIN ids = 1..n
        /\ z[n + 1] = i /\ \A k \in 1..n : z[k] = ids[k] /\ k \in 1..(n + 1)
        /\ n + 1 \in 1..(n + 1)
    OBVIOUS
  <2>2. (n + 1 \in kept <=> i # id) /\ \A k \in 1..n : k \in kept <=> k \in old
    BY <2>1
  <2> HIDE DEF z, kept, old
  <2>3. Keep(Append(ids, i), kept) =
          IF Len(ids) + 1 \in kept THEN Append(Keep(ids, old), i) ELSE Keep(ids, old)
    BY <2>2, KeepAppend
  <2>4. /\ Bus!Without(Append(ids, i), id) = Keep(Append(ids, i), kept)
        /\ Bus!Without(ids, id) = Keep(ids, old)
    BY <1>1 DEF Bus!Without, z, kept, old
  <2> QED BY <2>2, <2>3, <2>4
<1> QED BY <1>2, <1>3

\* To filter twice is to filter once.
LEMMA ActiveOnce ==
  ASSUME NEW s \in Seq(AnEntry)
  PROVE  IdsOf(Active(s)) = IdsOf(s)
<1> DEFINE T == {z \in Seq(AnEntry) : IdsOf(Active(z)) = IdsOf(z)}
<1>1. <<>> \in T
  BY ActiveSteps
<1>2. ASSUME NEW z \in T, NEW e \in AnEntry PROVE Append(z, e) \in T
  <2>1. Append(z, e) \in Seq(AnEntry) /\ Active(z) \in Seq(AnEntry)
    BY ActiveKeeps
  <2>2. CASE e.active
    <3>1. Active(Append(z, e)) = Append(Active(z), e)
      BY <2>2, ActiveSteps
    <3>2. IdsOf(Append(Active(z), e)) = Append(IdsOf(Active(z)), e.id)
      BY <2>1, <2>2, IdsOfSteps
    <3>3. IdsOf(Append(z, e)) = Append(IdsOf(z), e.id)
      BY <2>2, IdsOfSteps
    <3> QED BY <2>1, <3>1, <3>2, <3>3
  <2>3. CASE ~e.active
    <3>1. Active(Append(z, e)) = Active(z) /\ IdsOf(Append(z, e)) = IdsOf(z)
      BY <2>3, ActiveSteps, IdsOfSteps
    <3> QED BY <2>1, <3>1
  <2> QED BY <2>2, <2>3
<1> HIDE DEF T
<1>3. T \in SUBSET Seq(AnEntry)
  BY DEF T
<1>4. T = Seq(AnEntry)
  BY <1>1, <1>2, <1>3, SeqInduction
<1> QED BY <1>4 DEF T

\* To deactivate an entry is to take its id away.
LEMMA DeactivatedGone ==
  ASSUME NEW id, NEW s \in Seq(AnEntry)
  PROVE  IdsOf(Deactivated(s, id)) = Bus!Without(IdsOf(s), id)
<1> DEFINE Off(e) == IF e.id = id THEN [e EXCEPT !.active = FALSE] ELSE e
           T == {z \in Seq(AnEntry) :
                   IdsOf(Deactivated(z, id)) = Bus!Without(IdsOf(z), id)}
<1>1. <<>> \in T
  <2>1. DOMAIN <<>> = {} /\ <<>> \in Seq(AnEntry)
    OBVIOUS
  <2>2. Deactivated(<<>>, id) = <<>>
    BY <2>1 DEF Deactivated
  <2> QED BY <2>1, <2>2, IdsOfSteps, WithoutSteps
<1>2. ASSUME NEW e \in AnEntry
      PROVE  /\ Off(e) \in AnEntry /\ Off(e).id = e.id
             /\ Off(e).active <=> e.active /\ e.id # id
  BY DEF AnEntry
<1>3. ASSUME NEW z \in Seq(AnEntry), NEW e \in AnEntry
      PROVE  Deactivated(Append(z, e), id) = Append(Deactivated(z, id), Off(e))
  <2> DEFINE a == Append(z, e)
             n == Len(z)
             d == Deactivated(z, id)
             b == Deactivated(a, id)
  <2>1. /\ n \in Nat /\ DOMAIN z = 1..n /\ DOMAIN a = 1..(n + 1)
        /\ a[n + 1] = e /\ \A k \in 1..n : a[k] = z[k] /\ z[k] \in AnEntry
        /\ a \in Seq(AnEntry)
    OBVIOUS
  <2>2. d = [k \in 1..n |-> Off(z[k])]
    BY <2>1 DEF Deactivated
  <2>3. b = [k \in 1..(n + 1) |-> Off(a[k])]
    <3> HIDE DEF a
    <3> QED BY <2>1 DEF Deactivated
  <2>4. d \in Seq(AnEntry) /\ Len(d) = n /\ b \in Seq(AnEntry) /\ Len(b) = n + 1
    <3>1. Len(a) = n + 1 /\ Len(z) = n
      OBVIOUS
    <3> QED BY <2>1, <3>1, DeactivatingKeeps
  <2> HIDE DEF a, n, d, b, Off
  <2>5. \A k \in 1..(n + 1) : k = n + 1 \/ k \in 1..n
    BY <2>1
  <2>6. \A k \in 1..(n + 1) : b[k] = IF k = n + 1 THEN Off(e) ELSE d[k]
    BY <2>1, <2>2, <2>3, <2>5
  <2>7. Off(e) \in AnEntry
    BY <1>2
  <2>8. b = Append(d, Off(e))
    BY <2>1, <2>4, <2>6, <2>7
  <2> QED BY <2>8 DEF a, b, d
<1>4. ASSUME NEW z \in T, NEW e \in AnEntry PROVE Append(z, e) \in T
  <2>1. /\ z \in Seq(AnEntry) /\ Append(z, e) \in Seq(AnEntry)
        /\ IdsOf(Deactivated(z, id)) = Bus!Without(IdsOf(z), id)
        /\ Deactivated(z, id) \in Seq(AnEntry) /\ IdsOf(z) \in Seq(Nat)
        /\ e.id \in Nat
    BY DeactivatingKeeps, IdsOfSteps DEF AnEntry
  <2>2. /\ Deactivated(Append(z, e), id) = Append(Deactivated(z, id), Off(e))
        /\ Off(e) \in AnEntry /\ Off(e).id = e.id
        /\ Off(e).active <=> e.active /\ e.id # id
    BY <1>2, <1>3
  <2> DEFINE o == Off(e)
             d == Deactivated(z, id)
  <2> HIDE DEF o, d
  <2>3. IdsOf(Append(d, o)) = IF o.active THEN Append(IdsOf(d), o.id) ELSE IdsOf(d)
    BY <2>1, <2>2, IdsOfSteps DEF o, d
  <2>4. IdsOf(Append(z, e)) = IF e.active THEN Append(IdsOf(z), e.id) ELSE IdsOf(z)
    BY <2>1, IdsOfSteps
  <2>5. Bus!Without(Append(IdsOf(z), e.id), id) =
          IF e.id # id THEN Append(Bus!Without(IdsOf(z), id), e.id)
          ELSE Bus!Without(IdsOf(z), id)
    BY <2>1, WithoutSteps
  <2>6. IdsOf(Append(d, o)) = Bus!Without(IdsOf(Append(z, e)), id)
    BY <2>1, <2>2, <2>3, <2>4, <2>5 DEF o, d
  <2> QED BY <2>1, <2>2, <2>6 DEF o, d
<1> HIDE DEF T
<1>5. T \in SUBSET Seq(AnEntry)
  BY DEF T
<1>6. T = Seq(AnEntry)
  BY <1>1, <1>4, <1>5, SeqInduction
<1> QED BY <1>6 DEF T

\* A range of a vector, when an entry is appended to the range or the vector.
LEMMA RangeSteps ==
  ASSUME NEW s \in Seq(AnEntry), NEW m \in Nat \ {0}
  PROVE  /\ \A n \in Nat : n < m => SubSeq(s, m, n) = <<>>
         /\ \A n \in 0..Len(s) : SubSeq(s, m, n) \in Seq(AnEntry)
         /\ \A n \in Nat : m <= n + 1 /\ n + 1 <= Len(s) =>
              SubSeq(s, m, n + 1) = Append(SubSeq(s, m, n), s[n + 1])
<1>1. ASSUME NEW n \in Nat, n < m PROVE SubSeq(s, m, n) = <<>>
  <2>1. 1..(1 + n - m) = {}
    BY <1>1
  <2>2. SubSeq(s, m, n) = [k \in 1..(1 + n - m) |-> s[k + m - 1]]
    BY <1>1
  <2> QED BY <2>1, <2>2
<1>2. ASSUME NEW n \in 0..Len(s) PROVE SubSeq(s, m, n) \in Seq(AnEntry)
  OBVIOUS
<1>3. ASSUME NEW n \in Nat, m <= n + 1, n + 1 <= Len(s)
      PROVE  SubSeq(s, m, n + 1) = Append(SubSeq(s, m, n), s[n + 1])
  <2> DEFINE a == SubSeq(s, m, n)
             b == SubSeq(s, m, n + 1)
             i == 1 + n - m
  <2>1. /\ a \in Seq(AnEntry) /\ Len(a) = i /\ i \in Nat
        /\ \A k \in 1..i : a[k] = s[k + m - 1]
    BY <1>3
  <2>2. /\ b \in Seq(AnEntry) /\ Len(b) = i + 1
        /\ \A k \in 1..(i + 1) : b[k] = s[k + m - 1]
    <3>1. 1 + (n + 1) - m = i + 1 /\ i + 1 \in Nat
      BY <1>3
    <3>2. b = [k \in 1..(1 + (n + 1) - m) |-> s[k + m - 1]]
      BY <1>3
    <3>3. \A k \in 1..(i + 1) : k + m - 1 \in 1..Len(s)
      BY <1>3
    <3>4. \A k \in 1..(i + 1) : s[k + m - 1] \in AnEntry
      BY <3>3
    <3> DEFINE F(k) == s[k + m - 1]
               d == i + 1
               l == 1 + (n + 1) - m
    <3>5. d = l /\ d \in Nat /\ b = [k \in 1..l |-> F(k)]
          /\ \A k \in 1..d : F(k) \in AnEntry
      BY <3>1, <3>2, <3>4
    <3> HIDE DEF F, d, l, b
    <3>6. b = [k \in 1..d |-> F(k)]
      BY <3>5
    <3>7. b \in Seq(AnEntry) /\ Len(b) = d /\ \A k \in 1..d : b[k] = F(k)
      BY <3>5, <3>6
    <3> QED BY <3>7 DEF F, d
  <2>3. (i + 1) + m - 1 = n + 1 /\ s[n + 1] \in AnEntry
    BY <1>3
  <2> HIDE DEF a, b, i
  <2>4. \A k \in 1..(i + 1) : k = i + 1 \/ k \in 1..i
    BY <2>1
  <2> QED BY <2>1, <2>2, <2>3, <2>4 DEF a, b
<1> QED BY <1>1, <1>2, <1>3

LEMMA AheadOfAppend ==
  ASSUME NEW i \in Nat, NEW j \in Nat, NEW ids \in Seq(Nat)
  PROVE  <<i>> \o Append(ids, j) = Append(<<i>> \o ids, j)
<1> DEFINE n == Len(ids)
           a == <<i>> \o ids
           b == <<i>> \o Append(ids, j)
           c == Append(a, j)
<1>1. n \in Nat /\ a \in Seq(Nat) /\ b \in Seq(Nat) /\ c \in Seq(Nat)
  OBVIOUS
<1>2. Len(a) = n + 1 /\ Len(b) = n + 2 /\ Len(c) = n + 2
  OBVIOUS
<1>3. a[1] = i /\ \A k \in 1..n : a[k + 1] = ids[k]
  OBVIOUS
<1>4. ASSUME NEW k \in 1..(n + 2) PROVE b[k] = c[k]
  <2>1. CASE k = 1
    BY <2>1
  <2>2. CASE k = n + 2
    BY <2>2
  <2>3. CASE k # 1 /\ k # n + 2
    BY <2>3
  <2> QED BY <2>1, <2>2, <2>3
<1> HIDE DEF a, b, c, n
<1>5. b = c
  BY <1>1, <1>2, <1>4
<1> QED BY <1>5 DEF b, c, a

LEMMA HeadIs ==
  ASSUME NEW i \in Nat, NEW ids \in Seq(Nat)
  PROVE  /\ <<i>> \o ids # <<>>
         /\ Head(<<i>> \o ids) = i
         /\ Tail(<<i>> \o ids) = ids
<1> DEFINE a == <<i>> \o ids
           n == Len(ids)
<1>1. /\ a \in Seq(Nat) /\ Len(a) = n + 1 /\ n \in Nat
      /\ a[1] = i /\ \A k \in 1..n : a[k + 1] = ids[k]
  OBVIOUS
<1>2. Tail(a) \in Seq(Nat) /\ Len(Tail(a)) = n /\ \A k \in 1..n : Tail(a)[k] = a[k + 1]
  BY <1>1
<1> HIDE DEF a
<1>3. Tail(a) = ids
  <2> DEFINE b == Tail(a)
  <2>1. /\ b \in Seq(Nat) /\ ids \in Seq(Nat) /\ Len(b) = Len(ids)
        /\ \A k \in 1..Len(ids) : b[k] = ids[k]
    BY <1>1, <1>2
  <2> HIDE DEF b
  <2>2. b = ids
    BY <2>1
  <2> QED BY <2>2 DEF b
<1>4. a # <<>> /\ Head(a) = i
  BY <1>1
<1> QED BY <1>3, <1>4 DEF a

\* What is left to be called from index m on, told by the entry at m.
LEMMA IdsOfRange ==
  ASSUME NEW s \in Seq(AnEntry), NEW m \in Nat \ {0}, NEW n \in Nat,
         m <= n, n <= Len(s)
  PROVE  IdsOf(SubSeq(s, m, n)) =
           IF s[m].active THEN <<s[m].id>> \o IdsOf(SubSeq(s, m + 1, n))
           ELSE IdsOf(SubSeq(s, m + 1, n))
<1> DEFINE Ahead(ids) == IF s[m].active THEN <<s[m].id>> \o ids ELSE ids
           A(k) == IdsOf(SubSeq(s, m, k))
           B(k) == IdsOf(SubSeq(s, m + 1, k))
           T == {k \in Nat : m <= k /\ k <= Len(s) => A(k) = Ahead(B(k))}
<1>1. \A k \in Nat : k + 1 <= Len(s) =>
        /\ m <= k + 1 => A(k + 1) = IF s[k + 1].active THEN Append(A(k), s[k + 1].id)
                                   ELSE A(k)
        /\ m <= k => B(k + 1) = IF s[k + 1].active THEN Append(B(k), s[k + 1].id)
                               ELSE B(k)
  <2> SUFFICES ASSUME NEW k \in Nat, k + 1 <= Len(s)
               PROVE  /\ m <= k + 1 =>
                           A(k + 1) = IF s[k + 1].active THEN Append(A(k), s[k + 1].id)
                                      ELSE A(k)
                      /\ m <= k =>
                           B(k + 1) = IF s[k + 1].active THEN Append(B(k), s[k + 1].id)
                                      ELSE B(k)
    OBVIOUS
  <2>1. s[k + 1] \in AnEntry /\ k \in 0..Len(s) /\ m + 1 \in Nat \ {0}
    OBVIOUS
  <2>2. SubSeq(s, m, k) \in Seq(AnEntry) /\ SubSeq(s, m + 1, k) \in Seq(AnEntry)
    BY <2>1, RangeSteps
  <2>3. m <= k + 1 => SubSeq(s, m, k + 1) = Append(SubSeq(s, m, k), s[k + 1])
    BY RangeSteps
  <2>4. m <= k => SubSeq(s, m + 1, k + 1) = Append(SubSeq(s, m + 1, k), s[k + 1])
    <3>1. m <= k => m + 1 <= k + 1
      OBVIOUS
    <3> QED BY <2>1, <3>1, RangeSteps
  <2>5. /\ IdsOf(Append(SubSeq(s, m, k), s[k + 1])) =
              IF s[k + 1].active THEN Append(IdsOf(SubSeq(s, m, k)), s[k + 1].id)
              ELSE IdsOf(SubSeq(s, m, k))
        /\ IdsOf(Append(SubSeq(s, m + 1, k), s[k + 1])) =
              IF s[k + 1].active THEN Append(IdsOf(SubSeq(s, m + 1, k)), s[k + 1].id)
              ELSE IdsOf(SubSeq(s, m + 1, k))
    <3> DEFINE a == SubSeq(s, m, k)
               b == SubSeq(s, m + 1, k)
               e == s[k + 1]
    <3>1. a \in Seq(AnEntry) /\ b \in Seq(AnEntry) /\ e \in AnEntry
      BY <2>1, <2>2
    <3> HIDE DEF a, b, e
    <3>2. /\ IdsOf(Append(a, e)) = IF e.active THEN Append(IdsOf(a), e.id) ELSE IdsOf(a)
          /\ IdsOf(Append(b, e)) = IF e.active THEN Append(IdsOf(b), e.id) ELSE IdsOf(b)
      BY <3>1, IdsOfSteps
    <3> QED BY <3>2 DEF a, b, e
  <2>6. m <= k + 1 =>
          A(k + 1) = IF s[k + 1].active THEN Append(A(k), s[k + 1].id) ELSE A(k)
    BY <2>3, <2>5
  <2>7. m <= k =>
          B(k + 1) = IF s[k + 1].active THEN Append(B(k), s[k + 1].id) ELSE B(k)
    BY <2>4, <2>5
  <2> QED BY <2>6, <2>7
<1>2. \A k \in Nat : /\ k < m => A(k) = <<>>
                     /\ k <= m => B(k) = <<>>
  <2>1. m + 1 \in Nat \ {0} /\ \A k \in Nat : k <= m => k < m + 1
    OBVIOUS
  <2> QED BY <2>1, RangeSteps, IdsOfSteps
<1>3. \A k \in 0..Len(s) : B(k) \in Seq(Nat)
  <2>1. m + 1 \in Nat \ {0}
    OBVIOUS
  <2> QED BY <2>1, RangeSteps, IdsOfSteps
<1>4. \A k \in 1..Len(s) : s[k].id \in Nat
  <2>1. \A k \in 1..Len(s) : s[k] \in AnEntry
    OBVIOUS
  <2> QED BY <2>1 DEF AnEntry
<1>0. Len(s) \in Nat
  OBVIOUS
<1> HIDE DEF A, B
<1>5. 0 \in T
  OBVIOUS
<1>6. ASSUME NEW k \in T PROVE k + 1 \in T
  <2> HIDE DEF Ahead
  <2>0. k \in Nat /\ k + 1 \in Nat /\ (m <= k /\ k <= Len(s) => A(k) = Ahead(B(k)))
    OBVIOUS
  <2> SUFFICES ASSUME m <= k + 1, k + 1 <= Len(s)
               PROVE  A(k + 1) = Ahead(B(k + 1))
    BY <2>0
  <2> USE DEF Ahead
  <2>1. CASE m = k + 1
    <3>1. A(k) = <<>> /\ B(k + 1) = <<>> /\ k + 1 \in 1..Len(s)
      BY <1>0, <1>2, <2>0, <2>1
    <3>2. A(k + 1) = IF s[m].active THEN Append(<<>>, s[m].id) ELSE <<>>
      BY <1>1, <2>0, <2>1, <3>1
    <3>3. s[m].id \in Nat
      BY <1>4, <2>1, <3>1
    <3>4. \A i \in Nat : Append(<<>>, i) = <<i>> \o <<>>
      OBVIOUS
    <3> QED BY <3>1, <3>2, <3>3, <3>4
  <2>2. CASE m # k + 1
    <3>1. m <= k /\ k <= Len(s) /\ k + 1 \in 1..Len(s) /\ k \in 0..Len(s)
          /\ m \in 1..Len(s)
      BY <2>0, <2>2
    <3>2. A(k) = Ahead(B(k))
      <4> HIDE DEF Ahead
      <4> QED BY <2>0, <3>1
    <3>3. /\ A(k + 1) = IF s[k + 1].active THEN Append(A(k), s[k + 1].id) ELSE A(k)
          /\ B(k + 1) = IF s[k + 1].active THEN Append(B(k), s[k + 1].id) ELSE B(k)
      BY <1>1, <2>0, <3>1
    <3>4. s[m].id \in Nat /\ s[k + 1].id \in Nat /\ B(k) \in Seq(Nat)
      BY <1>3, <1>4, <3>1
    <3>5. <<s[m].id>> \o Append(B(k), s[k + 1].id)
            = Append(<<s[m].id>> \o B(k), s[k + 1].id)
      BY <3>4, AheadOfAppend
    <3>6. CASE s[k + 1].active
      BY <3>2, <3>3, <3>5, <3>6
    <3>7. CASE ~s[k + 1].active
      BY <3>2, <3>3, <3>7
    <3> QED BY <3>6, <3>7
  <2> QED BY <2>1, <2>2
<1> HIDE DEF T
<1>7. T \in SUBSET Nat
  BY DEF T
<1>8. T = Nat
  BY <1>5, <1>6, <1>7, Induction
<1> QED BY <1>8 DEF T, A, B

\* A range of a vector that has been appended to, or has an entry deactivated.
LEMMA RangeKept ==
  ASSUME NEW s \in Seq(AnEntry), NEW m \in Nat \ {0}, NEW n \in 0..Len(s)
  PROVE  /\ \A e \in AnEntry : SubSeq(Append(s, e), m, n) = SubSeq(s, m, n)
         /\ \A id : SubSeq(Deactivated(s, id), m, n)
                      = Deactivated(SubSeq(s, m, n), id)
<1> DEFINE i == 1 + n - m
<1>1. /\ DOMAIN s = 1..Len(s) /\ Len(s) \in Nat /\ i \in Int
      /\ \A k \in 1..i : k + m - 1 \in 1..Len(s)
      /\ \A z : SubSeq(z, m, n) = [k \in 1..i |-> z[k + m - 1]]
  OBVIOUS
<1>2. ASSUME NEW e \in AnEntry
      PROVE  SubSeq(Append(s, e), m, n) = SubSeq(s, m, n)
  <2>1. \A k \in 1..Len(s) : Append(s, e)[k] = s[k]
    OBVIOUS
  <2> HIDE DEF i
  <2> QED BY <1>1, <2>1
<1>3. ASSUME NEW id
      PROVE  SubSeq(Deactivated(s, id), m, n) = Deactivated(SubSeq(s, m, n), id)
  <2> DEFINE a == SubSeq(s, m, n)
             d == Deactivated(s, id)
  <2>1. a = [k \in 1..i |-> s[k + m - 1]] /\ DOMAIN a = 1..i
    BY <1>1
  <2>2. \A k \in 1..Len(s) : d[k] = IF s[k].id = id THEN [s[k] EXCEPT !.active = FALSE]
                                   ELSE s[k]
    BY <1>1 DEF Deactivated
  <2>3. SubSeq(d, m, n) = [k \in 1..i |-> d[k + m - 1]]
    BY <1>1
  <2> HIDE DEF i, a, d
  <2>4. Deactivated(a, id) = [k \in 1..i |-> IF a[k].id = id
                                               THEN [a[k] EXCEPT !.active = FALSE]
                                               ELSE a[k]]
    BY <2>1 DEF Deactivated
  <2>5. \A k \in 1..i : d[k + m - 1] = IF a[k].id = id
                                        THEN [a[k] EXCEPT !.active = FALSE]
                                        ELSE a[k]
    BY <1>1, <2>1, <2>2 DEF i
  <2>6. SubSeq(d, m, n) = Deactivated(a, id)
    BY <2>3, <2>4, <2>5
  <2> QED BY <2>6 DEF a, d
<1> QED BY <1>2, <1>3

LEMMA WholeRange ==
  ASSUME NEW s \in Seq(AnEntry) PROVE SubSeq(s, 1, Len(s)) = s
OBVIOUS

\* No entry has the id: nothing is taken away.
LEMMA NothingGone ==
  ASSUME NEW s \in Seq(AnEntry), NEW id, \A k \in 1..Len(s) : s[k].id # id
  PROVE  Deactivated(s, id) = s /\ Bus!Without(IdsOf(s), id) = IdsOf(s)
<1>1. Deactivated(s, id) = s
  BY DEF Deactivated
<1> QED BY <1>1, DeactivatedGone

-----------------------------------------------------------------------------
(* Whose an id is                                                          *)

\* The table has an entry with the id for the topic.
Enters(tbl, t, id) == /\ t \in DOMAIN tbl
                      /\ \E k \in 1..Len(tbl[t]) : tbl[t][k].id = id

\* Two topics have no id in common, and the ids from n on are free.  (An id that
\* had two entries would take both out of PubSub when one of them is reset.)
Apart(tbl, n) ==
  \A t \in DOMAIN tbl : \A k \in 1..Len(tbl[t]) :
    /\ tbl[t][k].id < n
    /\ \A u \in DOMAIN tbl \ {t} : \A j \in 1..Len(tbl[u]) :
         tbl[u][j].id # tbl[t][k].id

IdsApart == Apart(table, nextId)

LEMMA ApartKept ==
  ASSUME NEW tbl, TableOK(tbl), NEW new, TableOK(new), NEW n \in Nat, NEW m \in Nat,
         n <= m, Apart(tbl, n), NEW t,
         \A u \in DOMAIN new : \A k \in 1..Len(new[u]) :
            \/ u = t /\ new[u][k].id = n /\ n < m
            \/ Enters(tbl, u, new[u][k].id)
  PROVE  Apart(new, m)
<1>1. \A u \in DOMAIN tbl : \A k \in 1..Len(tbl[u]) : tbl[u][k].id \in Nat
  <2>1. \A u \in DOMAIN tbl : \A k \in 1..Len(tbl[u]) : tbl[u][k] \in AnEntry
    BY DEF TableOK
  <2> QED BY <2>1 DEF AnEntry
<1>2. \A u, id : Enters(tbl, u, id) => id \in Nat /\ id < n
  BY <1>1 DEF Apart, Enters
<1>3. \A u, v, id : Enters(tbl, u, id) /\ Enters(tbl, v, id) => u = v
  BY DEF Apart, Enters
<1>4. ASSUME NEW u \in DOMAIN new, NEW k \in 1..Len(new[u])
      PROVE  new[u][k].id < m
  BY <1>2
<1>5. ASSUME NEW u \in DOMAIN new, NEW k \in 1..Len(new[u]),
             NEW v \in DOMAIN new \ {u}, NEW j \in 1..Len(new[v])
      PROVE  new[v][j].id # new[u][k].id
  BY <1>2, <1>3
<1> QED BY <1>4, <1>5 DEF Apart

LEMMA HeldEntered ==
  ASSUME NEW tbl, NEW new, TableOK(tbl), TableOK(new), NEW t \in DOMAIN new,
         AllActive(new, t), \A id : Holds(new, t, id) => Holds(tbl, t, id)
  PROVE  \A k \in 1..Len(new[t]) : Enters(tbl, t, new[t][k].id)
<1> SUFFICES ASSUME NEW k \in 1..Len(new[t]) PROVE Enters(tbl, t, new[t][k].id)
  OBVIOUS
<1>1. new[t] \in Seq(AnEntry) /\ DOMAIN new[t] = 1..Len(new[t])
  BY DEF TableOK
<1>2. new[t][k] \in AnEntry /\ new[t][k].active
  BY <1>1 DEF AllActive
<1>3. new[t][k] = Entry(new[t][k].id)
  BY <1>2 DEF AnEntry, Entry
<1>4. Holds(tbl, t, new[t][k].id)
  BY <1>1, <1>3 DEF Holds
<1>5. DOMAIN tbl[t] = 1..Len(tbl[t])
  BY <1>4 DEF Holds, TableOK
<1> QED BY <1>4, <1>5 DEF Holds, Enters, Entry

LEMMA ApartInit == Init => IdsApart
<1> SUFFICES ASSUME Init PROVE IdsApart
  OBVIOUS
<1>1. DOMAIN table = {}
  BY DEF Init
<1> QED BY <1>1 DEF IdsApart, Apart

LEMMA SubscribeApart ==
  ASSUME Inv, IdsApart, NEW t \in Topics, Subscribe(t) PROVE IdsApart'
<1>1. nextId \in Nat /\ nextId' = nextId + 1 /\ TableOK(table)
  BY BoundsAssumption DEF Inv, Subscribe
<1>2. TableOK(table')
  BY <1>1, SubscribingKeeps
<1>3. /\ DOMAIN table' = DOMAIN table \cup {t}
      /\ \A u \in DOMAIN table : u # t => table'[u] = table[u]
      /\ t \in DOMAIN table => table'[t] = Append(table[t], Entry(nextId))
      /\ t \notin DOMAIN table => table'[t] = <<Entry(nextId)>>
  BY DEF Subscribe
<1>4. Entry(nextId) \in AnEntry /\ Entry(nextId).id = nextId
  BY <1>1 DEF Entry, AnEntry
<1> DEFINE entry == Entry(nextId)
<1> HIDE DEF entry
<1>5. ASSUME NEW u \in DOMAIN table', NEW k \in 1..Len(table'[u])
      PROVE  \/ u = t /\ table'[u][k].id = nextId /\ nextId < nextId + 1
             \/ Enters(table, u, table'[u][k].id)
  <2>1. CASE u # t
    BY <1>3, <2>1 DEF Enters
  <2>2. CASE u = t /\ t \in DOMAIN table
    <3>1. table[t] \in Seq(AnEntry) /\ table'[t] = Append(table[t], entry)
          /\ entry \in AnEntry /\ entry.id = nextId
      BY <1>1, <1>3, <1>4, <2>2 DEF TableOK, entry
    <3>2. table'[t][k] = entry \/ (k \in 1..Len(table[t]) /\ table'[t][k] = table[t][k])
      BY <2>2, <3>1
    <3> QED BY <1>1, <2>2, <3>1, <3>2 DEF Enters
  <2>3. CASE u = t /\ t \notin DOMAIN table
    <3>1. table'[t] = <<entry>> /\ entry.id = nextId
      BY <1>3, <1>4, <2>3 DEF entry
    <3>2. table'[t][k] = entry
      BY <2>3, <3>1
    <3> QED BY <1>1, <2>3, <3>1, <3>2
  <2> QED BY <2>1, <2>2, <2>3
<1>6. Apart(table', nextId + 1)
  <2>1. nextId + 1 \in Nat /\ nextId <= nextId + 1 /\ Apart(table, nextId)
    BY <1>1 DEF IdsApart
  <2> DEFINE old == table
             new == table'
             n == nextId
             m == nextId + 1
  <2>2. /\ TableOK(old) /\ TableOK(new) /\ n \in Nat /\ m \in Nat /\ n <= m
        /\ Apart(old, n)
        /\ \A u \in DOMAIN new : \A k \in 1..Len(new[u]) :
              \/ u = t /\ new[u][k].id = n /\ n < m
              \/ Enters(old, u, new[u][k].id)
    BY <1>1, <1>2, <1>5, <2>1
  <2> HIDE DEF old, new, n, m
  <2>3. Apart(new, m)
    BY <2>2, ApartKept
  <2> QED BY <2>3 DEF new, m
<1> QED BY <1>1, <1>6 DEF IdsApart

\* No step but Subscribe enters an id.
LEMMA ApartStays ==
  ASSUME Inv, Inv', IdsApart, nextId' = nextId,
         \A u \in DOMAIN table' : \A k \in 1..Len(table'[u]) :
           Enters(table, u, table'[u][k].id)
  PROVE  IdsApart'
<1> DEFINE old == table
           new == table'
           n == nextId
<1>1. /\ TableOK(old) /\ TableOK(new) /\ n \in Nat /\ n <= n /\ Apart(old, n)
      /\ \A u \in DOMAIN new : \A k \in 1..Len(new[u]) :
           Enters(old, u, new[u][k].id)
  BY BoundsAssumption DEF Inv, IdsApart
<1> HIDE DEF old, new, n
<1>2. Apart(new, n)
  BY <1>1, ApartKept
<1> QED BY <1>2 DEF IdsApart, new, n

LEMMA ResetApart ==
  ASSUME Inv, Inv', IdsApart, NEW h \in handles, Reset(h) PROVE IdsApart'
<1> DEFINE t == h[1]
           id == h[2]
<1>1. TableOK(table) /\ TableOK(table') /\ nextId' = nextId
      /\ table' = Unsubscribed(t, id)
  BY DEF Inv, Reset
<1> HIDE DEF t, id
<1>2. \A u \in DOMAIN table : table[u] \in Seq(AnEntry)
  BY <1>1 DEF TableOK
<1>3. ASSUME NEW u \in DOMAIN table', NEW k \in 1..Len(table'[u])
      PROVE  Enters(table, u, table'[u][k].id)
  <2>1. CASE publishDepth = 0
    <3>1. /\ \A i : Holds(table', u, i) => Holds(table, u, i)
          /\ IF u = t THEN AllActive(table', u)
             ELSE u \in DOMAIN table /\ table'[u] = table[u]
      BY <1>1, <2>1, UnsubscribingKeeps
    <3>2. CASE u = t
      BY <1>1, <3>1, <3>2, HeldEntered
    <3>3. CASE u # t
      BY <3>1, <3>3 DEF Enters
    <3> QED BY <3>2, <3>3
  <2>2. CASE publishDepth # 0 /\ t \in DOMAIN table
    <3>1. /\ u \in DOMAIN table
          /\ table'[u] = IF u = t THEN Deactivated(table[u], id) ELSE table[u]
      BY <1>1, <2>2 DEF Unsubscribed
    <3>2. Len(table'[u]) = Len(table[u]) /\ table'[u][k].id = table[u][k].id
      BY <1>2, <3>1, DeactivatingKeeps
    <3> QED BY <3>1, <3>2 DEF Enters
  <2>3. CASE t \notin DOMAIN table
    <3>1. table' = table
      BY <1>1, <2>3 DEF Unsubscribed
    <3> QED BY <3>1 DEF Enters
  <2> QED BY <2>1, <2>2, <2>3
<1> QED BY <1>1, <1>3, ApartStays

LEMMA EndApart == ASSUME Inv, Inv', IdsApart, EndPublish PROVE IdsApart'
<1>1. /\ TableOK(table) /\ TableOK(table') /\ nextId' = nextId
      /\ table' = IF publishDepth' = 0 THEN Cleaned(table, DOMAIN table) ELSE table
  BY DEF Inv, EndPublish
<1>2. ASSUME NEW u \in DOMAIN table', NEW k \in 1..Len(table'[u])
      PROVE  Enters(table, u, table'[u][k].id)
  <2>1. CASE table' = table
    BY <2>1 DEF Enters
  <2>2. CASE table' = Cleaned(table, DOMAIN table)
    <3>1. AllActive(table', u) /\ \A i : Holds(table', u, i) => Holds(table, u, i)
      BY <1>1, <2>2, CleaningKeeps
    <3> QED BY <1>1, <3>1, HeldEntered
  <2> QED BY <1>1, <2>1, <2>2
<1> QED BY <1>1, <1>2, ApartStays

LEMMA ApartNext == ASSUME Inv, Inv', IdsApart, [Next]_vars PROVE IdsApart'
<1>1. ASSUME NEW t \in Topics, Subscribe(t) PROVE IdsApart'
  BY <1>1, SubscribeApart
<1>2. ASSUME NEW h \in handles, Reset(h) PROVE IdsApart'
  BY <1>2, ResetApart
<1>3. CASE EndPublish
  BY <1>3, EndApart
<1>4. CASE UNCHANGED <<table, nextId>>
  BY <1>4 DEF IdsApart, Apart
<1> QED BY <1>1, <1>2, <1>3, <1>4
        DEF Next, vars, Publish, Invoke, SkipInactive, HandlerReturns

-----------------------------------------------------------------------------
(* The bus implements PubSub                                               *)

LiveOf(tbl) == [t \in Topics |-> IF t \in DOMAIN tbl THEN IdsOf(tbl[t]) ELSE <<>>]

CallOf(tbl, f) ==
  [pending |-> IdsOf(SubSeq(tbl[f.topic],
                            IF f.running = None THEN f.index ELSE f.index + 1,
                            f.initialSize)),
   running |-> f.running]

\* PubSub's state.
Live == LiveOf(table)
Calls == [k \in DOMAIN frames |-> CallOf(table, frames[k])]

ACall == [pending : Seq(Nat), running : Nat \cup {None}]

LEMMA CallIs ==
  ASSUME NEW tbl, TableOK(tbl), NEW f \in AFrame, FrameOK(tbl, f)
  PROVE  /\ CallOf(tbl, f) \in ACall
         /\ tbl[f.topic] \in Seq(AnEntry)
         /\ f.initialSize \in 0..Len(tbl[f.topic])
         /\ f.index \in Nat \ {0} /\ f.index + 1 \in Nat \ {0}
<1>1. /\ tbl[f.topic] \in Seq(AnEntry)
      /\ f.initialSize \in 0..Len(tbl[f.topic])
      /\ f.index \in Nat \ {0} /\ f.index + 1 \in Nat \ {0}
      /\ f.running \in Nat \cup {None}
  BY DEF TableOK, FrameOK, AFrame
<1>2. \A m \in Nat \ {0} : IdsOf(SubSeq(tbl[f.topic], m, f.initialSize)) \in Seq(Nat)
  BY <1>1, RangeSteps, IdsOfSteps
<1>3. IdsOf(SubSeq(tbl[f.topic], IF f.running = None THEN f.index ELSE f.index + 1,
                   f.initialSize)) \in Seq(Nat)
  BY <1>1, <1>2
<1> QED BY <1>1, <1>3 DEF CallOf, ACall

LEMMA CallsAre ==
  ASSUME Inv
  PROVE  /\ Calls \in Seq(ACall) /\ Len(Calls) = Len(frames)
         /\ DOMAIN frames = 1..Len(frames)
         /\ \A k \in 1..Len(frames) : Calls[k] = CallOf(table, frames[k])
         /\ (Calls # <<>> /\ Calls[Len(Calls)].running = None) <=> Looping
<1>1. frames \in Seq(AFrame) /\ DOMAIN frames = 1..Len(frames) /\ Len(frames) \in Nat
  BY DEF Inv
<1>2. ASSUME NEW k \in 1..Len(frames) PROVE CallOf(table, frames[k]) \in ACall
  <2>1. frames[k] \in AFrame /\ FrameOK(table, frames[k]) /\ TableOK(table)
    BY <1>1 DEF Inv
  <2> QED BY <2>1, CallIs
<1>3. Calls \in Seq(ACall) /\ Len(Calls) = Len(frames)
  BY <1>1, <1>2 DEF Calls
<1>4. \A k \in 1..Len(frames) : Calls[k] = CallOf(table, frames[k])
  BY <1>1 DEF Calls
<1>5. (Calls # <<>> /\ Calls[Len(Calls)].running = None) <=> Looping
  <2>1. CASE Len(frames) = 0
    <3>1. frames = <<>> /\ Calls = <<>>
      BY <1>1, <1>3, <2>1
    <3> QED BY <3>1 DEF Looping
  <2>2. CASE Len(frames) # 0
    <3>1. frames # <<>> /\ Calls # <<>> /\ Len(frames) \in 1..Len(frames)
      BY <1>1, <1>3, <2>2
    <3>2. Calls[Len(Calls)] = CallOf(table, Top)
      BY <1>3, <1>4, <3>1 DEF Top
    <3>3. Calls[Len(Calls)].running = Top.running
      BY <3>2 DEF CallOf
    <3> QED BY <3>1, <3>3 DEF Looping
  <2> QED BY <2>1, <2>2
<1> QED BY <1>1, <1>3, <1>4, <1>5

\* To erase the inactive entries is not seen.
LEMMA CleaningUnseen ==
  ASSUME NEW tbl, TableOK(tbl), NEW ts
  PROVE  LiveOf(Cleaned(tbl, ts)) = LiveOf(tbl)
<1> DEFINE new == Cleaned(tbl, ts)
<1>1. /\ DOMAIN new = {u \in DOMAIN tbl : u \in ts => Active(tbl[u]) # <<>>}
      /\ \A t \in DOMAIN new : new[t] = IF t \in ts THEN Active(tbl[t]) ELSE tbl[t]
  BY DEF Cleaned
<1>2. \A t \in DOMAIN tbl : IdsOf(Active(tbl[t])) = IdsOf(tbl[t])
  BY ActiveOnce DEF TableOK
<1> HIDE DEF new
<1>3. ASSUME NEW t \in Topics
      PROVE  (IF t \in DOMAIN new THEN IdsOf(new[t]) ELSE <<>>)
               = IF t \in DOMAIN tbl THEN IdsOf(tbl[t]) ELSE <<>>
  <2>1. CASE t \in DOMAIN tbl /\ t \in ts
    <3>1. Active(tbl[t]) = <<>> => IdsOf(tbl[t]) = <<>>
      BY <1>2, <2>1, IdsOfSteps
    <3> QED BY <1>1, <1>2, <2>1, <3>1
  <2>2. CASE t \in DOMAIN tbl /\ t \notin ts
    BY <1>1, <2>2
  <2>3. CASE t \notin DOMAIN tbl
    BY <1>1, <2>3
  <2> QED BY <2>1, <2>2, <2>3
<1> QED BY <1>3 DEF LiveOf, new

-----------------------------------------------------------------------------
(* PubSub's steps, in terms of its state *)

LEMMA SubscribesOne ==
  ASSUME Inv, NEW t \in Topics, ~Looping, nextId < MaxIds, nextId' = nextId + 1,
         Live' = [Live EXCEPT ![t] = Append(@, nextId)], Calls' = Calls
  PROVE  Bus!Next
<1>1. ~Bus!Looping
  BY CallsAre DEF Bus!Looping, Calls, CallOf, Pending
<1> QED BY <1>1 DEF Bus!Next, Bus!Subscribe, Live, LiveOf, Calls, CallOf, Pending

LEMMA UnsubscribesOne ==
  ASSUME Inv, NEW id \in Ids, ~Looping, nextId' = nextId,
         Live' = [t \in Topics |-> Bus!Without(Live[t], id)],
         Calls' = [k \in DOMAIN Calls |->
                     [Calls[k] EXCEPT !.pending = Bus!Without(@, id)]]
  PROVE  Bus!Next
<1>1. ~Bus!Looping
  BY CallsAre DEF Bus!Looping, Calls, CallOf, Pending
<1>2. Bus!Unsubscribe(id)
  BY <1>1 DEF Bus!Unsubscribe, Live, LiveOf, Calls, CallOf, Pending
<1> QED BY <1>2 DEF Bus!Next, Ids

LEMMA PublishesOne ==
  ASSUME Inv, NEW t \in Topics, ~Looping, nextId' = nextId, Live' = Live,
         Calls' = Append(Calls, [pending |-> Live[t], running |-> None])
  PROVE  Bus!Next
<1>1. ~Bus!Looping
  BY CallsAre DEF Bus!Looping, Calls, CallOf, Pending
<1> QED BY <1>1 DEF Bus!Next, Bus!Publish, Live, LiveOf, Calls, CallOf, Pending

LEMMA DeliversOne ==
  ASSUME Inv, Looping, nextId' = nextId, Live' = Live,
         NEW call, call = Calls[Len(Calls)], call.pending # <<>>,
         Calls' = [Calls EXCEPT ![Len(Calls)] =
                     [pending |-> Tail(call.pending), running |-> Head(call.pending)]]
  PROVE  Bus!Next
<1>1. Bus!Looping
  BY CallsAre DEF Bus!Looping, Calls, CallOf, Pending
<1> QED BY <1>1
        DEF Bus!Next, Bus!Deliver, Bus!Replace, Live, LiveOf, Calls, CallOf, Pending

LEMMA ReturnsOne ==
  ASSUME Inv, frames # <<>>, ~Looping, nextId' = nextId, Live' = Live,
         Calls' = [Calls EXCEPT ![Len(Calls)] =
                     [Calls[Len(Calls)] EXCEPT !.running = None]]
  PROVE  Bus!Next
<1>1. ~Bus!Looping
  BY CallsAre DEF Bus!Looping, Calls, CallOf, Pending
<1>2. Calls # <<>>
  <2>1. Len(frames) # 0
    BY DEF Inv
  <2> QED BY <2>1, CallsAre
<1> QED BY <1>1, <1>2
        DEF Bus!Next, Bus!Return, Bus!Replace, Live, LiveOf, Calls, CallOf, Pending

LEMMA EndsOne ==
  ASSUME Inv, Looping, nextId' = nextId, Live' = Live,
         Calls[Len(Calls)].pending = <<>>,
         Calls' = SubSeq(Calls, 1, Len(Calls) - 1)
  PROVE  Bus!Next
<1>1. Bus!Looping
  BY CallsAre DEF Bus!Looping, Calls, CallOf, Pending
<1> QED BY <1>1 DEF Bus!Next, Bus!End, Live, LiveOf, Calls, CallOf, Pending

LEMMA Stutters ==
  ASSUME nextId' = nextId, Live' = Live, Calls' = Calls
  PROVE  UNCHANGED Bus!vars
BY DEF Bus!vars, Live, LiveOf, Calls, CallOf, Pending

-----------------------------------------------------------------------------
(* The bus's steps as PubSub's *)

LEMMA SubscribeRefines ==
  ASSUME Inv, NEW t \in Topics, Subscribe(t) PROVE Bus!Next
<1>1. /\ ~Looping /\ nextId < MaxIds /\ nextId' = nextId + 1
      /\ frames' = frames /\ nextId \in Nat /\ TableOK(table)
  BY BoundsAssumption DEF Inv, Subscribe
<1>2. /\ DOMAIN table' = DOMAIN table \cup {t}
      /\ \A u \in DOMAIN table : u # t => table'[u] = table[u]
      /\ t \in DOMAIN table => table'[t] = Append(table[t], Entry(nextId))
      /\ t \notin DOMAIN table => table'[t] = <<Entry(nextId)>>
  BY DEF Subscribe
<1> DEFINE entry == Entry(nextId)
<1>3. entry \in AnEntry /\ entry.id = nextId /\ entry.active
  BY <1>1 DEF Entry, AnEntry
<1>4. \A u \in DOMAIN table : table[u] \in Seq(AnEntry)
  BY <1>1 DEF TableOK
<1> HIDE DEF entry
<1>5. Live' = [Live EXCEPT ![t] = Append(@, nextId)]
  <2> DEFINE after(u) == IF u \in DOMAIN table' THEN IdsOf(table'[u]) ELSE <<>>
             before(u) == IF u \in DOMAIN table THEN IdsOf(table[u]) ELSE <<>>
  <2>1. CASE t \in DOMAIN table
    <3>1. IdsOf(Append(table[t], entry)) = Append(IdsOf(table[t]), nextId)
      BY <1>3, <1>4, <2>1, IdsOfSteps
    <3> QED BY <1>2, <2>1, <3>1 DEF Live, LiveOf, entry
  <2>2. CASE t \notin DOMAIN table
    <3>1. <<entry>> = Append(<<>>, entry) /\ <<>> \in Seq(AnEntry)
      OBVIOUS
    <3>2. IdsOf(<<entry>>) = Append(<<>>, nextId)
      BY <1>3, <3>1, IdsOfSteps
    <3> QED BY <1>2, <2>2, <3>2 DEF Live, LiveOf, entry
  <2> QED BY <2>1, <2>2
<1>6. Calls' = Calls
  <2>1. ASSUME NEW k \in DOMAIN frames
        PROVE  CallOf(table', frames[k]) = CallOf(table, frames[k])
    <3> DEFINE f == frames[k]
               s == table[f.topic]
    <3>1. f \in AFrame /\ FrameOK(table, f)
      BY DEF Inv
    <3>2. /\ s \in Seq(AnEntry) /\ f.initialSize \in 0..Len(s)
          /\ f.index \in Nat \ {0} /\ f.index + 1 \in Nat \ {0}
      BY <1>1, <3>1, CallIs
    <3>3. table'[f.topic] = s \/ table'[f.topic] = Append(s, entry)
      BY <1>2, <3>1 DEF FrameOK, entry
    <3> DEFINE n == f.initialSize
               z == table'[f.topic]
    <3> HIDE DEF f, s, n, z
    <3>4. ASSUME NEW m \in Nat \ {0} PROVE SubSeq(z, m, n) = SubSeq(s, m, n)
      <4>1. s \in Seq(AnEntry) /\ n \in 0..Len(s) /\ (z = s \/ z = Append(s, entry))
        BY <3>2, <3>3 DEF n, z
      <4>2. SubSeq(Append(s, entry), m, n) = SubSeq(s, m, n)
        BY <1>3, <4>1, RangeKept
      <4> QED BY <4>1, <4>2
    <3> QED BY <3>2, <3>4 DEF CallOf, f, s, n, z
  <2> QED BY <1>1, <2>1 DEF Calls
<1> QED BY <1>1, <1>5, <1>6, SubscribesOne

LEMMA ResetRefines ==
  ASSUME Inv, IdsApart, NEW h \in handles, Reset(h) PROVE Bus!Next
<1> DEFINE t == h[1]
           id == h[2]
           new == [table EXCEPT ![t] = Deactivated(@, id)]
<1>1. /\ ~Looping /\ nextId' = nextId /\ frames' = frames /\ TableOK(table)
      /\ table' = Unsubscribed(t, id)
  BY DEF Inv, Reset
<1>2. t \in Topics /\ id \in Ids /\ Holds(table, t, id)
  BY DEF Inv
<1> HIDE DEF t, id
<1>3. \A u \in DOMAIN table : table[u] \in Seq(AnEntry) /\ DOMAIN table[u] = 1..Len(table[u])
  BY <1>1 DEF TableOK
<1>4. t \in DOMAIN table /\ Enters(table, t, id)
  BY <1>2, <1>3 DEF Holds, Enters, Entry
<1>5. \A u \in DOMAIN table : u # t => \A k \in 1..Len(table[u]) : table[u][k].id # id
  BY <1>4 DEF IdsApart, Apart, Enters
<1>6. /\ DOMAIN new = DOMAIN table
      /\ new[t] = Deactivated(table[t], id)
      /\ \A u \in DOMAIN table : u # t => new[u] = table[u]
      /\ new = [u \in DOMAIN table |-> new[u]]
  BY <1>4
<1>7. table' = IF publishDepth = 0 THEN Cleaned(new, {t}) ELSE new
  BY <1>1, <1>4 DEF Unsubscribed
<1> HIDE DEF new
<1>8. TableOK(new)
  <2>1. \A u \in DOMAIN table : new[u] \in Seq(AnEntry)
    BY <1>3, <1>6, DeactivatingKeeps
  <2> QED BY <1>1, <1>6, <2>1 DEF TableOK
<1>9. Live' = [u \in Topics |-> Bus!Without(Live[u], id)]
  <2>1. LiveOf(table') = LiveOf(new)
    BY <1>7, <1>8, CleaningUnseen
  <2>2. ASSUME NEW u \in Topics
        PROVE  LiveOf(new)[u] = Bus!Without(Live[u], id)
    <3>1. CASE u = t
      BY <1>3, <1>4, <1>6, <3>1, DeactivatedGone DEF Live, LiveOf
    <3>2. CASE u # t /\ u \in DOMAIN table
      <4>1. Bus!Without(IdsOf(table[u]), id) = IdsOf(table[u])
        BY <1>3, <1>5, <3>2, NothingGone
      <4> QED BY <1>6, <3>2, <4>1 DEF Live, LiveOf
    <3>3. CASE u \notin DOMAIN table
      BY <1>6, <3>3, WithoutSteps DEF Live, LiveOf
    <3> QED BY <3>1, <3>2, <3>3
  <2>3. LiveOf(new) = [u \in Topics |-> LiveOf(new)[u]]
    BY DEF LiveOf
  <2> QED BY <2>1, <2>2, <2>3 DEF Live
<1>10. Calls' = [k \in DOMAIN Calls |->
                   [Calls[k] EXCEPT !.pending = Bus!Without(@, id)]]
  <2>1. DOMAIN Calls = DOMAIN frames
    BY DEF Calls
  <2>2. ASSUME NEW k \in DOMAIN frames
        PROVE  CallOf(table', frames[k])
                 = [Calls[k] EXCEPT !.pending = Bus!Without(@, id)]
    <3> DEFINE f == frames[k]
               s == table[f.topic]
               m == IF f.running = None THEN f.index ELSE f.index + 1
               n == f.initialSize
               r == SubSeq(s, m, n)
    <3>1. f \in AFrame /\ FrameOK(table, f) /\ k \in 1..Len(frames)
      BY DEF Inv
    <3>2. /\ s \in Seq(AnEntry) /\ n \in 0..Len(s) /\ m \in Nat \ {0}
          /\ f.topic \in DOMAIN table
      BY <1>1, <3>1, CallIs DEF FrameOK
    <3>3. table' = new
      <4>1. publishDepth # 0
        BY <3>1 DEF Inv
      <4> QED BY <1>7, <4>1
    <3>4. r \in Seq(AnEntry)
      BY <3>2, RangeSteps
    <3>5. IdsOf(SubSeq(new[f.topic], m, n)) = Bus!Without(IdsOf(r), id)
      <4>1. SubSeq(Deactivated(s, id), m, n) = Deactivated(r, id)
        <5> HIDE DEF s, m, n
        <5> QED BY <3>2, RangeKept
      <4>2. new[f.topic] = Deactivated(s, id)
        <5>1. CASE f.topic = t
          BY <1>6, <5>1
        <5>2. CASE f.topic # t
          <6>1. \A j \in 1..Len(s) : s[j].id # id
            BY <1>5, <3>2, <5>2
          <6>2. Deactivated(s, id) = s
            BY <3>2, <6>1, NothingGone
          <6> QED BY <1>6, <3>2, <5>2, <6>2
        <5> QED BY <5>1, <5>2
      <4> QED BY <3>4, <4>1, <4>2, DeactivatedGone
    <3>6. Calls[k] = [pending |-> IdsOf(r), running |-> f.running]
      BY DEF Calls, CallOf
    <3>7. CallOf(new, f) = [pending |-> Bus!Without(IdsOf(r), id), running |-> f.running]
      <4> HIDE DEF r, s
      <4> QED BY <3>5 DEF CallOf
    <3> HIDE DEF f, s, m, n, r
    <3> QED BY <3>3, <3>6, <3>7 DEF f
  <2> QED BY <1>1, <2>1, <2>2 DEF Calls
<1> QED BY <1>1, <1>2, <1>9, <1>10, UnsubscribesOne

LEMMA PublishRefines ==
  ASSUME Inv, NEW t \in Topics, Publish(t) PROVE Bus!Next
<1> DEFINE f == [topic |-> t, index |-> 1, running |-> None,
                 initialSize |-> Len(table[t])]
<1>1. /\ ~Looping /\ t \in DOMAIN table /\ frames' = Append(frames, f)
      /\ table' = table /\ nextId' = nextId
  BY DEF Publish
<1>2. CallOf(table, f) = [pending |-> Live[t], running |-> None]
  <2>1. table[t] \in Seq(AnEntry)
    BY <1>1 DEF Inv, TableOK
  <2> QED BY <1>1, <2>1, WholeRange DEF CallOf, Live, LiveOf
<1>3. f \in AFrame /\ FrameOK(table, f) /\ TableOK(table) /\ frames \in Seq(AFrame)
  <2>1. Len(table[t]) \in Nat
    BY <1>1 DEF Inv, TableOK
  <2> QED BY <1>1, <2>1 DEF Inv, AFrame, FrameOK
<1>4. Calls' = Append(Calls, [pending |-> Live[t], running |-> None])
  <2> DEFINE c == CallOf(table, f)
             n == Len(frames)
  <2>1. c \in ACall
    BY <1>3, CallIs
  <2> HIDE DEF f, c
  <2>2. /\ n \in Nat /\ DOMAIN frames' = 1..(n + 1) /\ frames'[n + 1] = f
        /\ \A k \in 1..n : frames'[k] = frames[k]
    BY <1>1, <1>3
  <2>3. Calls' = [k \in 1..(n + 1) |-> CallOf(table, frames'[k])]
    BY <1>1, <2>2 DEF Calls
  <2>4. /\ Calls \in Seq(ACall) /\ Len(Calls) = n
        /\ \A k \in 1..n : Calls[k] = CallOf(table, frames[k])
    BY CallsAre
  <2>5. \A k \in 1..(n + 1) : Calls'[k] = IF k = n + 1 THEN c ELSE Calls[k]
    <3>1. \A k \in 1..(n + 1) : k = n + 1 \/ k \in 1..n
      BY <2>2
    <3> QED BY <2>2, <2>3, <2>4, <3>1 DEF c
  <2>6. Calls' = Append(Calls, c)
    <3> DEFINE after == Calls'
               before == Calls
               S == ACall
    <3>1. /\ n \in Nat /\ before \in [1..n -> S] /\ c \in S
          /\ after \in [1..(n + 1) -> S]
          /\ after[n + 1] = c /\ \A k \in 1..n : after[k] = before[k]
      <4>1. n + 1 \in 1..(n + 1) /\ \A k \in 1..n : k \in 1..(n + 1) /\ k # n + 1
        BY <2>2
      <4>2. \A k \in 1..(n + 1) : after[k] \in ACall
        BY <2>1, <2>2, <2>4, <2>5
      <4> QED BY <2>1, <2>2, <2>3, <2>4, <2>5, <4>1, <4>2
    <3> HIDE DEF after, before, n, S
    <3>2. before \in Seq(S) /\ Len(before) = n
      BY <3>1
    <3>3. after = Append(before, c)
      BY <3>1, <3>2
    <3> QED BY <3>3 DEF after, before
  <2> QED BY <1>2, <2>6 DEF c
<1> QED BY <1>1, <1>4, PublishesOne DEF Live

\* A step of the innermost publish that stays in its loop.
LEMMA TopCall ==
  ASSUME Inv, frames # <<>>, NEW f, ReplaceTop(f), table' = table
  PROVE  /\ Calls' = [Calls EXCEPT ![Len(Calls)] = CallOf(table, f)]
         /\ Calls[Len(Calls)] = CallOf(table, Top)
         /\ Live' = Live
<1> DEFINE n == Len(frames)
<1>1. /\ frames' = [frames EXCEPT ![n] = f] /\ n \in Nat /\ n \in 1..n
      /\ DOMAIN frames = 1..n
  BY DEF Inv, ReplaceTop
<1>2. Len(Calls) = n /\ \A k \in 1..n : Calls[k] = CallOf(table, frames[k])
  BY CallsAre
<1>3. Calls' = [Calls EXCEPT ![n] = CallOf(table, f)]
  <2> HIDE DEF n
  <2>1. \A k \in 1..n : frames'[k] = IF k = n THEN f ELSE frames[k]
    BY <1>1
  <2>2. DOMAIN frames' = 1..n
    BY <1>1
  <2>3. \A k \in 1..n : CallOf(table, frames'[k])
                          = IF k = n THEN CallOf(table, f) ELSE CallOf(table, frames[k])
    BY <2>1
  <2> QED BY <1>1, <2>2, <2>3 DEF Calls
<1>4. Live' = Live
  BY DEF Live, LiveOf
<1> QED BY <1>1, <1>2, <1>3, <1>4 DEF Top

LEMMA InvokeRefines == ASSUME Inv, Invoke PROVE Bus!Next
<1> DEFINE s == table[Top.topic]
           id == s[Top.index].id
           f == [Top EXCEPT !.running = id]
           call == Calls[Len(Calls)]
           rest == IdsOf(SubSeq(s, Top.index + 1, Top.initialSize))
<1>1. /\ frames # <<>> /\ Looping /\ ReplaceTop(f) /\ table' = table
      /\ nextId' = nextId /\ Top.running = None /\ s[Top.index].active
      /\ Top.index <= Top.initialSize
  BY DEF Invoke, Looping, Inside
<1>2. /\ Top \in AFrame /\ FrameOK(table, Top) /\ TableOK(table)
  BY <1>1, TopFrame DEF Inv
<1>3. /\ s \in Seq(AnEntry) /\ Top.initialSize \in 0..Len(s)
      /\ Top.index \in Nat \ {0} /\ Top.index + 1 \in Nat \ {0}
  BY <1>2, CallIs
<1>4. id \in Nat /\ rest \in Seq(Nat)
  <2>1. s[Top.index] \in AnEntry
    BY <1>1, <1>3
  <2> QED BY <1>3, <2>1, RangeSteps, IdsOfSteps DEF AnEntry
<1>5. call = [pending |-> <<id>> \o rest, running |-> None]
  <2>1. call = CallOf(table, Top)
    BY <1>1, TopCall
  <2> DEFINE m == Top.index
             n == Top.initialSize
  <2>2. IdsOf(SubSeq(s, m, n)) = <<id>> \o rest
    <3>1. /\ s \in Seq(AnEntry) /\ m \in Nat \ {0} /\ n \in Nat /\ m <= n /\ n <= Len(s)
          /\ s[m].active
      BY <1>1, <1>3
    <3> HIDE DEF s, m, n
    <3>2. IdsOf(SubSeq(s, m, n)) = <<s[m].id>> \o IdsOf(SubSeq(s, m + 1, n))
      BY <3>1, IdsOfRange
    <3> QED BY <3>2 DEF m, n
  <2> HIDE DEF rest, id
  <2> QED BY <1>1, <2>1, <2>2 DEF CallOf
<1>6. CallOf(table, f) = [pending |-> rest, running |-> id]
  <2>1. /\ f.topic = Top.topic /\ f.index = Top.index
        /\ f.initialSize = Top.initialSize /\ f.running = id
    BY <1>2 DEF AFrame
  <2>2. id # None
    BY <1>4, NoneAssumption
  <2> HIDE DEF id, f
  <2> QED BY <2>1, <2>2 DEF CallOf
<1> HIDE DEF rest, id
<1>7. /\ call.pending # <<>> /\ Tail(call.pending) = rest /\ Head(call.pending) = id
  <2>1. call.pending = <<id>> \o rest
    BY <1>5
  <2>2. <<id>> \o rest # <<>> /\ Head(<<id>> \o rest) = id /\ Tail(<<id>> \o rest) = rest
    BY <1>4, HeadIs
  <2> QED BY <2>1, <2>2
<1>8. /\ Calls' = [Calls EXCEPT ![Len(Calls)] =
                     [pending |-> Tail(call.pending), running |-> Head(call.pending)]]
      /\ Live' = Live
  <2> HIDE DEF f
  <2> QED BY <1>1, <1>6, <1>7, TopCall
<1> HIDE DEF call
<1> QED BY <1>1, <1>7, <1>8, DeliversOne DEF call

LEMMA SkipRefines == ASSUME Inv, SkipInactive PROVE UNCHANGED Bus!vars
<1> DEFINE s == table[Top.topic]
           f == [Top EXCEPT !.index = @ + 1]
           m == Top.index
           n == Top.initialSize
<1>1. /\ frames # <<>> /\ ReplaceTop(f) /\ table' = table
      /\ nextId' = nextId /\ Top.running = None /\ ~s[m].active /\ m <= n
  BY DEF SkipInactive, Looping, Inside
<1>2. /\ Top \in AFrame /\ FrameOK(table, Top) /\ TableOK(table)
  BY <1>1, TopFrame DEF Inv
<1>3. /\ s \in Seq(AnEntry) /\ n \in 0..Len(s) /\ m \in Nat \ {0} /\ m + 1 \in Nat \ {0}
  BY <1>2, CallIs
<1>4. IdsOf(SubSeq(s, m, n)) = IdsOf(SubSeq(s, m + 1, n))
  <2> HIDE DEF s, m, n
  <2>1. n \in Nat /\ n <= Len(s)
    BY <1>3
  <2> QED BY <1>1, <1>3, <2>1, IdsOfRange
<1>5. CallOf(table, f) = CallOf(table, Top)
  <2>1. /\ f.topic = Top.topic /\ f.index = m + 1 /\ f.initialSize = n
        /\ f.running = None
    BY <1>1, <1>2 DEF AFrame
  <2> HIDE DEF f
  <2> QED BY <1>1, <1>4, <2>1 DEF CallOf
<1>6. Calls' = Calls /\ Live' = Live
  <2> HIDE DEF f
  <2>1. /\ Calls' = [Calls EXCEPT ![Len(Calls)] = Calls[Len(Calls)]] /\ Live' = Live
    BY <1>1, <1>5, TopCall
  <2>2. Calls \in Seq(ACall)
    BY CallsAre
  <2> QED BY <2>1, <2>2
<1> QED BY <1>1, <1>6, Stutters

LEMMA ReturnRefines == ASSUME Inv, HandlerReturns PROVE Bus!Next
<1> DEFINE f == [Top EXCEPT !.running = None, !.index = @ + 1]
<1>1. /\ frames # <<>> /\ ~Looping /\ ReplaceTop(f) /\ table' = table
      /\ nextId' = nextId /\ Top.running # None
  BY DEF HandlerReturns, Looping
<1>2. Top \in AFrame
  BY <1>1, TopFrame
<1>3. CallOf(table, f) = [CallOf(table, Top) EXCEPT !.running = None]
  <2>1. /\ f.topic = Top.topic /\ f.index = Top.index + 1
        /\ f.initialSize = Top.initialSize /\ f.running = None
    BY <1>2 DEF AFrame
  <2> HIDE DEF f
  <2> QED BY <1>1, <2>1 DEF CallOf
<1>4. /\ Calls' = [Calls EXCEPT ![Len(Calls)] =
                     [Calls[Len(Calls)] EXCEPT !.running = None]]
      /\ Live' = Live
  <2> HIDE DEF f
  <2> QED BY <1>1, <1>3, TopCall
<1> QED BY <1>1, <1>4, ReturnsOne

LEMMA EndRefines == ASSUME Inv, EndPublish PROVE Bus!Next
<1> DEFINE n == Len(frames)
<1>1. /\ Looping /\ frames # <<>> /\ Top.running = None
      /\ frames' = SubSeq(frames, 1, n - 1) /\ nextId' = nextId
      /\ publishDepth' = publishDepth - 1
      /\ table' = IF publishDepth' = 0 THEN Cleaned(table, DOMAIN table) ELSE table
      /\ ~(Top.index <= Top.initialSize)
  BY DEF EndPublish, Looping, Inside
<1>2. /\ TableOK(table) /\ frames \in Seq(AFrame) /\ publishDepth = n
      /\ n \in Nat \ {0} /\ DOMAIN frames = 1..n
  BY <1>1 DEF Inv
<1>3. Live' = Live
  <2>1. LiveOf(table') = LiveOf(table)
    BY <1>1, <1>2, CleaningUnseen
  <2> QED BY <2>1 DEF Live
<1>4. Calls[Len(Calls)].pending = <<>>
  <2>1. Top \in AFrame /\ FrameOK(table, Top)
    BY <1>1, TopFrame
  <2>2. /\ table[Top.topic] \in Seq(AnEntry) /\ Top.initialSize \in Nat
        /\ Top.index \in Nat \ {0} /\ Top.initialSize < Top.index
    BY <1>1, <1>2, <2>1, CallIs DEF AFrame
  <2>3. IdsOf(SubSeq(table[Top.topic], Top.index, Top.initialSize)) = <<>>
    BY <2>2, RangeSteps, IdsOfSteps
  <2>4. Calls[Len(Calls)] = CallOf(table, Top)
    BY <1>2, CallsAre DEF Top
  <2> QED BY <1>1, <2>3, <2>4 DEF CallOf
<1>5. Calls' = SubSeq(Calls, 1, Len(Calls) - 1)
  <2>1. /\ Calls \in Seq(ACall) /\ Len(Calls) = n
        /\ \A k \in 1..n : Calls[k] = CallOf(table, frames[k])
    BY CallsAre
  <2>2. /\ DOMAIN frames' = 1..(n - 1) /\ n - 1 \in Nat
        /\ \A k \in 1..(n - 1) : frames'[k] = frames[k] /\ k \in 1..n
    BY <1>1, <1>2
  <2>3. Calls' = [k \in 1..(n - 1) |-> CallOf(table', frames'[k])]
    BY <2>2 DEF Calls
  <2> HIDE DEF n
  <2>4. \A k \in 1..(n - 1) : CallOf(table', frames'[k]) = Calls[k]
    <3> SUFFICES ASSUME NEW k \in 1..(n - 1)
                 PROVE  CallOf(table', frames'[k]) = Calls[k]
      OBVIOUS
    <3>1. table' = table
      BY <1>1, <1>2
    <3> QED BY <2>1, <2>2, <3>1
  <2>5. SubSeq(Calls, 1, n - 1) = [k \in 1..(n - 1) |-> Calls[k]]
    BY <1>2, <2>1
  <2> QED BY <2>1, <2>3, <2>4, <2>5
<1> QED BY <1>1, <1>3, <1>4, <1>5, EndsOne

LEMMA StepRefines == ASSUME Inv, IdsApart, [Next]_vars PROVE [Bus!Next]_(Bus!vars)
<1>1. ASSUME NEW t \in Topics, Subscribe(t) PROVE Bus!Next
  BY <1>1, SubscribeRefines
<1>2. ASSUME NEW t \in Topics, Publish(t) PROVE Bus!Next
  BY <1>2, PublishRefines
<1>3. ASSUME NEW h \in handles, Reset(h) PROVE Bus!Next
  BY <1>3, ResetRefines
<1>4. CASE Invoke
  BY <1>4, InvokeRefines
<1>5. CASE SkipInactive
  BY <1>5, SkipRefines
<1>6. CASE HandlerReturns
  BY <1>6, ReturnRefines
<1>7. CASE EndPublish
  BY <1>7, EndRefines
<1>8. CASE UNCHANGED vars
  <2>1. nextId' = nextId /\ Live' = Live /\ Calls' = Calls
    BY <1>8 DEF vars, Live, LiveOf, Calls, CallOf
  <2> QED BY <2>1, Stutters
<1> QED BY <1>1, <1>2, <1>3, <1>4, <1>5, <1>6, <1>7, <1>8 DEF Next

LEMMA InitRefines == Init => Bus!Init
<1> SUFFICES ASSUME Init PROVE Bus!Init
  OBVIOUS
<1>1. DOMAIN table = {} /\ DOMAIN frames = {} /\ nextId = 0
  BY DEF Init
<1> QED BY <1>1 DEF Bus!Init

(***************************************************************************)
(* The bus implements PubSub, however deep publishes nest and whatever     *)
(* handlers call: every publish (EventBus::publish) calls the handlers     *)
(* that were subscribed when it began, in their order, each once, except   *)
(* those reset in the meantime.  Erasing entries late (cleanup) is unseen. *)
(***************************************************************************)
THEOREM Implementation == Spec => ImplementsPubSub
<1>1. Init => Inv /\ IdsApart /\ Bus!Init
  BY InitInv, ApartInit, InitRefines
<1>2. Inv /\ IdsApart /\ [Next]_vars => Inv' /\ IdsApart' /\ [Bus!Next]_(Bus!vars)
  BY NextInv, ApartNext, StepRefines
<1> QED BY <1>1, <1>2, PTL DEF Spec, ImplementsPubSub, Bus!Spec

-----------------------------------------------------------------------------
(* The sums that the engine forms *)

\* What SumFunctionOnSet recurs on: the sum over a set, from that over the
\* set without the element that CHOOSE picks of it.
Pick(s) == CHOOSE x \in s : TRUE

IsSum(f, S, g) ==
  g = [s \in SUBSET S |-> IF s = {} THEN 0 ELSE f[Pick(s)] + g[s \ {Pick(s)}]]

Total(f, S) == SumFunctionOnSet(f, S)

LEMMA TotalIs ==
  ASSUME NEW f, NEW S
  PROVE  Total(f, S) = (CHOOSE g : IsSum(f, S, g))[S]
BY DEF Total, SumFunctionOnSet, FoldFunctionOnSet, MapThenFoldSet, IsSum, Pick

LEMMA PickIn ==
  ASSUME NEW s, s # {} PROVE Pick(s) \in s
BY DEF Pick

\* The recursion has a solution.
LEMMA SumExists ==
  ASSUME NEW f, NEW S, IsFiniteSet(S)
  PROVE  \E g : IsSum(f, S, g)
<1> DEFINE Small(n) == {s \in SUBSET S : Cardinality(s) <= n}
           Step(g, n) == [s \in Small(n) |->
                            IF s = {} THEN 0 ELSE f[Pick(s)] + g[s \ {Pick(s)}]]
           T == {n \in Nat : \E g : g = Step(g, n)}
<1>0. \A s \in SUBSET S : IsFiniteSet(s) /\ Cardinality(s) \in Nat
  BY FS_Subset, FS_CardinalityType
<1>1. 0 \in T
  <2> DEFINE g == [s \in Small(0) |-> 0]
  <2>1. \A s \in Small(0) : s = {}
    BY <1>0, FS_EmptySet
  <2>2. g = Step(g, 0)
    BY <2>1
  <2> QED BY <2>2
<1>2. ASSUME NEW n \in T PROVE n + 1 \in T
  <2>1. PICK g : g = Step(g, n)
    OBVIOUS
  <2> DEFINE h == Step(g, n + 1)
  <2>2. ASSUME NEW s \in Small(n + 1), s # {}
        PROVE  h[s \ {Pick(s)}] = g[s \ {Pick(s)}]
    <3> DEFINE r == s \ {Pick(s)}
    <3>1. Pick(s) \in s
      BY <2>2, PickIn
    <3>2. Cardinality(r) = Cardinality(s) - 1 /\ r \in SUBSET S
      BY <1>0, <3>1, FS_RemoveElement
    <3>3. r \in Small(n) /\ r \in Small(n + 1)
      BY <1>0, <3>2
    <3> HIDE DEF r, Small
    <3>4. h[r] = IF r = {} THEN 0 ELSE f[Pick(r)] + g[r \ {Pick(r)}]
      BY <3>3
    <3>5. Step(g, n)[r] = IF r = {} THEN 0 ELSE f[Pick(r)] + g[r \ {Pick(r)}]
      BY <3>3
    <3>6. g[r] = h[r]
      BY <2>1, <3>4, <3>5
    <3> QED BY <3>6 DEF r
  <2> HIDE DEF Small
  <2>3. h = Step(h, n + 1)
    <3>1. \A s \in Small(n + 1) :
            (IF s = {} THEN 0 ELSE f[Pick(s)] + g[s \ {Pick(s)}])
            = (IF s = {} THEN 0 ELSE f[Pick(s)] + h[s \ {Pick(s)}])
      BY <2>2
    <3> HIDE DEF h
    <3>2. Step(g, n + 1) = Step(h, n + 1)
      BY <3>1
    <3> QED BY <3>2 DEF h
  <2> HIDE DEF h
  <2> QED BY <2>3
<1>3. Cardinality(S) \in T
  <2> HIDE DEF T
  <2>1. T = Nat
    <3>1. T \in SUBSET Nat
      BY DEF T
    <3> QED BY <1>1, <1>2, <3>1, Induction
  <2> QED BY <2>1, FS_CardinalityType
<1>4. PICK g : g = Step(g, Cardinality(S))
  BY <1>3
<1>5. Small(Cardinality(S)) = SUBSET S
  BY FS_Subset
<1> HIDE DEF Small
<1> QED BY <1>4, <1>5 DEF IsSum

\* It has one only, and that depends on the values in the set alone.
LEMMA SumUnique ==
  ASSUME NEW f, NEW e, NEW R, NEW S \in SUBSET R, IsFiniteSet(R),
         \A x \in S : f[x] = e[x],
         NEW g, IsSum(f, R, g), NEW h, IsSum(e, S, h)
  PROVE  g[S] = h[S]
<1> DEFINE T == {n \in Nat : \A s \in SUBSET S : Cardinality(s) = n => g[s] = h[s]}
<1>0. \A s \in SUBSET S : IsFiniteSet(s) /\ Cardinality(s) \in Nat
  BY FS_Subset, FS_CardinalityType
<1>s. ASSUME NEW s \in SUBSET S
      PROVE  /\ g[s] = IF s = {} THEN 0 ELSE f[Pick(s)] + g[s \ {Pick(s)}]
             /\ h[s] = IF s = {} THEN 0 ELSE e[Pick(s)] + h[s \ {Pick(s)}]
  BY DEF IsSum
<1>1. 0 \in T
  <2>1. \A s \in SUBSET S : Cardinality(s) = 0 => s = {}
    BY <1>0, FS_EmptySet
  <2>2. g[{}] = 0 /\ h[{}] = 0
    BY <1>s
  <2> QED BY <2>1, <2>2
<1>2. ASSUME NEW n \in T PROVE n + 1 \in T
  <2> SUFFICES ASSUME NEW s \in SUBSET S, Cardinality(s) = n + 1
               PROVE  g[s] = h[s]
    OBVIOUS
  <2>1. s # {}
    BY FS_EmptySet
  <2>2. Pick(s) \in s /\ f[Pick(s)] = e[Pick(s)]
    BY <2>1, PickIn
  <2> DEFINE r == s \ {Pick(s)}
  <2>3. r \in SUBSET S /\ Cardinality(r) = n
    <3>1. n \in Nat /\ IsFiniteSet(s)
      BY <1>0
    <3>2. Cardinality(r) = Cardinality(s) - 1
      BY <2>2, <3>1, FS_RemoveElement
    <3> QED BY <3>1, <3>2
  <2>4. g[r] = h[r]
    BY <2>3
  <2> QED BY <1>s, <2>1, <2>2, <2>4
<1>3. Cardinality(S) \in T
  <2> HIDE DEF T
  <2>1. T = Nat
    <3>1. T \in SUBSET Nat
      BY DEF T
    <3> QED BY <1>1, <1>2, <3>1, Induction
  <2> QED BY <2>1, <1>0
<1> QED BY <1>3

LEMMA TotalAgrees ==
  ASSUME NEW f, NEW e, NEW S, IsFiniteSet(S), \A x \in S : f[x] = e[x]
  PROVE  Total(f, S) = Total(e, S)
<1> DEFINE g == CHOOSE a : IsSum(f, S, a)
           h == CHOOSE a : IsSum(e, S, a)
<1>1. IsSum(f, S, g) /\ IsSum(e, S, h)
  BY SumExists
<1>2. Total(f, S) = g[S] /\ Total(e, S) = h[S]
  BY TotalIs
<1> HIDE DEF g, h
<1> QED BY <1>1, <1>2, SumUnique

LEMMA TotalSteps ==
  ASSUME NEW f, NEW S, IsFiniteSet(S)
  PROVE  /\ Total(f, {}) = 0
         /\ S # {} => Total(f, S) = f[Pick(S)] + Total(f, S \ {Pick(S)})
<1> DEFINE r == S \ {Pick(S)}
           o == {}
           g == CHOOSE a : IsSum(f, S, a)
           h == CHOOSE a : IsSum(f, r, a)
           k == CHOOSE a : IsSum(f, o, a)
<1>0. IsFiniteSet(r) /\ IsFiniteSet(o) /\ r \in SUBSET S
  BY FS_Subset, FS_EmptySet
<1>1. IsSum(f, S, g) /\ IsSum(f, r, h) /\ IsSum(f, o, k)
  <2> HIDE DEF r, o
  <2> QED BY <1>0, SumExists
<1>2. Total(f, S) = g[S] /\ Total(f, r) = h[r] /\ Total(f, o) = k[o]
  <2> HIDE DEF r, o
  <2> QED BY TotalIs
<1> HIDE DEF g, h, k
<1>3. k[o] = 0
  BY <1>1 DEF IsSum
<1>4. S # {} => g[S] = f[Pick(S)] + g[r]
  BY <1>1 DEF IsSum
<1>5. g[r] = h[r]
  <2> HIDE DEF r
  <2>1. IsSum(f, r, h) /\ IsSum(f, S, g) /\ r \in SUBSET S
    BY <1>0, <1>1
  <2>2. ASSUME NEW rr, NEW gg, NEW hh, rr \in SUBSET S, IsSum(f, S, gg), IsSum(f, rr, hh)
        PROVE  gg[rr] = hh[rr]
    <3>1. \A s \in SUBSET rr : s \in SUBSET S
      BY <2>2
    <3> QED BY <2>2, SumUnique
  <2> QED BY <2>1, <2>2
<1> QED BY <1>2, <1>3, <1>4, <1>5

\* Sums of natural numbers.
LEMMA TotalTakes ==
  ASSUME NEW f, NEW S, IsFiniteSet(S), \A y \in S : f[y] \in Nat
  PROVE  /\ Total(f, S) \in Nat
         /\ \A x \in S : Total(f, S) = f[x] + Total(f, S \ {x})
<1> DEFINE Splits(s) == /\ Total(f, s) \in Nat
                        /\ \A x \in s : Total(f, s) = f[x] + Total(f, s \ {x})
           T == {n \in Nat : \A s \in SUBSET S : Cardinality(s) <= n => Splits(s)}
<1>0. \A s \in SUBSET S : IsFiniteSet(s) /\ Cardinality(s) \in Nat
  BY FS_Subset, FS_CardinalityType
<1>r. ASSUME NEW s \in SUBSET S, NEW x \in s
      PROVE  /\ s \ {x} \in SUBSET S
             /\ Cardinality(s \ {x}) = Cardinality(s) - 1
  BY <1>0, FS_RemoveElement
<1>1. 0 \in T
  <2>1. \A s \in SUBSET S : Cardinality(s) <= 0 => s = {}
    BY <1>0, FS_EmptySet
  <2>2. Total(f, {}) = 0
    BY TotalSteps
  <2>3. Splits({})
    BY <2>2
  <2> HIDE DEF Splits
  <2> QED BY <2>1, <2>3
<1>2. ASSUME NEW n \in T PROVE n + 1 \in T
  <2> SUFFICES ASSUME NEW s \in SUBSET S, Cardinality(s) <= n + 1
               PROVE  Splits(s)
    OBVIOUS
  <2>0. n \in Nat /\ \A r \in SUBSET S : Cardinality(r) <= n => Splits(r)
    OBVIOUS
  <2>1. CASE s = {}
    <3>0. Total(f, {}) = 0
      BY TotalSteps
    <3>1. Splits({})
      BY <3>0
    <3> HIDE DEF Splits
    <3> QED BY <2>1, <3>1
  <2>2. CASE s # {}
    <3> DEFINE c == Pick(s)
    <3>1. c \in s /\ Total(f, s) = f[c] + Total(f, s \ {c})
      BY <1>0, <2>2, PickIn, TotalSteps
    <3> HIDE DEF c
    <3>2. ASSUME NEW x \in s
          PROVE  /\ s \ {x} \in SUBSET S /\ Cardinality(s \ {x}) <= n
                 /\ Total(f, s \ {x}) \in Nat /\ f[x] \in Nat
                 /\ \A y \in s \ {x} :
                      /\ Total(f, s \ {x}) = f[y] + Total(f, (s \ {x}) \ {y})
                      /\ Total(f, (s \ {x}) \ {y}) \in Nat
      <4>1. s \ {x} \in SUBSET S /\ Cardinality(s \ {x}) <= n
        BY <1>r, <1>0, <2>0
      <4>2. \A y \in s \ {x} : /\ (s \ {x}) \ {y} \in SUBSET S
                               /\ Cardinality((s \ {x}) \ {y}) <= n
        <5> TAKE y \in s \ {x}
        <5> DEFINE r == s \ {x}
        <5>1. r \ {y} \in SUBSET S /\ Cardinality(r \ {y}) = Cardinality(r) - 1
          BY <1>r, <4>1
        <5>2. Cardinality(r) \in Nat /\ Cardinality(r) <= n
          BY <1>0, <4>1
        <5> HIDE DEF r
        <5>3. Cardinality(r \ {y}) <= n
          BY <2>0, <5>1, <5>2
        <5> QED BY <5>1, <5>3 DEF r
      <4> QED BY <2>0, <4>1, <4>2
    <3>3. Total(f, s) \in Nat
      BY <3>1, <3>2
    <3>4. ASSUME NEW x \in s, x # c PROVE Total(f, s) = f[x] + Total(f, s \ {x})
      <4>1. (s \ {c}) \ {x} = (s \ {x}) \ {c}
        OBVIOUS
      <4> DEFINE rest == Total(f, (s \ {c}) \ {x})
      <4>2. Total(f, s \ {c}) = f[x] + rest /\ rest \in Nat
        BY <3>1, <3>2, <3>4
      <4>3. Total(f, s \ {x}) = f[c] + rest
        BY <3>1, <3>2, <3>4, <4>1
      <4>4. f[x] \in Nat /\ f[c] \in Nat
        BY <3>1, <3>2
      <4> HIDE DEF rest
      <4> QED BY <3>1, <4>2, <4>3, <4>4
    <3> QED BY <3>1, <3>3, <3>4
  <2> QED BY <2>1, <2>2
<1>3. Cardinality(S) \in T
  <2> HIDE DEF T
  <2>1. T = Nat
    <3>1. T \in SUBSET Nat
      BY DEF T
    <3> QED BY <1>1, <1>2, <3>1, Induction
  <2> QED BY <2>1, <1>0
<1>4. Cardinality(S) <= Cardinality(S)
  BY <1>0
<1> QED BY <1>3, <1>4

\* What holds of {}, and of a set with one more element if of the set, holds
\* of a finite set.
LEMMA SetInduction ==
  ASSUME NEW S, IsFiniteSet(S), NEW T \in SUBSET SUBSET S, {} \in T,
         \A s \in T : \A x \in S \ s : s \cup {x} \in T
  PROVE  S \in T
<1> DEFINE N == {n \in Nat : \A s \in SUBSET S : Cardinality(s) = n => s \in T}
<1>0. \A s \in SUBSET S : IsFiniteSet(s) /\ Cardinality(s) \in Nat
  BY FS_Subset, FS_CardinalityType
<1>1. 0 \in N
  BY <1>0, FS_EmptySet
<1>2. ASSUME NEW n \in N PROVE n + 1 \in N
  <2> SUFFICES ASSUME NEW s \in SUBSET S, Cardinality(s) = n + 1
               PROVE  s \in T
    OBVIOUS
  <2>0. n \in Nat /\ \A r \in SUBSET S : Cardinality(r) = n => r \in T
    OBVIOUS
  <2>1. s # {}
    <3>1. n + 1 # 0
      BY <2>0
    <3> QED BY <3>1, FS_EmptySet
  <2>2. PICK x : x \in s
    BY <2>1
  <2> DEFINE r == s \ {x}
  <2>3. Cardinality(r) = Cardinality(s) - 1 /\ r \in SUBSET S
    BY <1>0, <2>2, FS_RemoveElement
  <2>4. r \in T
    BY <2>0, <2>3
  <2>5. s = r \cup {x} /\ x \in S \ r
    BY <2>2
  <2> HIDE DEF r
  <2> QED BY <2>4, <2>5
<1>3. Cardinality(S) \in N
  <2> HIDE DEF N
  <2>1. N = Nat
    <3>1. N \in SUBSET Nat
      BY DEF N
    <3> QED BY <1>1, <1>2, <3>1, Induction
  <2> QED BY <2>1, <1>0
<1> QED BY <1>3

LEMMA TotalAdds ==
  ASSUME NEW f, NEW S, IsFiniteSet(S), NEW x, x \notin S,
         \A y \in S \cup {x} : f[y] \in Nat
  PROVE  /\ Total(f, S) \in Nat
         /\ Total(f, S \cup {x}) = Total(f, S) + f[x]
<1> DEFINE R == S \cup {x}
<1>1. IsFiniteSet(R) /\ x \in R /\ R \ {x} = S
  BY FS_AddElement
<1>2. Total(f, S) \in Nat
  BY TotalTakes
<1>3. Total(f, R) = f[x] + Total(f, R \ {x})
  <2> HIDE DEF R
  <2>1. \A y \in R : f[y] \in Nat
    BY DEF R
  <2> QED BY <1>1, <2>1, TotalTakes
<1> HIDE DEF R
<1>4. f[x] \in Nat
  OBVIOUS
<1> QED BY <1>1, <1>2, <1>3, <1>4 DEF R

LEMMA TotalUnion ==
  ASSUME NEW f, NEW A, NEW B, IsFiniteSet(A), IsFiniteSet(B), A \cap B = {},
         \A y \in A \cup B : f[y] \in Nat
  PROVE  /\ Total(f, A) \in Nat /\ Total(f, B) \in Nat
         /\ Total(f, A \cup B) = Total(f, A) + Total(f, B)
<1> DEFINE T == {s \in SUBSET B : Total(f, A \cup s) = Total(f, A) + Total(f, s)}
<1>0. Total(f, A) \in Nat /\ Total(f, B) \in Nat
  BY TotalTakes
<1>1. {} \in T
  <2>1. A \cup {} = A /\ Total(f, {}) = 0
    BY TotalSteps
  <2> QED BY <1>0, <2>1
<1>2. ASSUME NEW s \in T, NEW x \in B \ s PROVE s \cup {x} \in T
  <2> DEFINE r == A \cup s
  <2>1. IsFiniteSet(s) /\ IsFiniteSet(r) /\ x \notin r
    BY FS_Subset, FS_Union
  <2>2. r \cup {x} = A \cup (s \cup {x})
    OBVIOUS
  <2>3. \A y \in r \cup {x} : f[y] \in Nat
    OBVIOUS
  <2>4. Total(f, r \cup {x}) = Total(f, r) + f[x]
    <3> HIDE DEF r
    <3> QED BY <2>1, <2>3, TotalAdds
  <2>5. Total(f, s \cup {x}) = Total(f, s) + f[x] /\ Total(f, s) \in Nat
    BY <2>1, TotalAdds
  <2>6. Total(f, r) = Total(f, A) + Total(f, s)
    OBVIOUS
  <2>7. f[x] \in Nat
    OBVIOUS
  <2>8. Total(f, r \cup {x}) = Total(f, A) + Total(f, s \cup {x})
    <3> HIDE DEF r, T
    <3> QED BY <1>0, <2>4, <2>5, <2>6, <2>7
  <2> QED BY <2>2, <2>8
<1>3. B \in T
  <2>1. T \in SUBSET SUBSET B
    OBVIOUS
  <2> HIDE DEF T
  <2> QED BY <1>1, <1>2, <2>1, SetInduction
<1> QED BY <1>0, <1>3

LEMMA TotalSum ==
  ASSUME NEW f, NEW e, NEW t, NEW S, IsFiniteSet(S),
         \A y \in S : f[y] \in Nat /\ e[y] \in Nat /\ t[y] = f[y] + e[y]
  PROVE  /\ Total(f, S) \in Nat /\ Total(e, S) \in Nat
         /\ Total(t, S) = Total(f, S) + Total(e, S)
<1> DEFINE T == {s \in SUBSET S : Total(t, s) = Total(f, s) + Total(e, s)}
<1>0. Total(f, S) \in Nat /\ Total(e, S) \in Nat
  BY TotalTakes
<1>1. {} \in T
  <2>1. Total(f, {}) = 0 /\ Total(e, {}) = 0 /\ Total(t, {}) = 0
    BY TotalSteps
  <2> QED BY <2>1
<1>2. ASSUME NEW s \in T, NEW x \in S \ s PROVE s \cup {x} \in T
  <2>1. IsFiniteSet(s)
    BY FS_Subset
  <2>2. \A y \in s \cup {x} : f[y] \in Nat /\ e[y] \in Nat /\ t[y] \in Nat
    OBVIOUS
  <2>3. /\ Total(f, s \cup {x}) = Total(f, s) + f[x] /\ Total(f, s) \in Nat
        /\ Total(e, s \cup {x}) = Total(e, s) + e[x] /\ Total(e, s) \in Nat
        /\ Total(t, s \cup {x}) = Total(t, s) + t[x]
    BY <2>1, <2>2, TotalAdds
  <2>4. Total(t, s) = Total(f, s) + Total(e, s)
    OBVIOUS
  <2>5. f[x] \in Nat /\ e[x] \in Nat /\ t[x] = f[x] + e[x]
    OBVIOUS
  <2> QED BY <2>3, <2>4, <2>5
<1>3. S \in T
  <2>1. T \in SUBSET SUBSET S
    OBVIOUS
  <2> HIDE DEF T
  <2> QED BY <1>1, <1>2, <2>1, SetInduction
<1> QED BY <1>0, <1>3

\* A sum is no less than one of less, or over less.
LEMMA TotalGrows ==
  ASSUME NEW f, NEW e, NEW S, NEW R \in SUBSET S, IsFiniteSet(S),
         \A y \in S : e[y] \in Nat,
         \A y \in R : f[y] \in Nat /\ f[y] <= e[y]
  PROVE  /\ Total(f, R) \in Nat /\ Total(e, S) \in Nat
         /\ Total(f, R) <= Total(e, S)
<1> DEFINE d == [y \in R |-> e[y] - f[y]]
           Q == S \ R
<1>1. IsFiniteSet(R) /\ IsFiniteSet(Q)
  BY FS_Subset
<1>2. \A y \in R : d[y] \in Nat /\ e[y] = f[y] + d[y]
  OBVIOUS
<1> HIDE DEF d
<1>3. /\ Total(f, R) \in Nat /\ Total(d, R) \in Nat
      /\ Total(e, R) = Total(f, R) + Total(d, R)
  <2>1. \A y \in R : f[y] \in Nat /\ d[y] \in Nat /\ e[y] = f[y] + d[y]
    BY <1>2
  <2> QED BY <1>1, <2>1, TotalSum
<1>4. /\ Total(e, R) \in Nat /\ Total(e, Q) \in Nat
      /\ Total(e, R \cup Q) = Total(e, R) + Total(e, Q)
  <2>1. R \cap Q = {} /\ \A y \in R \cup Q : e[y] \in Nat
    OBVIOUS
  <2> HIDE DEF Q
  <2> QED BY <1>1, <2>1, TotalUnion
<1>5. R \cup Q = S
  OBVIOUS
<1> HIDE DEF Q
<1>6. Total(e, S) = Total(e, R) + Total(e, Q)
  BY <1>4, <1>5
<1> DEFINE a == Total(f, R)
           b == Total(d, R)
           c == Total(e, R)
           q == Total(e, Q)
           z == Total(e, S)
<1>7. a \in Nat /\ b \in Nat /\ q \in Nat /\ c = a + b /\ z = c + q
  BY <1>3, <1>4, <1>6
<1> HIDE DEF a, b, c, q, z
<1>8. a \in Nat /\ z \in Nat /\ a <= z
  BY <1>7
<1> QED BY <1>8 DEF a, z

LEMMA TotalOfNothing ==
  ASSUME NEW f, NEW S, IsFiniteSet(S), \A y \in S : f[y] = 0
  PROVE  Total(f, S) = 0
<1>1. \A y \in S : f[y] \in Nat /\ f[y] = f[y] + f[y]
  OBVIOUS
<1>2. Total(f, S) \in Nat /\ Total(f, S) = Total(f, S) + Total(f, S)
  BY <1>1, TotalSum
<1> DEFINE n == Total(f, S)
<1>3. n \in Nat /\ n = n + n
  BY <1>2
<1> HIDE DEF n
<1>4. n = 0
  BY <1>3
<1> QED BY <1>4 DEF n

-----------------------------------------------------------------------------
(* The lists of the price levels: of nodes, by the order of their insertion *)

Rising(s) == \A i, j \in DOMAIN s : i < j => s[i] < s[j]

LEMMA RisingIsInjective ==
  ASSUME NEW s \in Seq(Nat), Rising(s) PROVE IsInjective(s)
<1> SUFFICES ASSUME NEW i \in DOMAIN s, NEW j \in DOMAIN s, s[i] = s[j]
             PROVE  i = j
  BY DEF IsInjective
<1>1. i \in Nat /\ j \in Nat /\ s[i] \in Nat /\ s[j] \in Nat
  OBVIOUS
<1>2. ~(s[i] < s[j]) /\ ~(s[j] < s[i])
  BY <1>1
<1>3. ~(i < j) /\ ~(j < i)
  BY <1>2 DEF Rising
<1> QED BY <1>1, <1>3

LEMMA RisesByAppend ==
  ASSUME NEW s \in Seq(Nat), NEW e \in Nat
  PROVE  /\ Append(s, e) \in Seq(Nat)
         /\ Range(Append(s, e)) = Range(s) \cup {e}
         /\ Rising(Append(s, e)) <=> Rising(s) /\ \A n \in Range(s) : n < e
<1> DEFINE z == Append(s, e)
           m == Len(s)
<1>1. /\ m \in Nat /\ DOMAIN s = 1..m /\ DOMAIN z = 1..(m + 1) /\ z \in Seq(Nat)
      /\ z[m + 1] = e /\ \A k \in 1..m : z[k] = s[k] /\ s[k] \in Nat
  OBVIOUS
<1> HIDE DEF z, m
<1>2. \A k \in 1..(m + 1) : k = m + 1 \/ (k \in 1..m /\ k < m + 1)
  BY <1>1
<1>3. m + 1 \in 1..(m + 1) /\ \A k \in 1..m : k \in 1..(m + 1) /\ k < m + 1
  BY <1>1
<1>4. Range(z) = Range(s) \cup {e}
  BY <1>1, <1>2, <1>3 DEF Range
<1>5. Rising(s) /\ (\A n \in Range(s) : n < e) => Rising(z)
  <2> SUFFICES ASSUME Rising(s), \A n \in Range(s) : n < e,
                      NEW i \in 1..(m + 1), NEW j \in 1..(m + 1), i < j
               PROVE  z[i] < z[j]
    BY <1>1 DEF Rising
  <2>1. i \in 1..m
    BY <1>1, <1>2
  <2>2. CASE j = m + 1
    BY <1>1, <2>1, <2>2 DEF Range
  <2>3. CASE j \in 1..m
    BY <1>1, <2>1, <2>3 DEF Rising
  <2> QED BY <1>2, <2>2, <2>3
<1>6. Rising(z) => Rising(s)
  <2> SUFFICES ASSUME Rising(z), NEW i \in 1..m, NEW j \in 1..m, i < j
               PROVE  s[i] < s[j]
    BY <1>1 DEF Rising
  <2>1. z[i] < z[j]
    BY <1>1, <1>3 DEF Rising
  <2> QED BY <1>1, <2>1
<1>7. ASSUME Rising(z), NEW n \in Range(s) PROVE n < e
  <2>1. PICK k \in 1..m : n = s[k]
    BY <1>1 DEF Range
  <2>2. z[k] < z[m + 1]
    BY <1>1, <1>3, <1>7 DEF Rising
  <2> QED BY <1>1, <2>1, <2>2
<1> QED BY <1>1, <1>4, <1>5, <1>6, <1>7 DEF z

\* What is left of a list when its first elements have been erased.
LEMMA RisesFrom ==
  ASSUME NEW s \in Seq(Nat), Rising(s), NEW n \in 0..Len(s)
  PROVE  /\ First(s, n) \subseteq Range(s)
         /\ SubSeq(s, n + 1, Len(s)) \in Seq(Nat)
         /\ Rising(SubSeq(s, n + 1, Len(s)))
         /\ Range(SubSeq(s, n + 1, Len(s))) = Range(s) \ First(s, n)
         /\ Len(SubSeq(s, n + 1, Len(s))) = Len(s) - n
<1> DEFINE m == Len(s)
           d == m - n
           z == SubSeq(s, n + 1, m)
<1>1. m \in Nat /\ d \in Nat /\ DOMAIN s = 1..m /\ n \in 0..m
  OBVIOUS
<1>2. \A k \in 1..m : s[k] \in Nat
  OBVIOUS
<1>3. z \in Seq(Nat) /\ Len(z) = d /\ DOMAIN z = 1..d
  OBVIOUS
<1>4. \A k \in 1..d : z[k] = s[n + k] /\ n + k \in 1..m
  OBVIOUS
<1> HIDE DEF z
<1>5. First(s, n) \subseteq Range(s)
  BY <1>1 DEF First, Range
<1>6. Rising(z)
  <2> SUFFICES ASSUME NEW i \in 1..d, NEW j \in 1..d, i < j PROVE z[i] < z[j]
    BY <1>3 DEF Rising
  <2>1. n + i < n + j /\ n + i \in DOMAIN s /\ n + j \in DOMAIN s
    BY <1>1, <1>4
  <2> QED BY <1>4, <2>1 DEF Rising
<1>7. Range(z) = Range(s) \ First(s, n)
  <2>1. ASSUME NEW k \in 1..d PROVE z[k] \in Range(s) \ First(s, n)
    <3>1. ASSUME NEW i \in 1..n PROVE s[i] # z[k]
      <4>1. i < n + k /\ i \in DOMAIN s /\ n + k \in DOMAIN s
        BY <1>1, <1>4
      <4>2. s[i] < s[n + k] /\ s[i] \in Nat /\ s[n + k] \in Nat
        BY <1>1, <1>2, <4>1 DEF Rising
      <4> QED BY <1>4, <4>2
    <3> QED BY <1>1, <1>4, <3>1 DEF First, Range
  <2>2. ASSUME NEW i \in 1..m, s[i] \notin First(s, n) PROVE s[i] \in Range(z)
    <3>1. i \notin 1..n
      BY <2>2 DEF First
    <3>2. i - n \in 1..d /\ n + (i - n) = i
      BY <1>1, <3>1
    <3> QED BY <1>3, <1>4, <3>2 DEF Range
  <2> QED BY <1>1, <1>3, <2>1, <2>2 DEF Range
<1> QED BY <1>3, <1>5, <1>6, <1>7 DEF z

\* What is left of it when a node has been erased.
LEMMA RisesWithout ==
  ASSUME NEW s \in Seq(Nat), Rising(s), NEW n
  PROVE  LET left == Keep(s, {k \in DOMAIN s : s[k] # n})
         IN left \in Seq(Nat) /\ Rising(left) /\ Range(left) = Range(s) \ {n}
<1> DEFINE Others(z) == {k \in DOMAIN z : z[k] # n}
           Rest(z) == Keep(z, Others(z))
           P(z) == /\ Rest(z) \in Seq(Nat) /\ Rising(Rest(z))
                   /\ Range(Rest(z)) = Range(z) \ {n}
           T == {z \in Seq(Nat) : Rising(z) => P(z)}
<1>1. <<>> \in T
  <2>1. Rest(<<>>) = <<>>
    BY KeepEmpty
  <2>2. <<>> \in Seq(Nat) /\ Rising(<<>>) /\ Range(<<>>) = {}
    BY DEF Rising, Range
  <2> QED BY <2>1, <2>2
<1>2. ASSUME NEW z \in T, NEW e \in Nat PROVE Append(z, e) \in T
  <2> DEFINE y == Append(z, e)
             old == Others(z)
             kept == Others(y)
  <2>0. y \in Seq(Nat)
    OBVIOUS
  <2> SUFFICES ASSUME Rising(y) PROVE P(y)
    <3> HIDE DEF P, y
    <3> QED BY <2>0 DEF y
  <2>1. Rising(z) /\ (\A i \in Range(z) : i < e) /\ Range(y) = Range(z) \cup {e}
    BY RisesByAppend
  <2>2. P(z)
    BY <2>1
  <2>3. Rest(y) = IF e # n THEN Append(Rest(z), e) ELSE Rest(z)
    <3>1. \A k \in 1..Len(z) : k \in kept <=> k \in old
      OBVIOUS
    <3>2. Len(z) + 1 \in kept <=> e # n
      OBVIOUS
    <3> HIDE DEF kept, old
    <3>3. Keep(y, kept) = IF Len(z) + 1 \in kept THEN Append(Keep(z, old), e) ELSE Keep(z, old)
      BY <3>1, KeepAppend
    <3>4. Rest(y) = Keep(y, kept) /\ Rest(z) = Keep(z, old)
      BY DEF kept, old
    <3> QED BY <3>2, <3>3, <3>4
  <2> DEFINE r == Rest(z)
             q == Rest(y)
  <2>4. r \in Seq(Nat) /\ Rising(r) /\ Range(r) = Range(z) \ {n}
    BY <2>2
  <2>5. /\ Append(r, e) \in Seq(Nat) /\ Range(Append(r, e)) = Range(r) \cup {e}
        /\ Rising(Append(r, e))
    <3> HIDE DEF r
    <3> QED BY <2>1, <2>4, RisesByAppend
  <2>6. q = IF e # n THEN Append(r, e) ELSE r
    BY <2>3
  <2> HIDE DEF r, q
  <2>7. q \in Seq(Nat) /\ Rising(q)
    BY <2>4, <2>5, <2>6
  <2>8. Range(q) = Range(y) \ {n}
    <3>1. CASE e # n
      BY <2>1, <2>4, <2>5, <2>6, <3>1
    <3>2. CASE e = n
      BY <2>1, <2>4, <2>6, <3>2
    <3> QED BY <3>1, <3>2
  <2> QED BY <2>7, <2>8 DEF q
<1>3. T = Seq(Nat)
  <2>1. T \in SUBSET Seq(Nat)
    OBVIOUS
  <2> HIDE DEF T
  <2> QED BY <1>1, <1>2, <2>1, SeqInduction
<1>4. P(s)
  BY <1>3
<1> QED BY <1>4

-----------------------------------------------------------------------------
(* The invariant of the engine's members *)

AnOrder == [id : OrderIds, side : Sides, price : Prices, quantity : Nat]
ALevel == Sides \X Prices
ABlock == [node : Nat, level : ALevel]

IsBook(b) ==
  /\ b = [orders |-> b.orders, byId |-> b.byId, levels |-> b.levels,
          trades |-> b.trades, inserted |-> b.inserted]
  /\ b.inserted \in Nat
  /\ DOMAIN b.orders \subseteq 1..b.inserted
  /\ b.orders \in [DOMAIN b.orders -> AnOrder]
  /\ DOMAIN b.byId \subseteq OrderIds
  /\ b.byId \in [DOMAIN b.byId -> ABlock]
  /\ DOMAIN b.levels \subseteq ALevel /\ IsFiniteSet(DOMAIN b.levels)
  /\ b.levels \in [DOMAIN b.levels -> Seq(Nat)]

\* What the block of an id leads to.
BlockRight(b, id) ==
  /\ b.byId[id].node \in DOMAIN b.orders
  /\ b.orders[b.byId[id].node].id = id
  /\ b.byId[id].level \in DOMAIN b.levels
  /\ b.byId[id].node \in Range(b.levels[b.byId[id].level])

\* A node that is in the list of a level.
AtHome(b, n, l) ==
  /\ n \in DOMAIN b.orders
  /\ <<b.orders[n].side, b.orders[n].price>> = l
  /\ b.orders[n].id \in DOMAIN b.byId
  /\ b.byId[b.orders[n].id] = [node |-> n, level |-> l]

LevelRight(b, l) ==
  /\ Rising(b.levels[l])
  /\ \A n \in Range(b.levels[l]) : AtHome(b, n, l)

\* The three indexes agree, and the levels are in the order of time.
BookInv(b) ==
  /\ IsBook(b)
  /\ \A id \in DOMAIN b.byId : BlockRight(b, id)
  /\ \A l \in DOMAIN b.levels : LevelRight(b, l)

\* A node rests at one level.
LEMMA OneHome ==
  ASSUME NEW b, BookInv(b), NEW l \in DOMAIN b.levels, NEW m \in DOMAIN b.levels,
         NEW n \in Range(b.levels[l]), n \in Range(b.levels[m])
  PROVE  l = m
<1>1. AtHome(b, n, l) /\ AtHome(b, n, m)
  BY DEF BookInv, LevelRight
<1> QED BY <1>1 DEF AtHome

LEMMA BookIndexes ==
  ASSUME BookInv(book) PROVE IndexesAgree
<1>1. ASSUME NEW id \in DOMAIN book.byId
      PROVE  /\ book.byId[id].node \in DOMAIN book.orders
             /\ book.orders[book.byId[id].node].id = id
             /\ book.byId[id].node \in Range(book.levels[book.byId[id].level])
  BY DEF BookInv, BlockRight
<1>2. ASSUME NEW l \in DOMAIN book.levels, NEW k \in DOMAIN book.levels[l]
      PROVE  LET resting == book.orders[book.levels[l][k]]
             IN /\ <<resting.side, resting.price>> = l
                /\ resting.id \in DOMAIN book.byId
                /\ book.byId[resting.id] = [node |-> book.levels[l][k], level |-> l]
  <2>1. AtHome(book, book.levels[l][k], l)
    BY DEF BookInv, LevelRight, Range
  <2> QED BY <2>1 DEF AtHome
<1>3. ASSUME NEW l \in DOMAIN book.levels PROVE IsInjective(book.levels[l])
  BY RisingIsInjective DEF BookInv, IsBook, LevelRight
<1> QED BY <1>1, <1>2, <1>3 DEF IndexesAgree, Levels

-----------------------------------------------------------------------------
(* An order comes to rest *)

LEMMA AssignedIn ==
  ASSUME NEW S, NEW f, f \in [DOMAIN f -> S], NEW k, NEW v \in S,
         NEW g, g = Assigned(f, k, v)
  PROVE  g \in [DOMAIN g -> S]
<1>1. DOMAIN g = DOMAIN f \cup {k}
  BY DEF Assigned
<1>2. \A x \in DOMAIN f \cup {k} : g[x] \in S
  BY DEF Assigned
<1>3. g = [x \in DOMAIN g |-> g[x]]
  BY <1>1 DEF Assigned
<1> QED BY <1>1, <1>2, <1>3

LEMMA RestingIs ==
  ASSUME NEW b, IsBook(b), NEW o \in AnOrder
  PROVE  LET r == Resting(b, o)
             node == b.inserted + 1
             home == <<o.side, o.price>>
         IN /\ r.orders = Assigned(b.orders, node, o)
            /\ r.byId = Assigned(b.byId, o.id, [node |-> node, level |-> home])
            /\ r.levels = Assigned(b.levels, home, Append(LevelOf(b, home), node))
            /\ r.trades = b.trades /\ r.inserted = node
            /\ r = [orders |-> r.orders, byId |-> r.byId, levels |-> r.levels,
                    trades |-> r.trades, inserted |-> r.inserted]
<1> DEFINE os == b.orders
           ids == b.byId
           ls == b.levels
           ts == b.trades
           n == b.inserted
           home == <<o.side, o.price>>
           block == [node |-> n + 1, level |-> home]
           list == Append(LevelOf(b, home), n + 1)
<1>1. b = [orders |-> os, byId |-> ids, levels |-> ls, trades |-> ts, inserted |-> n]
  BY DEF IsBook
<1>2. Resting(b, o) =
        [b EXCEPT !.inserted = n + 1, !.orders = Assigned(os, n + 1, o),
                  !.byId = Assigned(ids, o.id, block), !.levels = Assigned(ls, home, list)]
  BY DEF Resting
<1>3. Resting(b, o) =
        [orders |-> Assigned(os, n + 1, o), byId |-> Assigned(ids, o.id, block),
         levels |-> Assigned(ls, home, list), trades |-> ts, inserted |-> n + 1]
  <2> HIDE DEF os, ids, ls, ts, n, home, block, list
  <2> QED BY <1>1, <1>2
<1> QED BY <1>3

LEMMA RestingKeeps ==
  ASSUME NEW b, BookInv(b), NEW o \in AnOrder, o.id \notin DOMAIN b.byId
  PROVE  BookInv(Resting(b, o))
<1> DEFINE node == b.inserted + 1
           home == <<o.side, o.price>>
           block == [node |-> node, level |-> home]
           old == LevelOf(b, home)
           r == Resting(b, o)
<1>1. IsBook(b) /\ home \in ALevel /\ o.id \in OrderIds
  BY DEF BookInv, ALevel, AnOrder
<1>2. /\ r.orders = Assigned(b.orders, node, o)
      /\ r.byId = Assigned(b.byId, o.id, block)
      /\ r.levels = Assigned(b.levels, home, Append(old, node))
      /\ r.inserted = node
  BY <1>1, RestingIs
<1>r. r = [orders |-> r.orders, byId |-> r.byId, levels |-> r.levels,
           trades |-> r.trades, inserted |-> r.inserted]
  BY <1>1, RestingIs
<1>3. /\ node \in Nat /\ node \notin DOMAIN b.orders
      /\ \A n \in DOMAIN b.orders : n \in 1..node /\ n < node
      /\ node \in 1..node
  BY <1>1 DEF IsBook
<1>4. /\ old \in Seq(Nat) /\ Rising(old)
      /\ \A n \in Range(old) : home \in DOMAIN b.levels /\ old = b.levels[home]
  <2>1. CASE home \in DOMAIN b.levels
    BY <1>1, <2>1 DEF LevelOf, BookInv, LevelRight, IsBook
  <2>2. CASE home \notin DOMAIN b.levels
    BY <2>2 DEF LevelOf, Rising, Range
  <2> QED BY <2>1, <2>2
<1>5. ASSUME NEW n \in Range(old) PROVE AtHome(b, n, home) /\ n < node
  <2>1. home \in DOMAIN b.levels /\ n \in Range(b.levels[home])
    BY <1>4
  <2>2. AtHome(b, n, home)
    BY <2>1 DEF BookInv, LevelRight
  <2>3. n \in DOMAIN b.orders
    BY <2>2 DEF AtHome
  <2> QED BY <1>3, <2>2, <2>3
<1> DEFINE new == Append(old, node)
<1>6. new \in Seq(Nat) /\ Rising(new) /\ Range(new) = Range(old) \cup {node}
  BY <1>3, <1>4, <1>5, RisesByAppend
<1> HIDE DEF r, old, new, home, node, block
<1>7. /\ DOMAIN r.orders = DOMAIN b.orders \cup {node} /\ r.orders[node] = o
      /\ \A n \in DOMAIN b.orders : r.orders[n] = b.orders[n]
  <2>1. /\ DOMAIN Assigned(b.orders, node, o) = DOMAIN b.orders \cup {node}
        /\ Assigned(b.orders, node, o)[node] = o
        /\ \A n \in DOMAIN b.orders \ {node} : Assigned(b.orders, node, o)[n] = b.orders[n]
    BY DEF Assigned
  <2> QED BY <1>2, <1>3, <2>1
<1>8. /\ DOMAIN r.byId = DOMAIN b.byId \cup {o.id} /\ r.byId[o.id] = block
      /\ \A id \in DOMAIN b.byId : r.byId[id] = b.byId[id]
  <2>1. /\ DOMAIN Assigned(b.byId, o.id, block) = DOMAIN b.byId \cup {o.id}
        /\ Assigned(b.byId, o.id, block)[o.id] = block
        /\ \A id \in DOMAIN b.byId \ {o.id} :
             Assigned(b.byId, o.id, block)[id] = b.byId[id]
    BY DEF Assigned
  <2> QED BY <1>2, <2>1
<1>9. /\ DOMAIN r.levels = DOMAIN b.levels \cup {home} /\ r.levels[home] = new
      /\ \A l \in DOMAIN b.levels \ {home} : r.levels[l] = b.levels[l]
  <2>1. /\ DOMAIN Assigned(b.levels, home, new) = DOMAIN b.levels \cup {home}
        /\ Assigned(b.levels, home, new)[home] = new
        /\ \A l \in DOMAIN b.levels \ {home} :
             Assigned(b.levels, home, new)[l] = b.levels[l]
    BY DEF Assigned
  <2>2. r.levels = Assigned(b.levels, home, new)
    BY <1>2 DEF new
  <2> QED BY <2>1, <2>2
<1>10. IsBook(r)
  <2>1. r.orders \in [DOMAIN r.orders -> AnOrder]
    BY <1>1, <1>2, AssignedIn DEF IsBook
  <2>2. r.byId \in [DOMAIN r.byId -> ABlock]
    <3>1. block \in ABlock
      BY <1>1, <1>3 DEF block, ABlock
    <3> QED BY <1>1, <1>2, <3>1, AssignedIn DEF IsBook
  <2>3. r.levels \in [DOMAIN r.levels -> Seq(Nat)]
    <3>1. r.levels = Assigned(b.levels, home, new) /\ new \in Seq(Nat)
      BY <1>2, <1>6 DEF new
    <3> DEFINE S == Seq(Nat)
    <3>2. b.levels \in [DOMAIN b.levels -> S] /\ new \in S
      BY <1>1, <3>1 DEF IsBook
    <3> HIDE DEF S
    <3>3. r.levels \in [DOMAIN r.levels -> S]
      BY <3>1, <3>2, AssignedIn
    <3> QED BY <3>3 DEF S
  <2>4. IsFiniteSet(DOMAIN r.levels)
    BY <1>1, <1>9, FS_AddElement DEF IsBook
  <2> QED BY <1>1, <1>2, <1>3, <1>r, <1>7, <1>8, <1>9, <2>1, <2>2, <2>3, <2>4 DEF IsBook
<1>11. ASSUME NEW id \in DOMAIN r.byId PROVE BlockRight(r, id)
  <2>1. CASE id = o.id
    BY <1>6, <1>7, <1>8, <1>9, <2>1 DEF BlockRight, block
  <2>2. CASE id \in DOMAIN b.byId
    <3> DEFINE n == b.byId[id].node
               l == b.byId[id].level
    <3>1. n \in DOMAIN b.orders /\ b.orders[n].id = id /\ l \in DOMAIN b.levels
          /\ n \in Range(b.levels[l])
      BY <2>2 DEF BookInv, BlockRight
    <3>2. n \in Range(r.levels[l])
      <4>1. CASE l = home
        <5>1. b.levels[l] = old
          BY <3>1, <4>1 DEF old, LevelOf
        <5> QED BY <1>6, <1>9, <3>1, <4>1, <5>1
      <4> QED BY <1>9, <3>1, <4>1
    <3> QED BY <1>7, <1>8, <1>9, <2>2, <3>1, <3>2 DEF BlockRight
  <2> QED BY <1>8, <2>1, <2>2
<1>12. ASSUME NEW l \in DOMAIN b.levels \cup {home}, NEW n, AtHome(b, n, l)
       PROVE  AtHome(r, n, l)
  BY <1>7, <1>8, <1>12 DEF AtHome
<1>13. AtHome(r, node, home)
  BY <1>7, <1>8 DEF AtHome, block, home
<1>14. ASSUME NEW l \in DOMAIN r.levels PROVE LevelRight(r, l)
  <2>1. CASE l = home
    BY <1>5, <1>6, <1>9, <1>12, <1>13, <2>1 DEF LevelRight
  <2>2. CASE l # home
    <3>1. l \in DOMAIN b.levels /\ r.levels[l] = b.levels[l]
      BY <1>9, <2>2
    <3> QED BY <1>12, <3>1 DEF LevelRight, BookInv
  <2> QED BY <2>1, <2>2
<1> QED BY <1>10, <1>11, <1>14 DEF BookInv, r

-----------------------------------------------------------------------------
(* An order is cancelled, or given another quantity *)

LEMMA CancelIs ==
  ASSUME NEW b, BookInv(b), NEW id \in DOMAIN b.byId
  PROVE  LET c == AfterCancel(b, id)
             node == b.byId[id].node
             home == b.byId[id].level
             rest == Keep(b.levels[home], {k \in DOMAIN b.levels[home] :
                                             b.levels[home][k] # node})
         IN c = [orders |-> [n \in DOMAIN b.orders \ {node} |-> b.orders[n]],
                 byId |-> [i \in DOMAIN b.byId \ {id} |-> b.byId[i]],
                 levels |-> [b.levels EXCEPT ![home] = rest],
                 trades |-> b.trades, inserted |-> b.inserted]
<1> DEFINE os == b.orders
           ids == b.byId
           ls == b.levels
           ts == b.trades
           n == b.inserted
           home == ids[id].level
           node == ids[id].node
           kept == {k \in DOMAIN ls[home] : ls[home][k] # node}
           left == [m \in DOMAIN os \ {node} |-> os[m]]
           others == [i \in DOMAIN ids \ {id} |-> ids[i]]
<1>1. b = [orders |-> os, byId |-> ids, levels |-> ls, trades |-> ts, inserted |-> n]
  BY DEF BookInv, IsBook
<1>2. AfterCancel(b, id) =
        [b EXCEPT !.levels = [ls EXCEPT ![home] = Keep(ls[home], kept)],
                  !.orders = left, !.byId = others]
  BY DEF AfterCancel, Restrict
<1>3. AfterCancel(b, id) =
        [orders |-> left, byId |-> others,
         levels |-> [ls EXCEPT ![home] = Keep(ls[home], kept)],
         trades |-> ts, inserted |-> n]
  <2> HIDE DEF os, ids, ls, ts, n, home, node, kept, left, others
  <2> QED BY <1>1, <1>2
<1> QED BY <1>3

\* From b to c, the nodes are taken out of every level.
LevelsLose(b, c, nodes) ==
  \A l \in DOMAIN b.levels : Range(c.levels[l]) = Range(b.levels[l]) \ nodes

\* From b to c, the nodes are taken out of the orders, and the others stay as
\* they are.
OrdersLose(b, c, nodes) ==
  /\ DOMAIN c.orders = DOMAIN b.orders \ nodes
  /\ \A n \in DOMAIN c.orders : c.orders[n] = b.orders[n]

LEMMA CancelKeeps ==
  ASSUME NEW b, BookInv(b), NEW id \in DOMAIN b.byId
  PROVE  LET c == AfterCancel(b, id)
             node == b.byId[id].node
         IN /\ BookInv(c)
            /\ DOMAIN c.byId = DOMAIN b.byId \ {id}
            /\ OrdersLose(b, c, {node})
            /\ DOMAIN c.levels = DOMAIN b.levels
            /\ LevelsLose(b, c, {node})
            /\ \A l \in DOMAIN b.levels :
                 l # b.byId[id].level => c.levels[l] = b.levels[l]
            /\ c.trades = b.trades
            /\ c.inserted = b.inserted
<1> DEFINE node == b.byId[id].node
           home == b.byId[id].level
           list == b.levels[home]
           rest == Keep(list, {k \in DOMAIN list : list[k] # node})
           c == AfterCancel(b, id)
<1>1. IsBook(b) /\ BlockRight(b, id) /\ home \in DOMAIN b.levels
  BY DEF BookInv, BlockRight
<1>2. c = [orders |-> [n \in DOMAIN b.orders \ {node} |-> b.orders[n]],
           byId |-> [i \in DOMAIN b.byId \ {id} |-> b.byId[i]],
           levels |-> [b.levels EXCEPT ![home] = rest],
           trades |-> b.trades, inserted |-> b.inserted]
  BY CancelIs
<1>3. list \in Seq(Nat) /\ Rising(list) /\ \A n \in Range(list) : AtHome(b, n, home)
  BY <1>1 DEF BookInv, LevelRight, IsBook
<1>4. rest \in Seq(Nat) /\ Rising(rest) /\ Range(rest) = Range(list) \ {node}
  <2> HIDE DEF list, node
  <2> QED BY <1>3, RisesWithout
<1> HIDE DEF c, rest
<1>5. /\ DOMAIN c.byId = DOMAIN b.byId \ {id}
      /\ \A i \in DOMAIN c.byId : c.byId[i] = b.byId[i]
  BY <1>2
<1>6. /\ DOMAIN c.orders = DOMAIN b.orders \ {node}
      /\ \A n \in DOMAIN c.orders : c.orders[n] = b.orders[n]
  BY <1>2
<1>7. /\ DOMAIN c.levels = DOMAIN b.levels
      /\ c.levels[home] = rest
      /\ \A l \in DOMAIN b.levels \ {home} : c.levels[l] = b.levels[l]
  BY <1>1, <1>2 DEF IsBook
<1>8. c.trades = b.trades /\ c.inserted = b.inserted
  BY <1>2
<1>9. c = [orders |-> c.orders, byId |-> c.byId, levels |-> c.levels,
           trades |-> c.trades, inserted |-> c.inserted]
  <2>1. c.orders = [n \in DOMAIN b.orders \ {node} |-> b.orders[n]]
        /\ c.byId = [i \in DOMAIN b.byId \ {id} |-> b.byId[i]]
        /\ c.levels = [b.levels EXCEPT ![home] = rest]
    BY <1>2
  <2> QED BY <1>2, <1>8, <2>1
<1>10. ASSUME NEW l \in DOMAIN b.levels
       PROVE  /\ Range(c.levels[l]) = Range(b.levels[l]) \ {node}
              /\ c.levels[l] \in Seq(Nat) /\ Rising(c.levels[l])
  <2>1. CASE l = home
    BY <1>4, <1>7, <2>1
  <2>2. CASE l # home
    <3>1. c.levels[l] = b.levels[l]
      BY <1>7, <2>2
    <3>2. AtHome(b, node, home)
      BY <1>1, <1>3 DEF BlockRight
    <3>3. \A n \in Range(b.levels[l]) : AtHome(b, n, l)
      BY DEF BookInv, LevelRight
    <3>4. node \notin Range(b.levels[l])
      BY <2>2, <3>2, <3>3 DEF AtHome
    <3> QED BY <3>1, <3>4 DEF BookInv, LevelRight, IsBook
  <2> QED BY <2>1, <2>2
<1>11. IsBook(c)
  <2>1. c.orders \in [DOMAIN c.orders -> AnOrder]
    BY <1>1, <1>2 DEF IsBook
  <2>2. c.byId \in [DOMAIN c.byId -> ABlock]
    BY <1>1, <1>2 DEF IsBook
  <2>3. c.levels \in [DOMAIN c.levels -> Seq(Nat)]
    <3>1. c.levels = [l \in DOMAIN b.levels |-> c.levels[l]]
      BY <1>2
    <3> QED BY <1>7, <1>10, <3>1
  <2> QED BY <1>1, <1>5, <1>6, <1>7, <1>8, <1>9, <2>1, <2>2, <2>3 DEF IsBook
<1>12. ASSUME NEW i \in DOMAIN c.byId PROVE BlockRight(c, i)
  <2> DEFINE n == b.byId[i].node
             l == b.byId[i].level
  <2>1. /\ n \in DOMAIN b.orders /\ b.orders[n].id = i
        /\ l \in DOMAIN b.levels /\ n \in Range(b.levels[l])
    BY <1>5 DEF BookInv, BlockRight
  <2>2. n # node
    BY <1>1, <1>5, <2>1 DEF BlockRight
  <2>3. n \in DOMAIN c.orders /\ c.orders[n].id = i
    BY <1>6, <2>1, <2>2
  <2>4. l \in DOMAIN c.levels /\ n \in Range(c.levels[l])
    BY <1>7, <1>10, <2>1, <2>2
  <2>5. c.byId[i] = b.byId[i]
    BY <1>5
  <2> HIDE DEF node, home
  <2> QED BY <2>3, <2>4, <2>5 DEF BlockRight
<1>13. ASSUME NEW l \in DOMAIN c.levels PROVE LevelRight(c, l)
  <2> SUFFICES ASSUME NEW n \in Range(c.levels[l]) PROVE AtHome(c, n, l)
    BY <1>7, <1>10 DEF LevelRight
  <2>1. n # node /\ AtHome(b, n, l)
    BY <1>7, <1>10 DEF BookInv, LevelRight
  <2>2. b.orders[n].id # id
    BY <2>1 DEF AtHome
  <2> QED BY <1>5, <1>6, <2>1, <2>2 DEF AtHome
<1>14. BookInv(c)
  BY <1>11, <1>12, <1>13 DEF BookInv
<1>15. LevelsLose(b, c, {node})
  BY <1>10 DEF LevelsLose
<1>16. \A l \in DOMAIN b.levels : l # home => c.levels[l] = b.levels[l]
  BY <1>7
<1>17. OrdersLose(b, c, {node})
  BY <1>6 DEF OrdersLose
<1> QED BY <1>5, <1>7, <1>8, <1>14, <1>15, <1>16, <1>17 DEF c

\* From b to c, no more of the orders changes than their quantities, and the
\* nodes in filled are taken out of the other indexes.
SameFields(c) ==
  c = [orders |-> c.orders, byId |-> c.byId, levels |-> c.levels,
       trades |-> c.trades, inserted |-> c.inserted]

SameOrders(b, c) ==
  /\ DOMAIN c.orders = DOMAIN b.orders
  /\ c.orders \in [DOMAIN b.orders -> AnOrder]
  /\ \A n \in DOMAIN b.orders : /\ c.orders[n].id = b.orders[n].id
                                /\ c.orders[n].side = b.orders[n].side
                                /\ c.orders[n].price = b.orders[n].price

FewerIds(b, c, filled) ==
  /\ \A id : id \in DOMAIN c.byId
             <=> id \in DOMAIN b.byId /\ b.byId[id].node \notin filled
  /\ c.byId \in [DOMAIN c.byId -> ABlock]
  /\ \A id \in DOMAIN c.byId : c.byId[id] = b.byId[id]

ShorterLevels(b, c, filled) ==
  /\ c.levels \in [DOMAIN b.levels -> Seq(Nat)]
  /\ \A l \in DOMAIN b.levels : /\ Rising(c.levels[l])
                                /\ Range(c.levels[l]) = Range(b.levels[l]) \ filled

LEMMA RequantifiedKeeps ==
  ASSUME NEW b, BookInv(b), NEW c, NEW filled,
         SameFields(c), c.inserted = b.inserted, SameOrders(b, c),
         FewerIds(b, c, filled), ShorterLevels(b, c, filled)
  PROVE  BookInv(c)
<1> USE DEF SameFields, SameOrders, FewerIds, ShorterLevels
<1>1. IsBook(b) /\ DOMAIN c.levels = DOMAIN b.levels
  BY DEF BookInv
<1>2. IsBook(c)
  BY <1>1 DEF IsBook
<1>3. ASSUME NEW i \in DOMAIN c.byId PROVE BlockRight(c, i)
  <2>1. BlockRight(b, i) /\ c.byId[i] = b.byId[i] /\ b.byId[i].node \notin filled
    BY DEF BookInv
  <2> QED BY <1>1, <2>1 DEF BlockRight
<1>4. ASSUME NEW l \in DOMAIN c.levels PROVE LevelRight(c, l)
  <2> SUFFICES ASSUME NEW n \in Range(c.levels[l]) PROVE AtHome(c, n, l)
    BY <1>1 DEF LevelRight
  <2>1. n \notin filled /\ AtHome(b, n, l)
    BY <1>1 DEF BookInv, LevelRight
  <2>2. b.orders[n].id \in DOMAIN c.byId
    BY <2>1 DEF AtHome
  <2> QED BY <2>1, <2>2 DEF AtHome
<1> QED BY <1>2, <1>3, <1>4 DEF BookInv

-----------------------------------------------------------------------------
(* matchOrderList *)

LEMMA SomeIsMost ==
  ASSUME NEW n \in Nat, NEW S \in SUBSET (0..n), S # {}
  PROVE  \E x \in S : \A y \in S : x >= y
<1> DEFINE T == {m \in Nat : \A R \in SUBSET (0..m) :
                               R # {} => \E x \in R : \A y \in R : x >= y}
<1>t. T \in SUBSET Nat
  OBVIOUS
<1>1. 0 \in T
  <2>1. \A R \in SUBSET (0..0) : R # {} => R = {0}
    <3>1. 0..0 = {0}
      OBVIOUS
    <3> HIDE DEF T
    <3> QED BY <3>1
  <2> QED BY <2>1
<1>2. ASSUME NEW m \in T PROVE m + 1 \in T
  <2>0. m \in Nat /\ m + 1 \in Nat
    <3> HIDE DEF T
    <3> QED BY <1>t
  <2> SUFFICES ASSUME NEW R \in SUBSET (0..(m + 1)), R # {}
               PROVE  \E x \in R : \A y \in R : x >= y
    BY <2>0
  <2>1. CASE m + 1 \in R
    <3>1. \A y \in R : m + 1 >= y
      BY <2>0
    <3> QED BY <2>1, <3>1
  <2>2. CASE m + 1 \notin R
    <3>1. R \in SUBSET (0..m)
      BY <2>0, <2>2
    <3> QED BY <3>1
  <2> QED BY <2>1, <2>2
<1>3. T = Nat
  <2> HIDE DEF T
  <2> QED BY <1>t, <1>1, <1>2, Induction
<1> QED BY <1>3

LEMMA MaxIs ==
  ASSUME NEW n \in Nat, NEW S \in SUBSET (0..n), S # {}
  PROVE  Max(S) \in S /\ \A y \in S : Max(S) >= y
BY SomeIsMost DEF Max

\* The quantities of the orders.
Sizes(b) == [n \in DOMAIN b.orders |-> b.orders[n].quantity]

LEMMA QuantityIs ==
  ASSUME NEW b, IsBook(b), NEW nodes \in SUBSET DOMAIN b.orders
  PROVE  /\ IsFiniteSet(nodes)
         /\ \A n \in DOMAIN b.orders : /\ Sizes(b)[n] = b.orders[n].quantity
                                       /\ Sizes(b)[n] \in Nat
         /\ Quantity(b, nodes) = Total(Sizes(b), nodes)
         /\ Total(Sizes(b), nodes) \in Nat
<1>1. IsFiniteSet(nodes)
  <2>1. b.inserted \in Nat /\ nodes \in SUBSET (1..b.inserted)
    BY DEF IsBook
  <2>2. IsFiniteSet(1..b.inserted)
    <3> DEFINE z == b.inserted
    <3>1. 1 \in Int /\ z \in Int
      BY <2>1
    <3> HIDE DEF z
    <3>2. IsFiniteSet(1..z)
      BY <3>1, FS_Interval
    <3> QED BY <3>2 DEF z
  <2> QED BY <2>1, <2>2, FS_Subset
<1>2. \A n \in DOMAIN b.orders : /\ Sizes(b)[n] = b.orders[n].quantity
                                 /\ Sizes(b)[n] \in Nat
  BY DEF Sizes, IsBook, AnOrder
<1>3. Total(Sizes(b), nodes) \in Nat
  BY <1>1, <1>2, TotalTakes
<1> DEFINE f == [n \in nodes |-> b.orders[n].quantity]
<1>4. Quantity(b, nodes) = Total(f, nodes)
  BY DEF Quantity, SumFunction, Total
<1>5. Total(f, nodes) = Total(Sizes(b), nodes)
  <2>1. \A n \in nodes : f[n] = Sizes(b)[n]
    BY <1>2
  <2> HIDE DEF f
  <2> QED BY <1>1, <2>1, TotalAgrees
<1> QED BY <1>1, <1>2, <1>3, <1>4, <1>5

LEMMA FirstIs ==
  ASSUME NEW s \in Seq(Nat), Rising(s)
  PROVE  /\ First(s, 0) = {} /\ First(s, Len(s)) = Range(s)
         /\ \A k \in 0..Len(s) : First(s, k) \subseteq Range(s)
         /\ \A k \in 0..(Len(s) - 1) :
              /\ s[k + 1] \notin First(s, k) /\ s[k + 1] \in Range(s)
              /\ First(s, k + 1) = First(s, k) \cup {s[k + 1]}
              /\ \A n \in Range(s) : n < s[k + 1] => n \in First(s, k)
<1>0. Len(s) \in Nat /\ DOMAIN s = 1..Len(s) /\ \A k \in 1..Len(s) : s[k] \in Nat
  OBVIOUS
<1>1. /\ First(s, 0) = {} /\ First(s, Len(s)) = Range(s)
      /\ \A k \in 0..Len(s) : First(s, k) \subseteq Range(s)
  BY <1>0 DEF First, Range
<1>2. ASSUME NEW k \in 0..(Len(s) - 1)
      PROVE  /\ s[k + 1] \notin First(s, k) /\ s[k + 1] \in Range(s)
             /\ First(s, k + 1) = First(s, k) \cup {s[k + 1]}
             /\ \A n \in Range(s) : n < s[k + 1] => n \in First(s, k)
  <2>1. k + 1 \in 1..Len(s) /\ k \in Nat
    BY <1>0
  <2>2. \A i \in 1..k : i \in 1..Len(s) /\ i < k + 1
    BY <1>0
  <2>3. \A i \in 1..k : s[i] < s[k + 1]
    BY <1>0, <2>1, <2>2 DEF Rising
  <2>4. s[k + 1] \notin First(s, k)
    <3>1. \A i \in 1..k : s[i] # s[k + 1]
      BY <1>0, <2>1, <2>2, <2>3
    <3> QED BY <3>1 DEF First
  <2>5. s[k + 1] \in Range(s)
    BY <1>0, <2>1 DEF Range
  <2>6. First(s, k + 1) = First(s, k) \cup {s[k + 1]}
    <3>1. \A i : i \in 1..(k + 1) <=> i \in 1..k \/ i = k + 1
      BY <2>1
    <3> QED BY <3>1 DEF First
  <2>7. ASSUME NEW i \in 1..Len(s), s[i] < s[k + 1] PROVE s[i] \in First(s, k)
    <3>1. ~(k + 1 < i) /\ i # k + 1
      <4>1. s[i] \in Nat /\ s[k + 1] \in Nat
        BY <1>0, <2>1
      <4>2. ~(s[k + 1] < s[i]) /\ s[i] # s[k + 1]
        BY <2>7, <4>1
      <4> QED BY <1>0, <2>1, <4>2 DEF Rising
    <3>2. i \in 1..k
      BY <1>0, <2>1, <3>1
    <3> QED BY <3>2 DEF First
  <2> QED BY <1>0, <2>4, <2>5, <2>6, <2>7 DEF Range
<1> QED BY <1>1, <1>2

\* What the loop does to one level.
LEMMA LevelMatchIs ==
  ASSUME NEW b, BookInv(b), NEW l \in DOMAIN b.levels, NEW left \in Nat
  PROVE  LET level == b.levels[l]
             m == LevelMatch(b, level, left)
         IN /\ m.filled \in 0..Len(level)
            /\ First(level, m.filled) \subseteq DOMAIN m.trades
            /\ DOMAIN m.trades \subseteq Range(level)
            /\ Range(level) \subseteq DOMAIN b.orders
            /\ IsFiniteSet(Range(level))
            /\ \A n \in First(level, m.filled) : m.trades[n] = b.orders[n].quantity
            /\ \A n \in DOMAIN m.trades :
                 /\ m.trades[n] \in Nat /\ m.trades[n] <= b.orders[n].quantity
                 /\ \A k \in Range(level) : k < n => k \in First(level, m.filled)
            /\ Total(m.trades, DOMAIN m.trades) <= left
            /\ m.filled # Len(level) => Total(m.trades, DOMAIN m.trades) = left
<1> DEFINE level == b.levels[l]
           z == Len(level)
           q == Sizes(b)
           P(k) == Total(q, First(level, k))
           S == {k \in 0..z : Quantity(b, First(level, k)) <= left}
           f == Max(S)
           m == LevelMatch(b, level, left)
           d == Min({f + 1, z})
           t == [n \in First(level, d) |->
                   IF n \in First(level, f) THEN b.orders[n].quantity
                   ELSE left - Quantity(b, First(level, f))]
<1>1. /\ IsBook(b) /\ level \in Seq(Nat) /\ Rising(level) /\ z \in Nat
      /\ Range(level) \subseteq DOMAIN b.orders
  <2>1. IsBook(b) /\ level \in Seq(Nat)
    BY DEF BookInv, IsBook
  <2>2. Rising(level) /\ Range(level) \subseteq DOMAIN b.orders
    BY DEF BookInv, LevelRight, AtHome
  <2> QED BY <2>1, <2>2
<1>2. m = [filled |-> f, trades |-> t]
  BY DEF LevelMatch
<1> HIDE DEF d, t, f, S
<1> SUFFICES /\ f \in 0..z
             /\ First(level, f) \subseteq DOMAIN t
             /\ DOMAIN t \subseteq Range(level)
             /\ Range(level) \subseteq DOMAIN b.orders
             /\ IsFiniteSet(Range(level))
             /\ \A n \in First(level, f) : t[n] = b.orders[n].quantity
             /\ \A n \in DOMAIN t :
                  /\ t[n] \in Nat /\ t[n] <= b.orders[n].quantity
                  /\ \A k \in Range(level) : k < n => k \in First(level, f)
             /\ Total(t, DOMAIN t) <= left
             /\ f # z => Total(t, DOMAIN t) = left
  <2>1. m.filled = f /\ m.trades = t
    BY <1>2
  <2> QED BY <2>1
<1> HIDE DEF level, m
<1>3. /\ First(level, 0) = {} /\ First(level, z) = Range(level)
      /\ \A k \in 0..z : First(level, k) \subseteq Range(level)
      /\ \A k \in 0..(z - 1) :
           /\ level[k + 1] \notin First(level, k) /\ level[k + 1] \in Range(level)
           /\ First(level, k + 1) = First(level, k) \cup {level[k + 1]}
           /\ \A n \in Range(level) : n < level[k + 1] => n \in First(level, k)
  BY <1>1, FirstIs
<1>4. \A k \in 0..z : Quantity(b, First(level, k)) = P(k) /\ P(k) \in Nat
                      /\ IsFiniteSet(First(level, k))
  BY <1>1, <1>3, QuantityIs
<1>5. \A n \in DOMAIN b.orders : q[n] = b.orders[n].quantity /\ q[n] \in Nat
  BY <1>1, QuantityIs
<1> HIDE DEF q
<1>6. f \in 0..z /\ P(f) <= left /\ \A k \in 0..z : P(k) <= left => f >= k
  <2>1. S = {k \in 0..z : P(k) <= left}
    BY <1>4 DEF S
  <2>2. 0 \in S
    <3>1. P(0) = 0
      BY <1>3, TotalSteps, FS_EmptySet
    <3> QED BY <1>1, <2>1, <3>1
  <2>3. S \in SUBSET (0..z) /\ S # {}
    BY <2>1, <2>2
  <2>4. f \in S /\ \A k \in S : f >= k
    BY <1>1, <2>3, MaxIs DEF f
  <2> QED BY <2>1, <2>4
<1>7. Quantity(b, First(level, f)) = P(f) /\ P(f) \in Nat
  BY <1>4, <1>6
<1>8. First(level, f) \subseteq Range(level) /\ IsFiniteSet(Range(level))
  BY <1>1, <1>3, <1>6, QuantityIs
<1>9. CASE f = z
  <2>1. d = z
    <3>1. {f + 1, z} = {z + 1, z}
      BY <1>9
    <3> QED BY <1>1, <3>1 DEF d, Min
  <2>2. DOMAIN t = Range(level) /\ First(level, f) = Range(level)
    BY <1>3, <1>9, <2>1 DEF t
  <2>3. \A n \in Range(level) : t[n] = q[n] /\ q[n] = b.orders[n].quantity /\ q[n] \in Nat
    BY <1>1, <1>5, <2>2 DEF t
  <2>4. Total(t, DOMAIN t) = P(f)
    <3>1. Total(t, Range(level)) = Total(q, Range(level))
      BY <1>8, <2>3, TotalAgrees
    <3> QED BY <2>2, <3>1
  <2>5. \A n \in Range(level) : t[n] <= b.orders[n].quantity
    BY <2>3
  <2> QED BY <1>1, <1>6, <1>7, <1>8, <1>9, <2>2, <2>3, <2>4, <2>5
<1>10. CASE f # z
  <2> DEFINE next == level[f + 1]
             rest == left - P(f)
             F == First(level, f)
  <2>1. f \in 0..(z - 1) /\ f + 1 \in 0..z
    BY <1>1, <1>6, <1>10
  <2>2. d = f + 1
    <3>1. f + 1 <= z /\ f + 1 \in Nat
      BY <1>1, <2>1
    <3> QED BY <1>1, <3>1 DEF d, Min
  <2>3. /\ next \notin F /\ next \in Range(level)
        /\ First(level, f + 1) = F \cup {next}
        /\ \A n \in Range(level) : n < next => n \in F
    BY <1>3, <2>1
  <2>4. DOMAIN t = F \cup {next}
    BY <2>2, <2>3 DEF t
  <2>5. t[next] = rest /\ \A n \in F : t[n] = q[n] /\ q[n] = b.orders[n].quantity
    BY <1>1, <1>5, <1>7, <1>8, <2>2, <2>3 DEF t
  <2>6. rest \in Nat
    BY <1>6, <1>7
  <2>7. P(f + 1) = P(f) + q[next] /\ q[next] \in Nat /\ q[next] = b.orders[next].quantity
    <3>1. IsFiniteSet(F) /\ \A n \in F \cup {next} : q[n] \in Nat
      BY <1>1, <1>4, <1>5, <1>6, <1>8, <2>3
    <3>2. Total(q, F \cup {next}) = Total(q, F) + q[next]
      <4> HIDE DEF F, next
      <4> QED BY <2>3, <3>1, TotalAdds
    <3> QED BY <1>1, <1>5, <2>3, <3>2
  <2>8. rest <= q[next]
    <3>1. ~(P(f + 1) <= left)
      BY <1>6, <2>1
    <3> QED BY <1>7, <2>7, <3>1
  <2>9. Total(t, DOMAIN t) = left
    <3>1. IsFiniteSet(F) /\ \A n \in F \cup {next} : t[n] \in Nat
      BY <1>1, <1>4, <1>5, <1>6, <1>8, <2>3, <2>5, <2>6
    <3>2. Total(t, F \cup {next}) = Total(t, F) + t[next]
      <4> HIDE DEF F, next
      <4> QED BY <2>3, <3>1, TotalAdds
    <3>3. Total(t, F) = P(f)
      <4> HIDE DEF F
      <4>1. Total(t, F) = Total(q, F)
        BY <2>5, <3>1, TotalAgrees
      <4> QED BY <4>1 DEF F
    <3> QED BY <1>7, <2>4, <2>5, <3>2, <3>3
  <2>10. \A n \in F : t[n] \in Nat /\ t[n] <= b.orders[n].quantity
    BY <1>1, <1>5, <1>8, <2>5
  <2>11. \A n \in F, k \in Range(level) : k < n => k \in F
    <3>1. ASSUME NEW i \in 1..f, NEW j \in 1..z, level[j] < level[i] PROVE j \in 1..f
      <4>1. i \in 1..z /\ level[i] \in Nat /\ level[j] \in Nat
        BY <1>1, <1>6
      <4>2. ~(i < j) /\ i # j
        BY <1>1, <3>1, <4>1 DEF Rising
      <4> QED BY <1>1, <1>6, <4>1, <4>2
    <3>2. DOMAIN level = 1..z
      BY <1>1
    <3> QED BY <3>1, <3>2 DEF First, Range
  <2> HIDE DEF F, next, rest
  <2>12. /\ t[next] \in Nat /\ t[next] <= b.orders[next].quantity
    BY <2>5, <2>6, <2>7, <2>8
  <2>13. \A n \in DOMAIN t :
           /\ t[n] \in Nat /\ t[n] <= b.orders[n].quantity
           /\ \A k \in Range(level) : k < n => k \in F
    BY <2>3, <2>4, <2>10, <2>11, <2>12
  <2>14. F \subseteq DOMAIN t /\ DOMAIN t \subseteq Range(level)
         /\ \A n \in F : t[n] = b.orders[n].quantity
    BY <1>8, <2>3, <2>4, <2>5 DEF F
  <2>15. Total(t, DOMAIN t) <= left
    BY <2>9
  <2> QED BY <1>1, <1>6, <1>8, <2>9, <2>13, <2>14, <2>15 DEF F
<1> QED BY <1>9, <1>10

-----------------------------------------------------------------------------
(* matchOrder *)

\* The nodes of a set of levels, and the levels that the walk comes to before
\* the level l.
NodesOf(b, L) == UNION {Range(b.levels[m]) : m \in L}

Before(b, o, l) ==
  {m \in Matching(b, o) : IF o.side = "SELL" THEN m[2] < l[2] ELSE m[2] > l[2]}

LEMMA NodesAre ==
  ASSUME NEW b, BookInv(b), NEW L \in SUBSET DOMAIN b.levels
  PROVE  /\ NodesOf(b, L) \subseteq DOMAIN b.orders
         /\ IsFiniteSet(NodesOf(b, L))
         /\ Quantity(b, NodesOf(b, L)) = Total(Sizes(b), NodesOf(b, L))
         /\ Total(Sizes(b), NodesOf(b, L)) \in Nat
<1>1. \A l \in L : \A n \in Range(b.levels[l]) : n \in DOMAIN b.orders
  BY DEF BookInv, LevelRight, AtHome
<1>2. IsBook(b) /\ NodesOf(b, L) \subseteq DOMAIN b.orders
  BY <1>1 DEF BookInv, NodesOf
<1> QED BY <1>2, QuantityIs

LEMMA LeftIs ==
  ASSUME NEW b, BookInv(b), NEW o \in AnOrder, NEW l \in Matching(b, o)
  PROVE  /\ l \in DOMAIN b.levels /\ l[1] = Opposite(o.side) /\ l[2] \in Nat
         /\ Before(b, o, l) \subseteq DOMAIN b.levels
         /\ l \notin Before(b, o, l)
         /\ Left(b, o, l) = o.quantity - Total(Sizes(b), NodesOf(b, Before(b, o, l)))
         /\ Left(b, o, l) \in Int
<1>1. Matching(b, o) \subseteq DOMAIN b.levels /\ DOMAIN b.levels \subseteq ALevel
  BY DEF Matching, BookInv, IsBook
<1>2. l \in DOMAIN b.levels /\ l[1] = Opposite(o.side) /\ l[2] \in Nat
  BY <1>1, InputsAssumption DEF Matching, ALevel
<1>3. Before(b, o, l) \subseteq DOMAIN b.levels /\ l \notin Before(b, o, l)
  BY <1>1, <1>2 DEF Before
<1>4. Left(b, o, l) = o.quantity - Quantity(b, NodesOf(b, Before(b, o, l)))
  BY DEF Left, Before, NodesOf
<1>5. o.quantity \in Nat
  BY DEF AnOrder
<1> QED BY <1>2, <1>3, <1>4, <1>5, NodesAre

\* One level of the walk.
LEMMA WalkIs ==
  ASSUME NEW b, BookInv(b), NEW o \in AnOrder, NEW l \in DOMAIN Walk(b, o)
  PROVE  LET level == b.levels[l]
             m == Walk(b, o)[l]
         IN /\ l \in Matching(b, o) /\ l \in DOMAIN b.levels
            /\ Left(b, o, l) \in Nat
            /\ m.filled \in 0..Len(level)
            /\ First(level, m.filled) \subseteq DOMAIN m.trades
            /\ DOMAIN m.trades \subseteq Range(level)
            /\ Range(level) \subseteq DOMAIN b.orders
            /\ IsFiniteSet(Range(level))
            /\ \A n \in First(level, m.filled) : m.trades[n] = b.orders[n].quantity
            /\ \A n \in DOMAIN m.trades :
                 /\ m.trades[n] \in Nat /\ m.trades[n] <= b.orders[n].quantity
                 /\ \A k \in Range(level) : k < n => k \in First(level, m.filled)
            /\ Total(m.trades, DOMAIN m.trades) <= Left(b, o, l)
            /\ m.filled # Len(level) => Total(m.trades, DOMAIN m.trades) = Left(b, o, l)
<1>1. l \in Matching(b, o) /\ Left(b, o, l) > 0
  BY DEF Walk
<1>2. l \in DOMAIN b.levels /\ Left(b, o, l) \in Nat
  BY <1>1, LeftIs
<1>3. Walk(b, o)[l] = LevelMatch(b, b.levels[l], Left(b, o, l))
  BY DEF Walk
<1> DEFINE left == Left(b, o, l)
           level == b.levels[l]
           m == Walk(b, o)[l]
<1>4. left \in Nat /\ m = LevelMatch(b, b.levels[l], left)
  BY <1>2, <1>3
<1> HIDE DEF left, m
<1>5. /\ m.filled \in 0..Len(level)
      /\ First(level, m.filled) \subseteq DOMAIN m.trades
      /\ DOMAIN m.trades \subseteq Range(level)
      /\ Range(level) \subseteq DOMAIN b.orders
      /\ IsFiniteSet(Range(level))
      /\ \A n \in First(level, m.filled) : m.trades[n] = b.orders[n].quantity
      /\ \A n \in DOMAIN m.trades :
           /\ m.trades[n] \in Nat /\ m.trades[n] <= b.orders[n].quantity
           /\ \A k \in Range(level) : k < n => k \in First(level, m.filled)
      /\ Total(m.trades, DOMAIN m.trades) <= left
      /\ m.filled # Len(level) => Total(m.trades, DOMAIN m.trades) = left
  BY <1>2, <1>4, LevelMatchIs
<1> QED BY <1>1, <1>2, <1>4, <1>5 DEF left, m

TradesOf(b, o) ==
  [n \in UNION {DOMAIN Walk(b, o)[l].trades : l \in DOMAIN Walk(b, o)} |->
     Walk(b, o)[<<Opposite(o.side), b.orders[n].price>>].trades[n]]

FilledOf(b, o) ==
  UNION {First(b.levels[l], Walk(b, o)[l].filled) : l \in DOMAIN Walk(b, o)}

LEMMA TradesAre ==
  ASSUME NEW b, BookInv(b), NEW o \in AnOrder
  PROVE  LET w == Walk(b, o)
             t == TradesOf(b, o)
             F == FilledOf(b, o)
         IN /\ DOMAIN t \subseteq DOMAIN b.orders
            /\ F \subseteq DOMAIN t
            /\ \A n \in DOMAIN t : /\ t[n] \in Nat /\ t[n] <= b.orders[n].quantity
                                   /\ \E l \in DOMAIN w : n \in DOMAIN w[l].trades
            /\ \A n \in F : t[n] = b.orders[n].quantity
            /\ \A l \in DOMAIN w :
                 /\ DOMAIN t \cap Range(b.levels[l]) = DOMAIN w[l].trades
                 /\ F \cap Range(b.levels[l]) = First(b.levels[l], w[l].filled)
                 /\ \A n \in DOMAIN w[l].trades : t[n] = w[l].trades[n]
            /\ \A l \in DOMAIN b.levels \ DOMAIN w :
                 DOMAIN t \cap Range(b.levels[l]) = {} /\ F \cap Range(b.levels[l]) = {}
<1> DEFINE w == Walk(b, o)
           t == TradesOf(b, o)
           F == FilledOf(b, o)
<1>1. DOMAIN t = UNION {DOMAIN w[l].trades : l \in DOMAIN w}
  BY DEF TradesOf
<1>2. F = UNION {First(b.levels[l], w[l].filled) : l \in DOMAIN w}
  BY DEF FilledOf
<1>3. ASSUME NEW l \in DOMAIN w, NEW n \in DOMAIN w[l].trades
      PROVE  t[n] = w[l].trades[n]
  <2>1. l \in Matching(b, o) /\ l \in DOMAIN b.levels /\ n \in Range(b.levels[l])
    BY WalkIs
  <2>2. <<b.orders[n].side, b.orders[n].price>> = l
    BY <2>1 DEF BookInv, LevelRight, AtHome
  <2>3. l[1] = Opposite(o.side)
    BY <2>1, LeftIs
  <2>4. <<Opposite(o.side), b.orders[n].price>> = l
    BY <2>2, <2>3
  <2>5. n \in DOMAIN t
    BY <1>1
  <2>6. t[n] = w[<<Opposite(o.side), b.orders[n].price>>].trades[n]
    BY <2>5 DEF TradesOf
  <2> QED BY <2>4, <2>6
<1>4. ASSUME NEW l \in DOMAIN w
      PROVE  /\ l \in DOMAIN b.levels
             /\ First(b.levels[l], w[l].filled) \subseteq DOMAIN w[l].trades
             /\ DOMAIN w[l].trades \subseteq Range(b.levels[l])
             /\ Range(b.levels[l]) \subseteq DOMAIN b.orders
             /\ \A n \in First(b.levels[l], w[l].filled) :
                  w[l].trades[n] = b.orders[n].quantity
             /\ \A n \in DOMAIN w[l].trades :
                  w[l].trades[n] \in Nat /\ w[l].trades[n] <= b.orders[n].quantity
  BY WalkIs
<1> HIDE DEF w, t, F
<1>5. \A l \in DOMAIN b.levels, m \in DOMAIN w : \A n \in Range(b.levels[l]) :
         n \in DOMAIN w[m].trades => l = m
  BY <1>4, OneHome
<1>6. DOMAIN t \subseteq DOMAIN b.orders /\ F \subseteq DOMAIN t
  BY <1>1, <1>2, <1>4
<1>7. ASSUME NEW n \in DOMAIN t
      PROVE  /\ t[n] \in Nat /\ t[n] <= b.orders[n].quantity
             /\ \E l \in DOMAIN w : n \in DOMAIN w[l].trades
  BY <1>1, <1>3, <1>4
<1>8. ASSUME NEW n \in F PROVE t[n] = b.orders[n].quantity
  BY <1>2, <1>3, <1>4
<1>9. ASSUME NEW l \in DOMAIN w
      PROVE  /\ DOMAIN t \cap Range(b.levels[l]) = DOMAIN w[l].trades
             /\ F \cap Range(b.levels[l]) = First(b.levels[l], w[l].filled)
  <2>1. DOMAIN t \cap Range(b.levels[l]) = DOMAIN w[l].trades
    BY <1>1, <1>4, <1>5
  <2>2. F \cap Range(b.levels[l]) = First(b.levels[l], w[l].filled)
    BY <1>2, <1>4, <1>5, SMTT(60)
  <2> QED BY <2>1, <2>2
<1>10. ASSUME NEW l \in DOMAIN b.levels \ DOMAIN w
       PROVE DOMAIN t \cap Range(b.levels[l]) = {} /\ F \cap Range(b.levels[l]) = {}
  BY <1>1, <1>5, <1>6
<1> QED BY <1>3, <1>6, <1>7, <1>8, <1>9, <1>10 DEF w, t, F

LEMMA MatchedIs ==
  ASSUME NEW b, IsBook(b), NEW o
  PROVE  LET t == TradesOf(b, o)
             F == FilledOf(b, o)
             w == Walk(b, o)
         IN Matched(b, o) =
              [orders |-> [n \in DOMAIN b.orders |->
                             IF n \in DOMAIN t
                               THEN Reduced(b.orders[n], t[n])
                               ELSE b.orders[n]],
               byId |-> [i \in {j \in DOMAIN b.byId : b.byId[j].node \notin F} |-> b.byId[i]],
               levels |-> [l \in DOMAIN b.levels |->
                             IF l \in DOMAIN w
                               THEN SubSeq(b.levels[l], w[l].filled + 1, Len(b.levels[l]))
                               ELSE b.levels[l]],
               trades |-> t, inserted |-> b.inserted]
<1> DEFINE t == TradesOf(b, o)
           F == FilledOf(b, o)
           w == Walk(b, o)
           os == b.orders
           ids == b.byId
           ls == b.levels
           ts == b.trades
           n == b.inserted
           orders == [k \in DOMAIN os |->
                        IF k \in DOMAIN t THEN Reduced(os[k], t[k]) ELSE os[k]]
           byId == [i \in {j \in DOMAIN ids : ids[j].node \notin F} |-> ids[i]]
           levels == [l \in DOMAIN ls |->
                        IF l \in DOMAIN w
                          THEN SubSeq(ls[l], w[l].filled + 1, Len(ls[l])) ELSE ls[l]]
<1>1. b = [orders |-> os, byId |-> ids, levels |-> ls, trades |-> ts, inserted |-> n]
  BY DEF IsBook
<1>2. Matched(b, o) =
        [b EXCEPT !.trades = t, !.orders = orders, !.byId = byId, !.levels = levels]
  BY DEF Matched, TradesOf, FilledOf, EraseFilled, Restrict
<1>3. Matched(b, o) =
        [orders |-> orders, byId |-> byId, levels |-> levels, trades |-> t, inserted |-> n]
  <2> HIDE DEF os, ids, ls, ts, n, t, F, w, orders, byId, levels
  <2> QED BY <1>1, <1>2
<1> QED BY <1>3

LEMMA MatchedKeeps ==
  ASSUME NEW b, BookInv(b), NEW o \in AnOrder
  PROVE  LET r == Matched(b, o)
             t == TradesOf(b, o)
         IN /\ BookInv(r)
            /\ r.trades = t /\ r.inserted = b.inserted
            /\ DOMAIN r.orders = DOMAIN b.orders
            /\ \A n \in DOMAIN b.orders :
                 /\ r.orders[n].side = b.orders[n].side
                 /\ r.orders[n].quantity = b.orders[n].quantity
                                           - (IF n \in DOMAIN t THEN t[n] ELSE 0)
            /\ DOMAIN r.byId \subseteq DOMAIN b.byId
            /\ DOMAIN r.levels = DOMAIN b.levels
            /\ LevelsLose(b, r, FilledOf(b, o))
<1> DEFINE t == TradesOf(b, o)
           F == FilledOf(b, o)
           w == Walk(b, o)
           r == Matched(b, o)
           After(n) == IF n \in DOMAIN t THEN Reduced(b.orders[n], t[n])
                       ELSE b.orders[n]
           Rest(l) == IF l \in DOMAIN w
                        THEN SubSeq(b.levels[l], w[l].filled + 1, Len(b.levels[l]))
                        ELSE b.levels[l]
<1>1. IsBook(b)
  BY DEF BookInv
<1>2. r = [orders |-> [n \in DOMAIN b.orders |-> After(n)],
           byId |-> [i \in {j \in DOMAIN b.byId : b.byId[j].node \notin F} |-> b.byId[i]],
           levels |-> [l \in DOMAIN b.levels |-> Rest(l)],
           trades |-> t, inserted |-> b.inserted]
  BY <1>1, MatchedIs
<1>3. ASSUME NEW n \in DOMAIN b.orders
      PROVE  /\ After(n) \in AnOrder
             /\ After(n).id = b.orders[n].id
             /\ After(n).side = b.orders[n].side
             /\ After(n).price = b.orders[n].price
             /\ After(n).quantity = b.orders[n].quantity
                                    - (IF n \in DOMAIN t THEN t[n] ELSE 0)
  <2>1. b.orders[n] \in AnOrder
    BY <1>1 DEF IsBook
  <2>2. n \in DOMAIN t => t[n] \in Nat /\ t[n] <= b.orders[n].quantity
    BY TradesAre
  <2> DEFINE a == b.orders[n]
             x == t[n]
  <2>3. CASE n \in DOMAIN t
    <3>1. a \in AnOrder /\ x \in Nat /\ x <= a.quantity /\ a.quantity - x \in Nat
      BY <2>1, <2>2, <2>3 DEF AnOrder
    <3>2. After(n) = [a EXCEPT !.quantity = a.quantity - x]
      BY <2>3 DEF Reduced
    <3> HIDE DEF a, x, After
    <3>3. /\ After(n) \in AnOrder /\ After(n).id = a.id /\ After(n).side = a.side
          /\ After(n).price = a.price /\ After(n).quantity = a.quantity - x
      BY <3>1, <3>2 DEF AnOrder
    <3> QED BY <2>3, <3>3 DEF a, x
  <2>4. CASE n \notin DOMAIN t
    <3>1. After(n) = a /\ a.quantity - 0 = a.quantity
      BY <2>1, <2>4 DEF AnOrder
    <3> HIDE DEF After
    <3> QED BY <2>1, <2>4, <3>1
  <2> QED BY <2>3, <2>4
<1>4. ASSUME NEW l \in DOMAIN b.levels
      PROVE  /\ Rest(l) \in Seq(Nat) /\ Rising(Rest(l))
             /\ Range(Rest(l)) = Range(b.levels[l]) \ F
  <2> DEFINE s == b.levels[l]
             n == w[l].filled
  <2>1. s \in Seq(Nat) /\ Rising(s)
    BY <1>1 DEF BookInv, LevelRight, IsBook
  <2>2. CASE l \in DOMAIN w
    <3>1. n \in 0..Len(s)
      BY <2>2, WalkIs
    <3>2. F \cap Range(s) = First(s, n)
      BY <2>2, TradesAre
    <3>3. Rest(l) = SubSeq(s, n + 1, Len(s))
      BY <2>2
    <3> HIDE DEF s, n, Rest, F
    <3>4. /\ Rest(l) \in Seq(Nat) /\ Rising(Rest(l))
          /\ Range(Rest(l)) = Range(s) \ First(s, n)
          /\ Len(Rest(l)) = Len(s) - n
      BY <2>1, <3>1, <3>3, RisesFrom
    <3>5. Range(s) \ First(s, n) = Range(s) \ F
      BY <3>2
    <3> QED BY <2>2, <3>4, <3>5 DEF s, n
  <2>3. CASE l \notin DOMAIN w
    <3>1. F \cap Range(s) = {}
      BY <2>3, TradesAre
    <3>2. Range(s) = Range(s) \ F
      BY <3>1
    <3> QED BY <2>1, <2>3, <3>2
  <2> QED BY <2>2, <2>3
<1> HIDE DEF r, t, F, w, After, Rest
<1>5. /\ DOMAIN r.orders = DOMAIN b.orders
      /\ \A n \in DOMAIN b.orders : r.orders[n] = After(n)
      /\ r.orders \in [DOMAIN b.orders -> AnOrder]
  BY <1>2, <1>3
<1>6. /\ \A i : i \in DOMAIN r.byId
               <=> i \in DOMAIN b.byId /\ b.byId[i].node \notin F
      /\ \A i \in DOMAIN r.byId : r.byId[i] = b.byId[i]
      /\ r.byId \in [DOMAIN r.byId -> ABlock]
  BY <1>1, <1>2 DEF IsBook
<1>7. /\ DOMAIN r.levels = DOMAIN b.levels
      /\ \A l \in DOMAIN b.levels : r.levels[l] = Rest(l)
      /\ r.levels \in [DOMAIN b.levels -> Seq(Nat)]
  BY <1>2, <1>4
<1>8. r.trades = t /\ r.inserted = b.inserted
  BY <1>2
<1>9. r = [orders |-> r.orders, byId |-> r.byId, levels |-> r.levels,
           trades |-> r.trades, inserted |-> r.inserted]
  <2>1. /\ r.orders = [n \in DOMAIN b.orders |-> After(n)]
        /\ r.byId = [i \in {j \in DOMAIN b.byId : b.byId[j].node \notin F} |-> b.byId[i]]
        /\ r.levels = [l \in DOMAIN b.levels |-> Rest(l)]
    BY <1>2
  <2> QED BY <1>2, <1>8, <2>1
<1>10. BookInv(r)
  <2>1. \A n \in DOMAIN b.orders : /\ r.orders[n].id = b.orders[n].id
                                   /\ r.orders[n].side = b.orders[n].side
                                   /\ r.orders[n].price = b.orders[n].price
    BY <1>3, <1>5
  <2>2. \A l \in DOMAIN b.levels : /\ Rising(r.levels[l])
                                   /\ Range(r.levels[l]) = Range(b.levels[l]) \ F
    BY <1>4, <1>7
  <2>3. SameOrders(b, r)
    BY <1>5, <2>1 DEF SameOrders
  <2>4. FewerIds(b, r, F)
    BY <1>6 DEF FewerIds
  <2>5. ShorterLevels(b, r, F)
    BY <1>7, <2>2 DEF ShorterLevels
  <2>6. SameFields(r)
    BY <1>9 DEF SameFields
  <2> QED BY <1>8, <2>3, <2>4, <2>5, <2>6, RequantifiedKeeps
<1>11. \A n \in DOMAIN b.orders :
         /\ r.orders[n].side = b.orders[n].side
         /\ r.orders[n].quantity = b.orders[n].quantity
                                   - (IF n \in DOMAIN t THEN t[n] ELSE 0)
  BY <1>3, <1>5
<1>12. LevelsLose(b, r, F)
  BY <1>4, <1>7 DEF LevelsLose
<1>13. DOMAIN r.byId \subseteq DOMAIN b.byId
  BY <1>6
<1> QED BY <1>5, <1>7, <1>8, <1>10, <1>11, <1>12, <1>13 DEF r, t, F, w

-----------------------------------------------------------------------------
(* How much an order trades *)

LEMMA PricesBounded ==
  ASSUME NEW L, IsFiniteSet(L), \A l \in L : l[2] \in Nat
  PROVE  \E n \in Nat : \A l \in L : l[2] <= n
<1> DEFINE T == {s \in SUBSET L : \E n \in Nat : \A l \in s : l[2] <= n}
<1>1. {} \in T
  OBVIOUS
<1>2. ASSUME NEW s \in T, NEW x \in L \ s PROVE s \cup {x} \in T
  <2>1. PICK n \in Nat : \A l \in s : l[2] <= n
    OBVIOUS
  <2> DEFINE p == x[2]
             m == IF p <= n THEN n ELSE p
  <2>2. p \in Nat /\ m \in Nat /\ p <= m /\ n <= m
    OBVIOUS
  <2>3. \A l \in s \cup {x} : l[2] <= m
    <3> SUFFICES ASSUME NEW l \in s PROVE l[2] <= m
      BY <2>2
    <3>1. l[2] \in Nat /\ l[2] <= n
      BY <2>1
    <3> HIDE DEF m
    <3> QED BY <2>2, <3>1
  <2> HIDE DEF m
  <2> QED BY <2>2, <2>3
<1>3. T \in SUBSET SUBSET L
  OBVIOUS
<1>4. L \in T
  <2> HIDE DEF T
  <2> QED BY <1>1, <1>2, <1>3, SetInduction
<1> QED BY <1>4

LEMMA PricesHaveEnds ==
  ASSUME NEW L, IsFiniteSet(L), \A l \in L : l[2] \in Nat, L # {}
  PROVE  /\ \E l \in L : \A m \in L : m[2] <= l[2]
         /\ \E l \in L : \A m \in L : m[2] >= l[2]
<1>1. PICK n \in Nat : \A l \in L : l[2] <= n
  BY PricesBounded
<1> DEFINE P == {l[2] : l \in L}
           R == {n - l[2] : l \in L}
<1>2. P \in SUBSET (0..n) /\ P # {}
  BY <1>1
<1>3. R \in SUBSET (0..n) /\ R # {}
  BY <1>1
<1>4. PICK x \in P : \A y \in P : x >= y
  <2> HIDE DEF P
  <2> QED BY <1>2, SomeIsMost
<1>5. PICK z \in R : \A y \in R : z >= y
  <2> HIDE DEF R
  <2> QED BY <1>3, SomeIsMost
<1>6. PICK l \in L : x = l[2]
  OBVIOUS
<1>7. PICK k \in L : z = n - k[2]
  OBVIOUS
<1>8. \A m \in L : m[2] <= l[2]
  <2> SUFFICES ASSUME NEW m \in L PROVE m[2] <= l[2]
    OBVIOUS
  <2>1. x >= m[2]
    BY <1>4
  <2> QED BY <1>6, <2>1
<1>9. \A m \in L : m[2] >= k[2]
  <2> SUFFICES ASSUME NEW m \in L PROVE m[2] >= k[2]
    OBVIOUS
  <2>1. z >= n - m[2]
    BY <1>5
  <2>2. m[2] \in Nat /\ k[2] \in Nat
    OBVIOUS
  <2> QED BY <1>7, <2>1, <2>2
<1> QED BY <1>8, <1>9

\* Of some levels of the walk, one comes last and one first.
LEMMA WalkHasEnds ==
  ASSUME NEW b, BookInv(b), NEW o \in AnOrder,
         NEW L \in SUBSET Matching(b, o), L # {}
  PROVE  /\ \E l \in L : \A m \in L : m = l \/ m \in Before(b, o, l)
         /\ \E l \in L : \A m \in L : m \notin Before(b, o, l)
<1>1. \A l \in L : l[2] \in Nat /\ l[1] = Opposite(o.side) /\ l \in ALevel
  BY LeftIs DEF BookInv, IsBook
<1>2. IsFiniteSet(L)
  <2>1. L \subseteq DOMAIN b.levels /\ IsFiniteSet(DOMAIN b.levels)
    BY DEF Matching, BookInv, IsBook
  <2> QED BY <2>1, FS_Subset
<1>3. PICK h \in L : \A m \in L : m[2] <= h[2]
  BY <1>1, <1>2, PricesHaveEnds
<1>4. PICK k \in L : \A m \in L : m[2] >= k[2]
  BY <1>1, <1>2, PricesHaveEnds
<1>5. \A l, m \in L : l[2] = m[2] => l = m
  BY <1>1 DEF ALevel
<1>6. \A l, m \in L : m \in Before(b, o, l)
                      <=> IF o.side = "SELL" THEN m[2] < l[2] ELSE m[2] > l[2]
  BY DEF Before
<1>7. CASE o.side = "SELL"
  <2>1. \A m \in L : m = h \/ m \in Before(b, o, h)
    <3> SUFFICES ASSUME NEW m \in L, m # h PROVE m[2] < h[2]
      BY <1>6, <1>7
    <3>1. m[2] # h[2] /\ m[2] <= h[2]
      BY <1>3, <1>5
    <3> QED BY <1>1, <3>1
  <2>2. \A m \in L : m \notin Before(b, o, k)
    <3> SUFFICES ASSUME NEW m \in L PROVE ~(m[2] < k[2])
      BY <1>6, <1>7
    <3>1. m[2] >= k[2]
      BY <1>4
    <3> QED BY <1>1, <3>1
  <2> QED BY <2>1, <2>2
<1>8. CASE o.side # "SELL"
  <2>1. \A m \in L : m = k \/ m \in Before(b, o, k)
    <3> SUFFICES ASSUME NEW m \in L, m # k PROVE m[2] > k[2]
      BY <1>6, <1>8
    <3>1. m[2] # k[2] /\ m[2] >= k[2]
      BY <1>4, <1>5
    <3> QED BY <1>1, <3>1
  <2>2. \A m \in L : m \notin Before(b, o, h)
    <3> SUFFICES ASSUME NEW m \in L PROVE ~(m[2] > h[2])
      BY <1>6, <1>8
    <3>1. m[2] <= h[2]
      BY <1>3
    <3> QED BY <1>1, <3>1
  <2> QED BY <2>1, <2>2
<1> QED BY <1>7, <1>8

LEMMA TradedIs ==
  ASSUME NEW b, BookInv(b), NEW o \in AnOrder
  PROVE  /\ Traded(Matched(b, o)) = Total(TradesOf(b, o), DOMAIN TradesOf(b, o))
         /\ IsFiniteSet(DOMAIN TradesOf(b, o))
         /\ Traded(Matched(b, o)) \in Nat
<1> DEFINE t == TradesOf(b, o)
<1>1. Matched(b, o).trades = t
  BY MatchedKeeps
<1>2. Traded(Matched(b, o)) = Total(t, DOMAIN t)
  BY <1>1 DEF Traded, SumFunction, Total
<1>3. IsFiniteSet(DOMAIN t)
  <2>1. IsBook(b) /\ DOMAIN t \subseteq DOMAIN b.orders
    BY TradesAre DEF BookInv
  <2> QED BY <2>1, QuantityIs
<1>4. \A n \in DOMAIN t : t[n] \in Nat
  BY TradesAre
<1>5. Total(t, DOMAIN t) \in Nat
  <2> HIDE DEF t
  <2> QED BY <1>3, <1>4, TotalTakes
<1> QED BY <1>2, <1>3, <1>5

\* The trades at one level of the walk, and those at the levels before it.
LEMMA TradedAt ==
  ASSUME NEW b, BookInv(b), NEW o \in AnOrder, NEW l \in DOMAIN Walk(b, o)
  PROVE  LET t == TradesOf(b, o)
             here == DOMAIN Walk(b, o)[l].trades
             X == NodesOf(b, Before(b, o, l))
         IN /\ here \subseteq DOMAIN t /\ IsFiniteSet(here) /\ here \cap X = {}
            /\ Total(t, here) \in Nat /\ Total(t, here) <= Left(b, o, l)
            /\ Walk(b, o)[l].filled # Len(b.levels[l]) => Total(t, here) = Left(b, o, l)
<1> DEFINE t == TradesOf(b, o)
           e == Walk(b, o)[l].trades
           here == DOMAIN e
           X == NodesOf(b, Before(b, o, l))
<1>1. l \in Matching(b, o) /\ l \in DOMAIN b.levels /\ here \subseteq Range(b.levels[l])
      /\ IsFiniteSet(Range(b.levels[l])) /\ \A n \in here : e[n] \in Nat
  BY WalkIs
<1>2. Total(e, here) <= Left(b, o, l)
      /\ (Walk(b, o)[l].filled # Len(b.levels[l]) => Total(e, here) = Left(b, o, l))
  BY WalkIs
<1>3. here \subseteq DOMAIN t /\ \A n \in here : t[n] = e[n]
  BY TradesAre
<1>4. IsFiniteSet(here)
  BY <1>1, FS_Subset
<1>5. Total(t, here) = Total(e, here) /\ Total(e, here) \in Nat
  <2> HIDE DEF t, e
  <2> QED BY <1>1, <1>3, <1>4, TotalAgrees, TotalTakes
<1>6. here \cap X = {}
  <2> SUFFICES ASSUME NEW n \in here, NEW m \in Before(b, o, l), n \in Range(b.levels[m])
               PROVE  FALSE
    BY DEF NodesOf
  <2>1. m \in DOMAIN b.levels /\ m # l
    BY <1>1, LeftIs
  <2>2. n \in Range(b.levels[l])
    BY <1>1
  <2> QED BY <1>1, <2>1, <2>2, OneHome
<1> QED BY <1>2, <1>3, <1>4, <1>5, <1>6

LEMMA TradesWhere ==
  ASSUME NEW b, BookInv(b), NEW o \in AnOrder
  PROVE  \A n \in DOMAIN TradesOf(b, o) :
           \E m \in DOMAIN Walk(b, o) : /\ m \in Matching(b, o) /\ m \in DOMAIN b.levels
                                        /\ n \in DOMAIN Walk(b, o)[m].trades
                                        /\ n \in Range(b.levels[m])
BY TradesAre, WalkIs

\* An order trades no more than its quantity.
LEMMA TradedWithin ==
  ASSUME NEW b, BookInv(b), NEW o \in AnOrder
  PROVE  Traded(Matched(b, o)) <= o.quantity
<1> DEFINE t == TradesOf(b, o)
           D == DOMAIN t
           L == DOMAIN Walk(b, o)
           q == Sizes(b)
<1>0. /\ Traded(Matched(b, o)) = Total(t, D) /\ IsFiniteSet(D)
      /\ Traded(Matched(b, o)) \in Nat /\ o.quantity \in Nat
  BY TradedIs DEF AnOrder
<1>1. CASE L = {}
  <2>1. D = {}
    BY <1>1, TradesWhere
  <2>2. Total(t, D) = 0
    BY <2>1, TotalSteps, FS_EmptySet
  <2> QED BY <1>0, <2>2
<1>2. CASE L # {}
  <2>1. L \in SUBSET Matching(b, o)
    BY WalkIs
  <2>2. PICK l \in L : \A m \in L : m = l \/ m \in Before(b, o, l)
    BY <1>2, <2>1, WalkHasEnds
  <2> DEFINE here == DOMAIN Walk(b, o)[l].trades
             X == NodesOf(b, Before(b, o, l))
             early == D \cap X
  <2>3. /\ here \subseteq D /\ IsFiniteSet(here) /\ here \cap X = {}
        /\ Total(t, here) \in Nat /\ Total(t, here) <= Left(b, o, l)
    BY TradedAt
  <2>4. l \in Matching(b, o)
    BY <2>1
  <2>5. /\ Left(b, o, l) = o.quantity - Total(q, X)
        /\ IsFiniteSet(X) /\ Total(q, X) \in Nat
    BY <2>4, LeftIs, NodesAre
  <2>6. D = early \cup here
    <3> SUFFICES ASSUME NEW n \in D PROVE n \in X \/ n \in here
      BY <2>3
    <3>1. PICK m \in L : n \in DOMAIN Walk(b, o)[m].trades /\ n \in Range(b.levels[m])
      BY TradesWhere
    <3>2. CASE m = l
      BY <3>1, <3>2
    <3>3. CASE m \in Before(b, o, l)
      BY <3>1, <3>3 DEF NodesOf
    <3> QED BY <2>2, <3>2, <3>3
  <2>7. /\ \A n \in D : t[n] \in Nat /\ t[n] <= q[n]
        /\ \A n \in X : q[n] \in Nat
    <3>1. X \subseteq DOMAIN b.orders /\ D \subseteq DOMAIN b.orders
      BY <2>4, LeftIs, NodesAre, TradesAre
    <3>2. \A n \in DOMAIN b.orders : q[n] = b.orders[n].quantity /\ q[n] \in Nat
      BY QuantityIs DEF BookInv
    <3> QED BY <3>1, <3>2, TradesAre
  <2> DEFINE r == [n \in X |-> q[n]]
  <2> HIDE DEF t, D, q, here, X, L
  <2>8. IsFiniteSet(early) /\ early \cap here = {}
    BY <2>3, <2>5, FS_Subset
  <2>9. Total(t, early) \in Nat /\ Total(t, early) <= Total(q, X)
    <3>1. early \in SUBSET X /\ \A n \in early : t[n] \in Nat /\ t[n] <= q[n]
      BY <2>7
    <3> HIDE DEF early
    <3> QED BY <2>5, <2>7, <3>1, TotalGrows
  <2>10. Total(t, early \cup here) = Total(t, early) + Total(t, here)
    <3>1. \A n \in early \cup here : t[n] \in Nat
      BY <2>6, <2>7
    <3> HIDE DEF early
    <3> QED BY <2>3, <2>8, <3>1, TotalUnion
  <2>11. Total(t, D) <= o.quantity
    <3> HIDE DEF early
    <3>1. Total(t, D) = Total(t, early) + Total(t, here)
      BY <2>6, <2>10
    <3> DEFINE x == Total(t, early)
               y == Total(t, here)
               z == Total(q, X)
    <3>2. x \in Nat /\ y \in Nat /\ z \in Nat /\ x <= z /\ y <= o.quantity - z
      BY <2>3, <2>5, <2>9
    <3> HIDE DEF x, y, z
    <3>3. x + y <= o.quantity
      BY <1>0, <3>2
    <3> QED BY <3>1, <3>3 DEF x, y
  <2> QED BY <1>0, <2>11
<1> QED BY <1>1, <1>2

\* Nor more than the orders within its limit offer, and just that when all of
\* them are filled.
LEMMA TradedOffered ==
  ASSUME NEW b, BookInv(b), NEW o \in AnOrder
  PROVE  LET offered == NodesOf(b, Matching(b, o))
         IN /\ Traded(Matched(b, o)) <= Total(Sizes(b), offered)
            /\ offered \subseteq FilledOf(b, o) =>
                 Traded(Matched(b, o)) = Total(Sizes(b), offered)
            /\ DOMAIN TradesOf(b, o) \subseteq offered
            /\ IsFiniteSet(offered) /\ Total(Sizes(b), offered) \in Nat
<1> DEFINE t == TradesOf(b, o)
           D == DOMAIN t
           q == Sizes(b)
           N == NodesOf(b, Matching(b, o))
           F == FilledOf(b, o)
<1>0. Traded(Matched(b, o)) = Total(t, D) /\ IsFiniteSet(D)
  BY TradedIs
<1>1. N \subseteq DOMAIN b.orders /\ IsFiniteSet(N) /\ Total(q, N) \in Nat
  <2>1. Matching(b, o) \subseteq DOMAIN b.levels
    BY DEF Matching
  <2> QED BY <2>1, NodesAre
<1>2. D \subseteq N
  BY TradesWhere DEF NodesOf
<1>3. \A n \in DOMAIN b.orders : q[n] = b.orders[n].quantity /\ q[n] \in Nat
  BY QuantityIs DEF BookInv
<1>4. /\ \A n \in D : t[n] \in Nat /\ t[n] <= b.orders[n].quantity
      /\ F \subseteq D /\ \A n \in F : t[n] = b.orders[n].quantity
  BY TradesAre
<1> HIDE DEF t, D, q, N, F
<1>5. Total(t, D) <= Total(q, N)
  <2>1. /\ D \in SUBSET N /\ \A n \in N : q[n] \in Nat
        /\ \A n \in D : t[n] \in Nat /\ t[n] <= q[n]
    BY <1>1, <1>2, <1>3, <1>4
  <2> QED BY <1>1, <2>1, TotalGrows
<1>6. ASSUME N \subseteq F PROVE Total(t, D) = Total(q, N)
  <2>1. D = N /\ \A n \in D : t[n] = q[n]
    BY <1>1, <1>2, <1>3, <1>4, <1>6
  <2> QED BY <1>0, <2>1, TotalAgrees
<1> QED BY <1>0, <1>1, <1>2, <1>5, <1>6 DEF t, D, q, N, F

\* Its whole quantity, when some of them is left.
LEMMA TradedWhole ==
  ASSUME NEW b, BookInv(b), NEW o \in AnOrder,
         ~(NodesOf(b, Matching(b, o)) \subseteq FilledOf(b, o))
  PROVE  Traded(Matched(b, o)) = o.quantity
<1> DEFINE t == TradesOf(b, o)
           D == DOMAIN t
           q == Sizes(b)
           F == FilledOf(b, o)
           L == {l \in Matching(b, o) : ~(Range(b.levels[l]) \subseteq F)}
<1>0. /\ Traded(Matched(b, o)) = Total(t, D) /\ IsFiniteSet(D)
      /\ Traded(Matched(b, o)) \in Nat /\ Traded(Matched(b, o)) <= o.quantity
      /\ o.quantity \in Nat
  BY TradedIs, TradedWithin DEF AnOrder
<1>1. L \in SUBSET Matching(b, o) /\ L # {}
  BY DEF NodesOf
<1>2. PICK l \in L : \A m \in L : m \notin Before(b, o, l)
  <2> HIDE DEF L
  <2> QED BY <1>1, WalkHasEnds
<1>3. l \in Matching(b, o) /\ ~(Range(b.levels[l]) \subseteq F)
  OBVIOUS
<1> DEFINE X == NodesOf(b, Before(b, o, l))
<1>4. X \subseteq F
  <2>1. \A m \in Before(b, o, l) : m \in Matching(b, o) /\ m \notin L
    BY <1>2 DEF Before
  <2>2. \A m \in Before(b, o, l) : Range(b.levels[m]) \subseteq F
    BY <2>1
  <2> HIDE DEF F, L
  <2> QED BY <2>2 DEF NodesOf
<1>5. /\ l \in DOMAIN b.levels /\ Left(b, o, l) \in Int
      /\ Left(b, o, l) = o.quantity - Total(q, X)
      /\ IsFiniteSet(X) /\ Total(q, X) \in Nat /\ X \subseteq DOMAIN b.orders
  BY <1>3, LeftIs, NodesAre
<1>6. /\ D \subseteq DOMAIN b.orders /\ \A n \in D : t[n] \in Nat
      /\ F \subseteq D /\ \A n \in F : t[n] = b.orders[n].quantity
  BY TradesAre
<1>7. Total(t, X) = Total(q, X)
  <2>1. \A n \in X : q[n] = b.orders[n].quantity
    BY <1>5, QuantityIs DEF BookInv
  <2>2. \A n \in X : t[n] = q[n]
    BY <1>4, <1>6, <2>1
  <2> HIDE DEF t, q, X
  <2> QED BY <1>5, <2>2, TotalAgrees
<1>8. CASE l \in DOMAIN Walk(b, o)
  <2> DEFINE here == DOMAIN Walk(b, o)[l].trades
  <2>1. /\ here \subseteq D /\ IsFiniteSet(here) /\ here \cap X = {}
        /\ Total(t, here) \in Nat
        /\ Walk(b, o)[l].filled # Len(b.levels[l]) => Total(t, here) = Left(b, o, l)
    BY <1>8, TradedAt
  <2>2. Walk(b, o)[l].filled # Len(b.levels[l])
    <3>1. b.levels[l] \in Seq(Nat) /\ Rising(b.levels[l])
      BY <1>5 DEF BookInv, IsBook, LevelRight
    <3>2. First(b.levels[l], Len(b.levels[l])) = Range(b.levels[l])
      BY <3>1, FirstIs
    <3>3. F \cap Range(b.levels[l]) = First(b.levels[l], Walk(b, o)[l].filled)
      BY <1>8, TradesAre
    <3> QED BY <1>3, <3>2, <3>3
  <2> DEFINE early == X \cup here
  <2>3. early \in SUBSET D /\ \A n \in early : t[n] \in Nat
    BY <1>4, <1>6, <2>1
  <2> HIDE DEF t, D, q, X, here, F, L
  <2>4. Total(t, X \cup here) = Total(t, X) + Total(t, here)
    <3>1. \A n \in X \cup here : t[n] \in Nat
      BY <2>3
    <3>2. X \cap here = {}
      BY <2>1
    <3> QED BY <1>5, <2>1, <3>1, <3>2, TotalUnion
  <2>5. Total(t, early) \in Nat /\ Total(t, early) <= Total(t, D)
    <3>1. \A n \in early : t[n] <= t[n]
      BY <2>3
    <3> HIDE DEF early
    <3> QED BY <1>0, <1>6, <2>3, <3>1, TotalGrows
  <2>6. Total(t, early) = o.quantity
    <3> DEFINE x == Total(t, X)
               y == Total(t, here)
    <3>1. x \in Nat /\ y = o.quantity - x /\ Total(t, early) = x + y
      BY <1>5, <1>7, <2>1, <2>2, <2>4
    <3> HIDE DEF x, y, early
    <3> QED BY <1>0, <3>1
  <2> HIDE DEF early
  <2> QED BY <1>0, <2>5, <2>6
<1>9. CASE l \notin DOMAIN Walk(b, o)
  <2>1. ~(Left(b, o, l) > 0)
    BY <1>3, <1>9 DEF Walk
  <2>2. Total(t, X) <= Total(t, D)
    <3>1. X \in SUBSET D /\ \A n \in X : t[n] \in Nat /\ t[n] <= t[n]
      BY <1>4, <1>6
    <3> HIDE DEF t, D, X
    <3> QED BY <1>0, <1>6, <3>1, TotalGrows
  <2> DEFINE x == Total(q, X)
             y == Total(t, D)
  <2>3. x \in Nat /\ y \in Nat /\ ~(o.quantity - x > 0) /\ x <= y /\ y <= o.quantity
    BY <1>0, <1>5, <1>7, <2>1, <2>2
  <2> HIDE DEF x, y, t, D, X, F, L, q
  <2>4. y = o.quantity
    BY <1>0, <2>3
  <2> QED BY <1>0, <2>4 DEF y
<1> QED BY <1>8, <1>9

-----------------------------------------------------------------------------
(* No buy order rests at or above the price of a sell order *)

Uncrossed(b) ==
  \A l, m \in DOMAIN b.levels :
    /\ l[1] = "BUY" /\ b.levels[l] # <<>>
    /\ m[1] = "SELL" /\ b.levels[m] # <<>>
    => l[2] < m[2]

LEMMA EmptyRange ==
  ASSUME NEW s \in Seq(Nat) PROVE s = <<>> <=> Range(s) = {}
<1>1. CASE s = <<>>
  BY <1>1 DEF Range
<1>2. CASE s # <<>>
  <2>1. 1 \in DOMAIN s
    BY <1>2
  <2> QED BY <1>2, <2>1 DEF Range
<1> QED BY <1>1, <1>2

\* Orders that leave their levels cross nothing.
LEMMA UncrossedShrinks ==
  ASSUME NEW b, BookInv(b), NEW c, BookInv(c), Uncrossed(b),
         DOMAIN c.levels = DOMAIN b.levels,
         \A l \in DOMAIN b.levels : Range(c.levels[l]) \subseteq Range(b.levels[l])
  PROVE  Uncrossed(c)
<1>1. ASSUME NEW l \in DOMAIN b.levels, c.levels[l] # <<>> PROVE b.levels[l] # <<>>
  <2>1. c.levels[l] \in Seq(Nat) /\ b.levels[l] \in Seq(Nat)
    BY DEF BookInv, IsBook
  <2> QED BY <1>1, <2>1, EmptyRange
<1> QED BY <1>1 DEF Uncrossed

\* Nor does one that rests when nothing is left within its limit.
LEMMA UncrossedRests ==
  ASSUME NEW b, BookInv(b), Uncrossed(b), NEW o \in AnOrder,
         \A l \in Matching(b, o) : b.levels[l] = <<>>
  PROVE  Uncrossed(Resting(b, o))
<1> DEFINE r == Resting(b, o)
           home == <<o.side, o.price>>
           new == Append(LevelOf(b, home), b.inserted + 1)
<1>1. IsBook(b) /\ r.levels = Assigned(b.levels, home, new)
  BY RestingIs DEF BookInv
<1>2. /\ DOMAIN r.levels = DOMAIN b.levels \cup {home}
      /\ \A l \in DOMAIN b.levels \ {home} : r.levels[l] = b.levels[l]
  <2>1. /\ DOMAIN Assigned(b.levels, home, new) = DOMAIN b.levels \cup {home}
        /\ \A l \in DOMAIN b.levels \ {home} :
             Assigned(b.levels, home, new)[l] = b.levels[l]
    BY DEF Assigned
  <2> QED BY <1>1, <2>1
<1>3. /\ home[1] = o.side /\ home[2] = o.price /\ o.side \in Sides /\ o.price \in Nat
      /\ \A l \in DOMAIN b.levels : l[1] \in Sides /\ l[2] \in Nat
  BY <1>1, InputsAssumption DEF AnOrder, IsBook, ALevel
<1> HIDE DEF r, home
<1>4. SUFFICES ASSUME NEW l \in DOMAIN r.levels, NEW m \in DOMAIN r.levels,
                      l[1] = "BUY", r.levels[l] # <<>>,
                      m[1] = "SELL", r.levels[m] # <<>>
               PROVE  l[2] < m[2]
  BY DEF Uncrossed, r
<1>5. l # m
  BY <1>4
<1>6. CASE l = home
  <2>1. m \in DOMAIN b.levels /\ b.levels[m] # <<>> /\ o.side = "BUY"
    BY <1>2, <1>3, <1>4, <1>5, <1>6
  <2>2. m \notin Matching(b, o)
    BY <2>1
  <2>3. ~(m[2] <= o.price)
    BY <1>4, <2>1, <2>2 DEF Matching, WithinLimit, Opposite
  <2> QED BY <1>3, <1>6, <2>1, <2>3
<1>7. CASE m = home
  <2>1. l \in DOMAIN b.levels /\ b.levels[l] # <<>> /\ o.side = "SELL"
    BY <1>2, <1>3, <1>4, <1>5, <1>7
  <2>2. l \notin Matching(b, o)
    BY <2>1
  <2>3. ~(l[2] >= o.price)
    BY <1>4, <2>1, <2>2 DEF Matching, WithinLimit, Opposite
  <2> QED BY <1>3, <1>7, <2>1, <2>3
<1>8. CASE l # home /\ m # home
  <2>1. /\ l \in DOMAIN b.levels /\ r.levels[l] = b.levels[l]
        /\ m \in DOMAIN b.levels /\ r.levels[m] = b.levels[m]
    BY <1>2, <1>8
  <2> QED BY <1>4, <2>1 DEF Uncrossed
<1> QED BY <1>6, <1>7, <1>8

-----------------------------------------------------------------------------
(* handleOrderNew *)

\* What is left of the order, and whether it rests.
LEMMA AfterNewIs ==
  ASSUME NEW b, BookInv(b), NEW o \in AnOrder
  PROVE  LET m == Matched(b, o)
             left == o.quantity - Traded(m)
             rest == [o EXCEPT !.quantity = left]
         IN /\ left \in Nat
            /\ \/ /\ AfterNew(b, o) = m
                  /\ left = 0 \/ o.id \in DOMAIN m.byId
               \/ /\ left # 0 /\ o.id \notin DOMAIN m.byId
                  /\ rest \in AnOrder /\ rest.id = o.id
                  /\ rest.side = o.side /\ rest.price = o.price
                  /\ AfterNew(b, o) = Resting(m, rest)
                  /\ \A l \in Matching(b, o) : m.levels[l] = <<>>
<1> DEFINE m == Matched(b, o)
           left == o.quantity - Traded(m)
           rest == [o EXCEPT !.quantity = left]
<1>1. left \in Nat
  <2> DEFINE x == Traded(m)
  <2>1. x \in Nat /\ x <= o.quantity /\ o.quantity \in Nat
    BY TradedIs, TradedWithin DEF AnOrder
  <2> HIDE DEF x
  <2>2. o.quantity - x \in Nat
    BY <2>1
  <2> QED BY <2>2 DEF x
<1>2. AfterNew(b, o) = IF left = 0 \/ o.id \in DOMAIN m.byId THEN m ELSE Resting(m, rest)
  BY DEF AfterNew
<1>3. ASSUME left # 0 PROVE \A l \in Matching(b, o) : m.levels[l] = <<>>
  <2>1. Traded(m) # o.quantity
    <3> DEFINE x == Traded(m)
    <3>1. x \in Nat /\ o.quantity \in Nat /\ o.quantity - x # 0
      BY <1>3, TradedIs DEF AnOrder
    <3> HIDE DEF x
    <3>2. x # o.quantity
      BY <3>1
    <3> QED BY <3>2 DEF x
  <2>2. NodesOf(b, Matching(b, o)) \subseteq FilledOf(b, o)
    BY <2>1, TradedWhole
  <2> TAKE l \in Matching(b, o)
  <2>3. Range(b.levels[l]) \subseteq FilledOf(b, o)
    BY <2>2 DEF NodesOf
  <2>4. l \in DOMAIN b.levels
    BY DEF Matching
  <2>5. Range(m.levels[l]) = {} /\ m.levels[l] \in Seq(Nat)
    <3>1. /\ BookInv(m) /\ DOMAIN m.levels = DOMAIN b.levels
          /\ LevelsLose(b, m, FilledOf(b, o))
      BY MatchedKeeps
    <3> HIDE DEF m
    <3>2. Range(m.levels[l]) = Range(b.levels[l]) \ FilledOf(b, o)
      BY <2>4, <3>1 DEF LevelsLose
    <3> QED BY <2>3, <2>4, <3>1, <3>2 DEF BookInv, IsBook
  <2> QED BY <2>5, EmptyRange
<1>4. /\ rest \in AnOrder /\ rest.id = o.id /\ rest.side = o.side /\ rest.price = o.price
  <2> HIDE DEF left
  <2> QED BY <1>1 DEF AnOrder
<1> HIDE DEF m, left, rest
<1>5. CASE left = 0 \/ o.id \in DOMAIN m.byId
  BY <1>1, <1>2, <1>5 DEF m, left, rest
<1>6. CASE left # 0 /\ o.id \notin DOMAIN m.byId
  BY <1>1, <1>2, <1>3, <1>4, <1>6 DEF m, left, rest
<1> QED BY <1>5, <1>6

\* The members after it: the trades are those of matchOrder, and nothing but
\* what matchOrder does changes the nodes and the levels of the other side.
LEMMA AfterNewKeeps ==
  ASSUME NEW b, BookInv(b), NEW o \in AnOrder
  PROVE  LET m == Matched(b, o)
             r == AfterNew(b, o)
         IN /\ BookInv(r)
            /\ Uncrossed(b) => Uncrossed(r)
            /\ r.trades = TradesOf(b, o)
            /\ \A n \in DOMAIN b.orders : n \in DOMAIN r.orders /\ r.orders[n] = m.orders[n]
            /\ \A l : l[1] = Opposite(o.side) =>
                 /\ l \in DOMAIN r.levels <=> l \in DOMAIN b.levels
                 /\ l \in DOMAIN b.levels => r.levels[l] = m.levels[l]
<1> DEFINE m == Matched(b, o)
           r == AfterNew(b, o)
           left == o.quantity - Traded(m)
           rest == [o EXCEPT !.quantity = left]
<1>1. /\ BookInv(m) /\ DOMAIN m.levels = DOMAIN b.levels
      /\ DOMAIN m.orders = DOMAIN b.orders /\ m.trades = TradesOf(b, o)
      /\ \A l \in DOMAIN b.levels : Range(m.levels[l]) \subseteq Range(b.levels[l])
  <2>1. /\ BookInv(m) /\ DOMAIN m.levels = DOMAIN b.levels
        /\ DOMAIN m.orders = DOMAIN b.orders /\ m.trades = TradesOf(b, o)
    BY MatchedKeeps
  <2>2. LevelsLose(b, m, FilledOf(b, o))
    BY MatchedKeeps
  <2> HIDE DEF m
  <2> QED BY <2>1, <2>2 DEF LevelsLose
<1>2. ASSUME Uncrossed(b) PROVE Uncrossed(m)
  <2> HIDE DEF m
  <2> QED BY <1>1, <1>2, UncrossedShrinks
<1>3. \/ r = m
      \/ /\ o.id \notin DOMAIN m.byId
         /\ rest \in AnOrder /\ rest.id = o.id
         /\ rest.side = o.side /\ rest.price = o.price
         /\ r = Resting(m, rest)
         /\ \A l \in Matching(b, o) : m.levels[l] = <<>>
  BY AfterNewIs
<1>4. Matching(m, rest) = Matching(b, o) \/ r = m
  BY <1>1, <1>3 DEF Matching, WithinLimit
<1> HIDE DEF m, r, rest
<1>5. CASE r = m
  BY <1>1, <1>2, <1>5 DEF m, r
<1>6. CASE r # m
  <2> DEFINE node == m.inserted + 1
             home == <<rest.side, rest.price>>
             new == Append(LevelOf(m, home), node)
  <2>1. /\ BookInv(r) /\ IsBook(m)
        /\ r.orders = Assigned(m.orders, node, rest)
        /\ r.levels = Assigned(m.levels, home, new)
        /\ r.trades = m.trades
    <3>1. BookInv(Resting(m, rest)) /\ IsBook(m)
      BY <1>1, <1>3, <1>6, RestingKeeps DEF BookInv
    <3>2. r = Resting(m, rest) /\ rest \in AnOrder
      BY <1>3, <1>6
    <3>3. /\ Resting(m, rest).orders = Assigned(m.orders, node, rest)
          /\ Resting(m, rest).levels = Assigned(m.levels, home, new)
          /\ Resting(m, rest).trades = m.trades
      BY <3>1, <3>2, RestingIs
    <3> QED BY <3>1, <3>2, <3>3
  <2>2. Uncrossed(b) => Uncrossed(r)
    BY <1>1, <1>2, <1>3, <1>4, <1>6, UncrossedRests
  <2>3. \A n \in DOMAIN m.orders : n \in DOMAIN r.orders /\ r.orders[n] = m.orders[n]
    <3>1. \A n \in DOMAIN m.orders : n # node
      BY <2>1 DEF IsBook
    <3> HIDE DEF node
    <3> QED BY <2>1, <3>1 DEF Assigned
  <2>4. ASSUME NEW l, l[1] = Opposite(o.side)
        PROVE  /\ l \in DOMAIN r.levels <=> l \in DOMAIN m.levels
               /\ l \in DOMAIN m.levels => r.levels[l] = m.levels[l]
    <3>1. o.side \in Sides /\ home[1] = o.side
      BY <1>3, <1>6 DEF AnOrder
    <3>2. l # home
      BY <2>4, <3>1 DEF Opposite, Sides
    <3> HIDE DEF home, new
    <3> QED BY <2>1, <3>2 DEF Assigned
  <2> QED BY <1>1, <2>1, <2>2, <2>3, <2>4 DEF m, r
<1> QED BY <1>5, <1>6

\* What the other side loses is what the order trades.
SideLevels(b, side) == {l \in DOMAIN b.levels : l[1] = side}

LEMMA RestingQuantityIs ==
  ASSUME NEW b, BookInv(b), NEW side
  PROVE  LET N == NodesOf(b, SideLevels(b, side))
         IN /\ RestingQuantity(b, side) = Total(Sizes(b), N)
            /\ RestingQuantity(b, side) \in Nat
            /\ IsFiniteSet(N) /\ N \subseteq DOMAIN b.orders
<1>1. RestingQuantity(b, side) = Quantity(b, NodesOf(b, SideLevels(b, side)))
  BY DEF RestingQuantity, NodesOf, SideLevels
<1>2. SideLevels(b, side) \in SUBSET DOMAIN b.levels
  BY DEF SideLevels
<1> QED BY <1>1, <1>2, NodesAre

LEMMA QuantityLost ==
  ASSUME NEW b, BookInv(b), NEW o \in AnOrder
  PROVE  LET side == Opposite(o.side)
             r == AfterNew(b, o)
         IN /\ RestingQuantity(b, side) \in Nat /\ RestingQuantity(r, side) \in Nat
            /\ RestingQuantity(b, side)
                 = RestingQuantity(r, side) + Traded(Matched(b, o))
            /\ Traded(r) = Traded(Matched(b, o))
<1> DEFINE side == Opposite(o.side)
           r == AfterNew(b, o)
           t == TradesOf(b, o)
           D == DOMAIN t
           F == FilledOf(b, o)
           N == NodesOf(b, SideLevels(b, side))
           R == NodesOf(r, SideLevels(r, side))
           q == Sizes(b)
           p == Sizes(r)
           e == [n \in N |-> IF n \in D THEN t[n] ELSE 0]
<1>1. /\ BookInv(r) /\ r.trades = t /\ Matched(b, o).trades = t
      /\ \A n \in DOMAIN b.orders :
           n \in DOMAIN r.orders /\ r.orders[n] = Matched(b, o).orders[n]
  BY AfterNewKeeps, MatchedKeeps
<1>2. Traded(r) = Traded(Matched(b, o))
  BY <1>1 DEF Traded
<1>3. /\ RestingQuantity(b, side) = Total(q, N) /\ RestingQuantity(b, side) \in Nat
      /\ IsFiniteSet(N) /\ N \subseteq DOMAIN b.orders
  BY RestingQuantityIs
<1>4. /\ RestingQuantity(r, side) = Total(p, R) /\ RestingQuantity(r, side) \in Nat
      /\ IsFiniteSet(R)
  <2> HIDE DEF r, side
  <2> QED BY <1>1, RestingQuantityIs
<1>5. R = N \ F
  <2>1. SideLevels(r, side) = SideLevels(b, side)
    BY AfterNewKeeps DEF SideLevels
  <2>2. ASSUME NEW l \in SideLevels(b, side)
        PROVE  Range(r.levels[l]) = Range(b.levels[l]) \ F
    <3>1. l \in DOMAIN b.levels /\ l[1] = side
      BY DEF SideLevels
    <3>2. r.levels[l] = Matched(b, o).levels[l]
      BY <3>1, AfterNewKeeps
    <3>3. Range(Matched(b, o).levels[l]) = Range(b.levels[l]) \ F
      <4>1. LevelsLose(b, Matched(b, o), F)
        BY MatchedKeeps
      <4> QED BY <3>1, <4>1 DEF LevelsLose
    <3> QED BY <3>2, <3>3
  <2> HIDE DEF r, side, F
  <2> QED BY <2>1, <2>2 DEF NodesOf
<1>6. Traded(Matched(b, o)) = Total(t, D) /\ IsFiniteSet(D) /\ Total(t, D) \in Nat
  BY TradedIs
<1>7. D \subseteq N
  <2>1. D \subseteq NodesOf(b, Matching(b, o))
    BY TradedOffered
  <2>2. Matching(b, o) \subseteq SideLevels(b, side)
    BY DEF Matching, SideLevels
  <2> QED BY <2>1, <2>2 DEF NodesOf
<1>8. /\ F \subseteq D /\ \A n \in F : t[n] = b.orders[n].quantity
      /\ \A n \in D : t[n] \in Nat /\ t[n] <= b.orders[n].quantity
  BY TradesAre
<1>9. \A n \in N : /\ q[n] = b.orders[n].quantity /\ q[n] \in Nat
                   /\ p[n] = q[n] - (IF n \in D THEN t[n] ELSE 0)
  <2>1. \A n \in DOMAIN b.orders :
          Matched(b, o).orders[n].quantity
            = b.orders[n].quantity - (IF n \in D THEN t[n] ELSE 0)
    BY MatchedKeeps
  <2>2. \A n \in DOMAIN b.orders : q[n] = b.orders[n].quantity /\ q[n] \in Nat
    BY QuantityIs DEF BookInv
  <2>3. \A n \in DOMAIN b.orders : p[n] = r.orders[n].quantity
    <3> HIDE DEF r
    <3> QED BY <1>1 DEF Sizes
  <2> HIDE DEF p, q, r, t
  <2> QED BY <1>1, <1>3, <2>1, <2>2, <2>3
<1> HIDE DEF p, q, r, t, D, F, N, R, side
<1>10. \A n \in N : /\ p[n] \in Nat /\ e[n] \in Nat /\ q[n] = p[n] + e[n]
                    /\ n \in D => e[n] = t[n]
                    /\ n \notin D => e[n] = 0
                    /\ n \in F => p[n] = 0
  <2> TAKE n \in N
  <2>1. CASE n \in D
    BY <1>8, <1>9, <2>1
  <2>2. CASE n \notin D
    BY <1>8, <1>9, <2>2
  <2> QED BY <2>1, <2>2
<1> HIDE DEF e
<1>11. /\ Total(p, N) \in Nat /\ Total(e, N) \in Nat
       /\ Total(q, N) = Total(p, N) + Total(e, N)
  BY <1>3, <1>10, TotalSum
<1>12. Total(e, N) = Total(t, D)
  <2> DEFINE Z == N \ D
  <2>1. N = D \cup Z /\ D \cap Z = {} /\ IsFiniteSet(Z)
    BY <1>3, <1>7, FS_Subset
  <2>2. \A n \in D \cup Z : e[n] \in Nat
    BY <1>10, <2>1
  <2>3. \A n \in Z : e[n] = 0
    BY <1>10
  <2>4. \A n \in D : e[n] = t[n]
    BY <1>7, <1>10
  <2> HIDE DEF Z
  <2>5. Total(e, D \cup Z) = Total(e, D) + Total(e, Z) /\ Total(e, D) \in Nat
    BY <1>6, <2>1, <2>2, TotalUnion
  <2>6. Total(e, Z) = 0
    BY <2>1, <2>3, TotalOfNothing
  <2>7. Total(e, D) = Total(t, D)
    BY <1>6, <2>4, TotalAgrees
  <2> QED BY <2>1, <2>5, <2>6, <2>7
<1>13. Total(p, N) = Total(p, R)
  <2>1. N = R \cup F /\ R \cap F = {} /\ IsFiniteSet(F)
    BY <1>3, <1>5, <1>7, <1>8, FS_Subset
  <2>2. \A n \in R \cup F : p[n] \in Nat
    BY <1>10, <2>1
  <2>3. \A n \in F : p[n] = 0
    BY <1>10, <2>1
  <2>4. Total(p, R \cup F) = Total(p, R) + Total(p, F) /\ Total(p, R) \in Nat
    BY <1>4, <2>1, <2>2, TotalUnion
  <2>5. Total(p, F) = 0
    BY <2>1, <2>3, TotalOfNothing
  <2> QED BY <2>1, <2>4, <2>5
<1> QED BY <1>2, <1>3, <1>4, <1>6, <1>11, <1>12, <1>13 DEF side, r

\* An order trades all it can, and what is left of it rests.
LEMMA NewTradesAll ==
  ASSUME NEW b, BookInv(b), NEW o \in AnOrder
  PROVE  TradesAll(b, o, AfterNew(b, o))
<1> DEFINE opposite == Opposite(o.side)
           r == AfterNew(b, o)
           m == Matched(b, o)
           N == NodesOf(b, Matching(b, o))
           offered == Quantity(b, N)
           traded == RestingQuantity(b, opposite) - RestingQuantity(r, opposite)
           left == o.quantity - Traded(m)
           rest == [o EXCEPT !.quantity = left]
<1>1. traded = Traded(m) /\ Traded(r) = Traded(m) /\ Traded(m) \in Nat
  <2> DEFINE x == RestingQuantity(b, opposite)
             y == RestingQuantity(r, opposite)
             z == Traded(m)
  <2>1. x \in Nat /\ y \in Nat /\ z \in Nat /\ x = y + z
    BY QuantityLost, TradedIs
  <2>2. Traded(r) = z
    BY QuantityLost
  <2> HIDE DEF x, y, z
  <2>3. x - y = z
    BY <2>1
  <2> QED BY <2>1, <2>2, <2>3 DEF x, y, z
<1>2. offered = Total(Sizes(b), N) /\ offered \in Nat
  <2>1. Matching(b, o) \in SUBSET DOMAIN b.levels
    BY DEF Matching
  <2> QED BY <2>1, NodesAre
<1>3. Traded(m) = Min({offered, o.quantity})
  <2> DEFINE x == Traded(m)
             y == offered
  <2>1. x \in Nat /\ y \in Nat /\ o.quantity \in Nat /\ x <= y /\ x <= o.quantity
    BY <1>1, <1>2, TradedOffered, TradedWithin DEF AnOrder
  <2>2. x = y \/ x = o.quantity
    BY <1>2, TradedOffered, TradedWhole
  <2> HIDE DEF x, y
  <2>3. x = Min({y, o.quantity})
    <3>1. x \in {y, o.quantity} /\ \A z \in {y, o.quantity} : x <= z
      BY <2>1, <2>2
    <3>2. \A w \in {y, o.quantity} : (\A z \in {y, o.quantity} : w <= z) => w = x
      BY <2>1, <2>2
    <3> QED BY <3>1, <3>2 DEF Min
  <2> QED BY <2>3 DEF x, y
<1>4. UNION {Range(b.levels[l]) : l \in Matching(b, o)} = N
  BY DEF NodesOf
<1>5. /\ BookInv(m) /\ DOMAIN m.byId \subseteq DOMAIN b.byId
  BY MatchedKeeps
<1>6. \/ r = m /\ (left = 0 \/ o.id \in DOMAIN m.byId)
      \/ /\ r = Resting(m, rest) /\ rest \in AnOrder /\ rest.id = o.id
         /\ o.id \notin DOMAIN m.byId
  BY AfterNewIs
<1>7. left \in Nat
  BY AfterNewIs
<1> HIDE DEF r, m, left, rest
<1>8. /\ left > 0 => o.id \in DOMAIN r.byId
      /\ left > 0 /\ o.id \notin DOMAIN b.byId => r.orders[r.byId[o.id].node] = rest
  <2>1. CASE r = m /\ (left = 0 \/ o.id \in DOMAIN m.byId)
    BY <1>5, <1>7, <2>1
  <2>2. CASE /\ r = Resting(m, rest) /\ rest \in AnOrder /\ rest.id = o.id
             /\ o.id \notin DOMAIN m.byId
    <3> DEFINE node == m.inserted + 1
               home == <<rest.side, rest.price>>
               block == [node |-> node, level |-> home]
    <3>1. /\ r.orders = Assigned(m.orders, node, rest)
          /\ r.byId = Assigned(m.byId, o.id, block)
      BY <1>5, <2>2, RestingIs DEF BookInv
    <3>2. r.orders[node] = rest
      <4> HIDE DEF node
      <4> QED BY <3>1 DEF Assigned
    <3>3. o.id \in DOMAIN r.byId /\ r.byId[o.id] = block
      <4> HIDE DEF block
      <4> QED BY <3>1 DEF Assigned
    <3>4. r.byId[o.id].node = node
      BY <3>3
    <3> QED BY <3>2, <3>3, <3>4
  <2> QED BY <1>6, <2>1, <2>2
<1>9. /\ traded = Min({offered, o.quantity}) /\ Traded(r) = traded
      /\ left = o.quantity - traded /\ rest = [o EXCEPT !.quantity = left]
  BY <1>1, <1>3 DEF left, rest, r, m
<1> HIDE DEF offered, traded, opposite, N
<1> SUFFICES
      /\ traded = Min({Quantity(b, N), o.quantity})
      /\ Traded(r) = traded
      /\ o.quantity - traded > 0 => o.id \in DOMAIN r.byId
      /\ o.quantity - traded > 0 /\ o.id \notin DOMAIN b.byId =>
           r.orders[r.byId[o.id].node] = [o EXCEPT !.quantity = o.quantity - traded]
  BY <1>4 DEF TradesAll, traded, opposite, r
<1> QED BY <1>8, <1>9 DEF offered

-----------------------------------------------------------------------------
(* The steps of the engine *)

EngineInv ==
  /\ BookInv(book)
  /\ Uncrossed(book)
  /\ action \in Actions \cup {"none"}
  /\ action # "none" => order \in Orders /\ DOMAIN book.trades = {}

LEMMA OrdersAre == Orders \subseteq AnOrder
BY InputsAssumption DEF Orders, AnOrder

LEMMA EngineInitKeeps ==
  ASSUME EngineInit PROVE EngineInv
<1>1. book = [orders |-> <<>>, byId |-> <<>>, levels |-> <<>>, trades |-> <<>>, inserted |-> 0]
      /\ action = "none"
  BY DEF EngineInit
<1>2. /\ book.orders = <<>> /\ book.byId = <<>> /\ book.levels = <<>>
      /\ book.trades = <<>> /\ book.inserted = 0
  BY <1>1
<1>3. /\ DOMAIN book.orders = {} /\ DOMAIN book.byId = {} /\ DOMAIN book.levels = {}
  BY <1>2
<1>4. IsBook(book)
  <2>1. book = [orders |-> book.orders, byId |-> book.byId, levels |-> book.levels,
                trades |-> book.trades, inserted |-> book.inserted]
    BY <1>1, <1>2
  <2>2. book.orders \in [DOMAIN book.orders -> AnOrder]
    BY <1>2, <1>3
  <2>3. book.byId \in [DOMAIN book.byId -> ABlock]
    BY <1>2, <1>3
  <2>4. book.levels \in [DOMAIN book.levels -> Seq(Nat)]
    BY <1>2, <1>3
  <2>5. IsFiniteSet(DOMAIN book.levels)
    BY <1>3, FS_EmptySet
  <2> QED BY <1>2, <1>3, <2>1, <2>2, <2>3, <2>4, <2>5 DEF IsBook
<1> QED BY <1>1, <1>3, <1>4 DEF EngineInv, BookInv, Uncrossed

\* The members, when only the quantities of the orders or the trades change.
LEMMA OnlyQuantities ==
  ASSUME NEW b, BookInv(b), Uncrossed(b), NEW orders, NEW trades,
         DOMAIN orders = DOMAIN b.orders,
         orders \in [DOMAIN b.orders -> AnOrder],
         \A n \in DOMAIN b.orders : /\ orders[n].id = b.orders[n].id
                                    /\ orders[n].side = b.orders[n].side
                                    /\ orders[n].price = b.orders[n].price,
         NEW c,
         c = [orders |-> orders, byId |-> b.byId, levels |-> b.levels,
              trades |-> trades, inserted |-> b.inserted]
  PROVE  BookInv(c) /\ Uncrossed(c)
<1>1. IsBook(b)
  BY DEF BookInv
<1>3. /\ c.orders = orders /\ c.byId = b.byId /\ c.levels = b.levels
      /\ c.trades = trades /\ c.inserted = b.inserted
  OBVIOUS
<1>4. SameFields(c)
  BY <1>3 DEF SameFields
<1>5. SameOrders(b, c)
  BY <1>3 DEF SameOrders
<1> DEFINE none == {}
<1>6. FewerIds(b, c, none)
  BY <1>1, <1>3 DEF FewerIds, IsBook
<1>7. ShorterLevels(b, c, none)
  BY <1>1, <1>3 DEF ShorterLevels, IsBook, BookInv, LevelRight
<1> HIDE DEF none
<1>8. BookInv(c)
  BY <1>3, <1>4, <1>5, <1>6, <1>7, RequantifiedKeeps
<1>9. Uncrossed(c)
  BY <1>3 DEF Uncrossed
<1> QED BY <1>8, <1>9

LEMMA NewKeeps ==
  ASSUME EngineInv, New PROVE EngineInv'
<1>1. BookInv(book) /\ Uncrossed(book) /\ order \in AnOrder
  BY OrdersAre DEF EngineInv, New
<1>2. book' = AfterNew(book, order) /\ action' = "none"
  BY DEF New, Done
<1>3. BookInv(AfterNew(book, order)) /\ Uncrossed(AfterNew(book, order))
  BY <1>1, AfterNewKeeps
<1> DEFINE c == AfterNew(book, order)
<1>4. BookInv(c) /\ Uncrossed(c) /\ book' = c
  BY <1>2, <1>3
<1> HIDE DEF c
<1>5. BookInv(book)' /\ Uncrossed(book)'
  <2>1. BookInv(book)'
    BY <1>4 DEF BookInv, IsBook, BlockRight, LevelRight, AtHome, Rising
  <2>2. Uncrossed(book)'
    BY <1>4 DEF Uncrossed
  <2> QED BY <2>1, <2>2
<1> QED BY <1>2, <1>5 DEF EngineInv

\* What the cancellation of an order does to the levels of the other side, and
\* to what a new order of its own side meets there.
LEMMA CancelOwnSide ==
  ASSUME NEW b, BookInv(b), Uncrossed(b), NEW o \in AnOrder,
         o.id \in DOMAIN b.byId, b.orders[b.byId[o.id].node].side = o.side
  PROVE  LET c == AfterCancel(b, o.id)
         IN /\ BookInv(c) /\ Uncrossed(c)
            /\ \A n \in DOMAIN c.orders : n \in DOMAIN b.orders /\ c.orders[n] = b.orders[n]
            /\ DOMAIN c.levels = DOMAIN b.levels
            /\ \A l \in DOMAIN b.levels :
                 l[1] = Opposite(o.side) => c.levels[l] = b.levels[l]
            /\ Matching(c, o) = Matching(b, o)
<1> DEFINE c == AfterCancel(b, o.id)
           home == b.byId[o.id].level
           node == b.byId[o.id].node
<1>1. /\ BookInv(c) /\ DOMAIN c.levels = DOMAIN b.levels
      /\ DOMAIN c.orders = DOMAIN b.orders \ {node}
      /\ \A n \in DOMAIN c.orders : c.orders[n] = b.orders[n]
  <2>1. BookInv(c)
    BY CancelKeeps
  <2>2. DOMAIN c.levels = DOMAIN b.levels
    BY CancelKeeps
  <2>3. OrdersLose(b, c, {node})
    BY CancelKeeps
  <2> HIDE DEF c, node
  <2> QED BY <2>1, <2>2, <2>3 DEF OrdersLose
<1>2. LevelsLose(b, c, {node})
  BY CancelKeeps
<1>3. \A l \in DOMAIN b.levels : l # home => c.levels[l] = b.levels[l]
  BY CancelKeeps
<1> HIDE DEF c, home, node
<1>4. Uncrossed(c)
  BY <1>1, <1>2, UncrossedShrinks DEF LevelsLose
<1>5. home[1] = o.side
  <2>1. home \in DOMAIN b.levels /\ node \in Range(b.levels[home])
    BY DEF BookInv, BlockRight, home, node
  <2>2. AtHome(b, node, home)
    BY <2>1 DEF BookInv, LevelRight
  <2>3. home = <<b.orders[node].side, b.orders[node].price>>
    BY <2>2 DEF AtHome
  <2>4. b.orders[node].side = o.side
    BY DEF node
  <2> QED BY <2>3, <2>4
<1>6. Opposite(o.side) # o.side
  BY DEF AnOrder, Sides, Opposite
<1>7. Matching(c, o) = Matching(b, o)
  BY <1>1 DEF Matching
<1> QED BY <1>1, <1>3, <1>4, <1>5, <1>6, <1>7 DEF c

LEMMA AmendPriceKeeps ==
  ASSUME EngineInv, AmendPrice PROVE EngineInv'
<1> DEFINE c == AfterCancel(book, order.id)
           d == AfterNew(c, order)
<1>1. BookInv(book) /\ Uncrossed(book) /\ order \in AnOrder
  BY OrdersAre DEF EngineInv, AmendPrice
<1>2. BookInv(c) /\ Uncrossed(c)
  BY <1>1, CancelOwnSide DEF AmendPrice, Known, Original
<1>3. book' = d /\ action' = "none"
  BY DEF AmendPrice, Done
<1> HIDE DEF c
<1>4. BookInv(d) /\ Uncrossed(d)
  BY <1>1, <1>2, AfterNewKeeps
<1> HIDE DEF d
<1>5. BookInv(book)' /\ Uncrossed(book)'
  <2>1. BookInv(book)'
    BY <1>3, <1>4 DEF BookInv, IsBook, BlockRight, LevelRight, AtHome, Rising
  <2>2. Uncrossed(book)'
    BY <1>3, <1>4 DEF Uncrossed
  <2> QED BY <2>1, <2>2
<1> QED BY <1>3, <1>5 DEF EngineInv

LEMMA CancelStepKeeps ==
  ASSUME EngineInv, Cancel PROVE EngineInv'
<1> DEFINE c == IF Known THEN AfterCancel(book, order.id) ELSE book
<1>1. BookInv(book) /\ Uncrossed(book)
  BY DEF EngineInv
<1>2. book' = c /\ action' = "none"
  BY DEF Cancel, Done
<1>3. BookInv(c) /\ Uncrossed(c)
  <2>1. CASE Known
    <3> DEFINE r == AfterCancel(book, order.id)
    <3>1. /\ BookInv(r) /\ DOMAIN r.levels = DOMAIN book.levels
      BY <1>1, <2>1, CancelKeeps DEF Known
    <3>2. \A l \in DOMAIN book.levels : Range(r.levels[l]) \subseteq Range(book.levels[l])
      <4>1. LevelsLose(book, r, {book.byId[order.id].node})
        BY <1>1, <2>1, CancelKeeps DEF Known
      <4> HIDE DEF r
      <4> QED BY <4>1 DEF LevelsLose
    <3>3. c = r
      BY <2>1
    <3> HIDE DEF r, c
    <3>4. Uncrossed(r)
      BY <1>1, <3>1, <3>2, UncrossedShrinks
    <3> QED BY <3>1, <3>3, <3>4
  <2>2. CASE ~Known
    BY <1>1, <2>2
  <2> QED BY <2>1, <2>2
<1> HIDE DEF c
<1>4. BookInv(book)' /\ Uncrossed(book)'
  <2>1. BookInv(book)'
    BY <1>2, <1>3 DEF BookInv, IsBook, BlockRight, LevelRight, AtHome, Rising
  <2>2. Uncrossed(book)'
    BY <1>2, <1>3 DEF Uncrossed
  <2> QED BY <2>1, <2>2
<1> QED BY <1>2, <1>4 DEF EngineInv

LEMMA AmendQuantityKeeps ==
  ASSUME EngineInv, AmendQuantity
  PROVE  EngineInv' /\ book'.trades = book.trades
<1> DEFINE node == book.byId[order.id].node
           a == book.orders[node]
           orders == [book.orders EXCEPT ![node].quantity = order.quantity]
           c == [orders |-> orders, byId |-> book.byId, levels |-> book.levels,
                 trades |-> book.trades, inserted |-> book.inserted]
<1>1. BookInv(book) /\ Uncrossed(book) /\ order \in AnOrder /\ IsBook(book)
  BY OrdersAre DEF EngineInv, AmendQuantity, BookInv
<1>2. node \in DOMAIN book.orders
  BY <1>1 DEF AmendQuantity, Known, BookInv, BlockRight
<1>3. a \in AnOrder /\ order.quantity \in Nat
  BY <1>1, <1>2 DEF IsBook, AnOrder
<1>4. book' = [book EXCEPT !.orders = orders] /\ action' = "none"
  BY DEF AmendQuantity, Done
<1>5. book' = c
  <2> DEFINE os == book.orders
             ids == book.byId
             ls == book.levels
             ts == book.trades
             n == book.inserted
  <2>1. book = [orders |-> os, byId |-> ids, levels |-> ls, trades |-> ts, inserted |-> n]
    BY <1>1 DEF IsBook
  <2>2. c = [orders |-> orders, byId |-> ids, levels |-> ls, trades |-> ts, inserted |-> n]
    OBVIOUS
  <2> HIDE DEF os, ids, ls, ts, n, orders, c
  <2>3. [book EXCEPT !.orders = orders] =
          [orders |-> orders, byId |-> ids, levels |-> ls, trades |-> ts, inserted |-> n]
    BY <2>1
  <2> QED BY <1>4, <2>2, <2>3
<1>6. /\ DOMAIN orders = DOMAIN book.orders
      /\ orders[node] = [a EXCEPT !.quantity = order.quantity]
      /\ \A n \in DOMAIN book.orders \ {node} : orders[n] = book.orders[n]
  BY <1>2
<1>7. /\ orders[node] \in AnOrder /\ orders[node].id = a.id
      /\ orders[node].side = a.side /\ orders[node].price = a.price
  <2> DEFINE q == order.quantity
             x == orders[node]
  <2>1. x = [a EXCEPT !.quantity = q] /\ q \in Nat
    BY <1>3, <1>6
  <2> HIDE DEF a, q, x
  <2>2. x \in AnOrder /\ x.id = a.id /\ x.side = a.side /\ x.price = a.price
    BY <1>3, <2>1 DEF AnOrder
  <2> QED BY <2>2 DEF x
<1>8. orders \in [DOMAIN book.orders -> AnOrder]
  <2>1. \A n \in DOMAIN book.orders : orders[n] \in AnOrder
    BY <1>1, <1>6, <1>7 DEF IsBook
  <2>2. orders = [n \in DOMAIN book.orders |-> orders[n]]
    OBVIOUS
  <2> HIDE DEF orders
  <2> QED BY <2>1, <2>2
<1>9. \A n \in DOMAIN book.orders : /\ orders[n].id = book.orders[n].id
                                    /\ orders[n].side = book.orders[n].side
                                    /\ orders[n].price = book.orders[n].price
  <2> HIDE DEF orders
  <2> QED BY <1>6, <1>7
<1>10. BookInv(c) /\ Uncrossed(c)
  <2> HIDE DEF orders
  <2> QED BY <1>1, <1>6, <1>8, <1>9, OnlyQuantities
<1>11. book'.trades = book.trades
  BY <1>5
<1> HIDE DEF c
<1>12. BookInv(book)' /\ Uncrossed(book)'
  <2>1. BookInv(book)'
    BY <1>5, <1>10 DEF BookInv, IsBook, BlockRight, LevelRight, AtHome, Rising
  <2>2. Uncrossed(book)'
    BY <1>5, <1>10 DEF Uncrossed
  <2> QED BY <2>1, <2>2
<1> QED BY <1>4, <1>11, <1>12 DEF EngineInv

LEMMA ReceiveKeeps ==
  ASSUME EngineInv, Receive PROVE EngineInv'
<1> DEFINE none == <<>>
           c == [orders |-> book.orders, byId |-> book.byId, levels |-> book.levels,
                 trades |-> none, inserted |-> book.inserted]
<1>1. BookInv(book) /\ Uncrossed(book) /\ IsBook(book)
  BY DEF EngineInv, BookInv
<1>2. book' = [book EXCEPT !.trades = none] /\ action' \in Actions /\ order' \in Orders
  BY DEF Receive
<1>3. book' = c /\ book'.trades = none
  <2> DEFINE os == book.orders
             ids == book.byId
             ls == book.levels
             ts == book.trades
             n == book.inserted
  <2>1. book = [orders |-> os, byId |-> ids, levels |-> ls, trades |-> ts, inserted |-> n]
    BY <1>1 DEF IsBook
  <2>2. c = [orders |-> os, byId |-> ids, levels |-> ls, trades |-> none, inserted |-> n]
    OBVIOUS
  <2>3. c.trades = none
    OBVIOUS
  <2> HIDE DEF os, ids, ls, ts, n, c, none
  <2>4. [book EXCEPT !.trades = none] =
          [orders |-> os, byId |-> ids, levels |-> ls, trades |-> none, inserted |-> n]
    BY <2>1
  <2> QED BY <1>2, <2>2, <2>3, <2>4
<1>4. DOMAIN book'.trades = {}
  BY <1>3
<1>5. BookInv(c) /\ Uncrossed(c)
  <2>1. book.orders \in [DOMAIN book.orders -> AnOrder]
    BY <1>1 DEF IsBook
  <2> HIDE DEF none
  <2> QED BY <1>1, <2>1, OnlyQuantities
<1> HIDE DEF c
<1>6. BookInv(book)' /\ Uncrossed(book)'
  <2>1. BookInv(book)'
    BY <1>3, <1>5 DEF BookInv, IsBook, BlockRight, LevelRight, AtHome, Rising
  <2>2. Uncrossed(book)'
    BY <1>3, <1>5 DEF Uncrossed
  <2> QED BY <2>1, <2>2
<1> QED BY <1>2, <1>4, <1>6 DEF EngineInv

-----------------------------------------------------------------------------
(* What a step may do *)

\* One trade of an order, and those that are due before it.
LEMMA NewFillsInTurn ==
  ASSUME NEW b, BookInv(b), NEW o \in AnOrder, NEW n \in DOMAIN AfterNew(b, o).trades
  PROVE  LET resting == b.orders[n]
             level == <<resting.side, resting.price>>
         IN /\ resting.side = Opposite(o.side)
            /\ WithinLimit(o, resting.price)
            /\ level \in DOMAIN b.levels /\ level[1] = Opposite(o.side)
            /\ n \in DOMAIN b.orders
            /\ \A m \in Range(b.levels[level]) :
                 m < n => AfterNew(b, o).orders[m].quantity = 0
<1> DEFINE t == TradesOf(b, o)
           w == Walk(b, o)
<1>1. AfterNew(b, o).trades = t
  BY AfterNewKeeps
<1>2. PICK l \in DOMAIN w : /\ l \in Matching(b, o) /\ l \in DOMAIN b.levels
                            /\ n \in DOMAIN w[l].trades /\ n \in Range(b.levels[l])
  BY <1>1, TradesWhere
<1>3. n \in DOMAIN b.orders /\ <<b.orders[n].side, b.orders[n].price>> = l
  BY <1>2 DEF BookInv, LevelRight, AtHome
<1>4. l[1] = Opposite(o.side) /\ WithinLimit(o, l[2])
  BY <1>2 DEF Matching
<1>5. ASSUME NEW m \in Range(b.levels[l]), m < n
      PROVE  AfterNew(b, o).orders[m].quantity = 0
  <2>1. m \in First(b.levels[l], w[l].filled) /\ m \in DOMAIN b.orders
    BY <1>2, <1>5, WalkIs
  <2>3. m \in DOMAIN t /\ t[m] = b.orders[m].quantity
    <3>1. m \in FilledOf(b, o)
      BY <2>1, <1>2 DEF FilledOf
    <3> QED BY <3>1, TradesAre
  <2>4. Matched(b, o).orders[m].quantity = b.orders[m].quantity - t[m]
    <3>1. \A k \in DOMAIN b.orders :
            Matched(b, o).orders[k].quantity
              = b.orders[k].quantity - (IF k \in DOMAIN t THEN t[k] ELSE 0)
      BY MatchedKeeps
    <3> HIDE DEF t
    <3> QED BY <2>1, <2>3, <3>1
  <2>5. AfterNew(b, o).orders[m] = Matched(b, o).orders[m]
    BY <2>1, AfterNewKeeps
  <2>6. b.orders[m].quantity \in Nat
    BY <2>1 DEF BookInv, IsBook, AnOrder
  <2> QED BY <2>3, <2>4, <2>5, <2>6
<1>6. l[1] = b.orders[n].side /\ l[2] = b.orders[n].price
  BY <1>3
<1> HIDE DEF w, t
<1> QED BY <1>2, <1>3, <1>4, <1>5, <1>6

FillsInTurn ==
  action # "none" =>
    \A n \in DOMAIN book'.trades :
      LET resting == book.orders[n]
          level == book.levels[<<resting.side, resting.price>>]
      IN /\ resting.side = Opposite(order.side)
         /\ WithinLimit(order, resting.price)
         /\ \A m \in Range(level) : m < n => book'.orders[m].quantity = 0

LEMMA StepFills ==
  ASSUME EngineInv, EngineNext PROVE FillsInTurn
<1>0. BookInv(book) /\ Uncrossed(book)
  BY DEF EngineInv
<1>1. CASE Receive
  BY <1>1 DEF Receive, FillsInTurn
<1>2. CASE New
  <2>1. order \in AnOrder /\ book' = AfterNew(book, order)
    BY <1>2, OrdersAre DEF New, EngineInv
  <2> SUFFICES ASSUME NEW n \in DOMAIN AfterNew(book, order).trades
               PROVE  /\ book.orders[n].side = Opposite(order.side)
                      /\ WithinLimit(order, book.orders[n].price)
                      /\ \A m \in Range(book.levels[<<book.orders[n].side,
                                                      book.orders[n].price>>]) :
                           m < n => AfterNew(book, order).orders[m].quantity = 0
    BY <2>1 DEF FillsInTurn
  <2> QED BY <1>0, <2>1, NewFillsInTurn
<1>3. CASE AmendPrice
  <2> DEFINE c == AfterCancel(book, order.id)
             r == AfterNew(c, order)
  <2>1. order \in AnOrder /\ book' = r
    BY <1>3, OrdersAre DEF AmendPrice, EngineInv
  <2>2. /\ BookInv(c)
        /\ \A n \in DOMAIN c.orders : n \in DOMAIN book.orders /\ c.orders[n] = book.orders[n]
        /\ DOMAIN c.levels = DOMAIN book.levels
        /\ \A l \in DOMAIN book.levels :
             l[1] = Opposite(order.side) => c.levels[l] = book.levels[l]
    BY <1>0, <1>3, <2>1, CancelOwnSide DEF AmendPrice, Known, Original
  <2> HIDE DEF c
  <2> SUFFICES ASSUME NEW n \in DOMAIN r.trades
               PROVE  /\ book.orders[n].side = Opposite(order.side)
                      /\ WithinLimit(order, book.orders[n].price)
                      /\ \A m \in Range(book.levels[<<book.orders[n].side,
                                                      book.orders[n].price>>]) :
                           m < n => r.orders[m].quantity = 0
    BY <2>1 DEF FillsInTurn
  <2> DEFINE level == <<c.orders[n].side, c.orders[n].price>>
  <2>3. /\ c.orders[n].side = Opposite(order.side)
        /\ WithinLimit(order, c.orders[n].price)
        /\ level \in DOMAIN c.levels /\ level[1] = Opposite(order.side)
        /\ n \in DOMAIN c.orders
        /\ \A m \in Range(c.levels[level]) : m < n => r.orders[m].quantity = 0
    BY <2>1, <2>2, NewFillsInTurn
  <2>4. c.orders[n] = book.orders[n] /\ c.levels[level] = book.levels[level]
    BY <2>2, <2>3
  <2> HIDE DEF r
  <2> QED BY <2>3, <2>4
<1>4. ASSUME book'.trades = book.trades, action # "none" PROVE FillsInTurn
  BY <1>4 DEF FillsInTurn, EngineInv
<1>5. CASE Cancel
  <2>1. book'.trades = book.trades
    <3>1. CASE Known
      <4> DEFINE id == order.id
      <4>1. id \in DOMAIN book.byId
        BY <3>1 DEF Known
      <4> HIDE DEF id
      <4>2. AfterCancel(book, id).trades = book.trades
        BY <1>0, <4>1, CancelKeeps
      <4> QED BY <1>5, <3>1, <4>2 DEF Cancel, id
    <3>2. CASE ~Known
      BY <1>5, <3>2 DEF Cancel
    <3> QED BY <3>1, <3>2
  <2> QED BY <1>4, <1>5, <2>1 DEF Cancel
<1>6. CASE AmendQuantity
  BY <1>4, <1>6, AmendQuantityKeeps DEF AmendQuantity
<1>7. CASE AmendNothing
  BY <1>4, <1>7 DEF AmendNothing
<1> QED BY <1>1, <1>2, <1>3, <1>5, <1>6, <1>7 DEF EngineNext

AllTraded == New \/ AmendPrice => TradesAll(book, order, book')

LEMMA StepTrades ==
  ASSUME EngineInv PROVE AllTraded
<1>0. BookInv(book) /\ Uncrossed(book)
  BY DEF EngineInv
<1>1. CASE New
  <2> DEFINE r == AfterNew(book, order)
  <2>1. order \in AnOrder /\ book' = r
    BY <1>1, OrdersAre DEF New, EngineInv
  <2>2. TradesAll(book, order, r)
    BY <1>0, <2>1, NewTradesAll
  <2> HIDE DEF r
  <2> QED BY <2>1, <2>2 DEF AllTraded
<1>2. CASE AmendPrice
  <2> DEFINE c == AfterCancel(book, order.id)
             r == AfterNew(c, order)
             side == Opposite(order.side)
             N(b) == NodesOf(b, SideLevels(b, side))
             M(b) == NodesOf(b, Matching(b, order))
  <2>1. order \in AnOrder /\ book' = r /\ order.id \in DOMAIN book.byId
    BY <1>2, OrdersAre DEF AmendPrice, EngineInv, Known
  <2>2. /\ BookInv(c)
        /\ \A n \in DOMAIN c.orders : n \in DOMAIN book.orders /\ c.orders[n] = book.orders[n]
        /\ DOMAIN c.levels = DOMAIN book.levels
        /\ \A l \in DOMAIN book.levels :
             l[1] = side => c.levels[l] = book.levels[l]
        /\ Matching(c, order) = Matching(book, order)
    BY <1>0, <1>2, <2>1, CancelOwnSide DEF AmendPrice, Known, Original
  <2> HIDE DEF c
  <2>3. TradesAll(c, order, r)
    BY <2>1, <2>2, NewTradesAll
  <2> HIDE DEF r
  <2>4. ASSUME NEW nodes, nodes \in SUBSET DOMAIN c.orders
        PROVE  Quantity(c, nodes) = Quantity(book, nodes)
    <3>1. [n \in nodes |-> c.orders[n].quantity] = [n \in nodes |-> book.orders[n].quantity]
      BY <2>2, <2>4
    <3> QED BY <3>1 DEF Quantity
  <2>5. M(c) = M(book) /\ Quantity(c, M(c)) = Quantity(book, M(book))
    <3>1. \A l \in Matching(book, order) : c.levels[l] = book.levels[l]
      BY <2>2 DEF Matching
    <3>2. M(c) = M(book)
      BY <2>2, <3>1 DEF NodesOf
    <3>3. Matching(c, order) \in SUBSET DOMAIN c.levels
      BY DEF Matching
    <3>4. M(c) \in SUBSET DOMAIN c.orders
      BY <2>2, <3>3, NodesAre
    <3> HIDE DEF M
    <3> QED BY <2>4, <3>2, <3>4
  <2>6. RestingQuantity(c, side) = RestingQuantity(book, side)
    <3>1. SideLevels(c, side) = SideLevels(book, side)
      BY <2>2 DEF SideLevels
    <3>2. N(c) = N(book)
      <4>1. \A l \in SideLevels(book, side) : c.levels[l] = book.levels[l]
        BY <2>2 DEF SideLevels
      <4> QED BY <3>1, <4>1 DEF NodesOf
    <3>3. N(c) \in SUBSET DOMAIN c.orders
      BY <2>2, RestingQuantityIs
    <3>4. /\ RestingQuantity(c, side) = Quantity(c, N(c))
          /\ RestingQuantity(book, side) = Quantity(book, N(book))
      BY DEF RestingQuantity, NodesOf, SideLevels
    <3> HIDE DEF N
    <3> QED BY <2>4, <3>2, <3>3, <3>4
  <2>7. TradesAll(book, order, r)
    <3> DEFINE x == Quantity(book, M(book))
               traded == RestingQuantity(book, side) - RestingQuantity(r, side)
    <3>1. /\ traded = Min({x, order.quantity}) /\ Traded(r) = traded
          /\ order.quantity - traded > 0 => order.id \in DOMAIN r.byId
      BY <2>3, <2>5, <2>6 DEF TradesAll, NodesOf
    <3> SUFFICES
          /\ traded = Min({x, order.quantity}) /\ Traded(r) = traded
          /\ order.quantity - traded > 0 => order.id \in DOMAIN r.byId
      BY <2>1 DEF TradesAll, NodesOf
    <3> HIDE DEF x, traded
    <3> QED BY <3>1
  <2> QED BY <2>1, <2>7 DEF AllTraded
<1> QED BY <1>1, <1>2 DEF AllTraded

-----------------------------------------------------------------------------

LEMMA StepKeeps ==
  ASSUME EngineInv, [EngineNext]_engineVars PROVE EngineInv'
<1>1. CASE AmendNothing
  <2>1. book' = book /\ action' = "none"
    BY <1>1 DEF AmendNothing, Done
  <2>2. BookInv(book)' /\ Uncrossed(book)'
    <3>1. BookInv(book)'
      BY <2>1 DEF EngineInv, BookInv, IsBook, BlockRight, LevelRight, AtHome, Rising
    <3>2. Uncrossed(book)'
      BY <2>1 DEF EngineInv, Uncrossed
    <3> QED BY <3>1, <3>2
  <2> QED BY <2>1, <2>2 DEF EngineInv
<1>2. CASE UNCHANGED engineVars
  <2>1. book' = book /\ action' = action /\ order' = order
    BY <1>2 DEF engineVars
  <2>2. BookInv(book)' /\ Uncrossed(book)'
    <3>1. BookInv(book)'
      BY <2>1 DEF EngineInv, BookInv, IsBook, BlockRight, LevelRight, AtHome, Rising
    <3>2. Uncrossed(book)'
      BY <2>1 DEF EngineInv, Uncrossed
    <3> QED BY <3>1, <3>2
  <2> QED BY <2>1, <2>2 DEF EngineInv
<1> QED BY <1>1, <1>2, ReceiveKeeps, NewKeeps, CancelStepKeeps, AmendPriceKeeps,
           AmendQuantityKeeps DEF EngineNext

\* After any sequence of processOrder calls the invariant holds.
THEOREM EngineInvariant == EngineSpec => []EngineInv
<1>1. EngineInit => EngineInv
  BY EngineInitKeeps
<1>2. EngineInv /\ [EngineNext]_engineVars => EngineInv'
  BY StepKeeps
<1> QED BY <1>1, <1>2, PTL DEF EngineSpec

\* The three indexes of the book agree: what info() reports as an error never
\* happens, however many orders, prices, ids and calls there are.
THEOREM IndexesAlwaysAgree == EngineSpec => []IndexesAgree
<1>1. EngineInv => IndexesAgree
  BY BookIndexes DEF EngineInv
<1> QED BY <1>1, EngineInvariant, PTL

\* matchOrder and the resting of what is left never leave a crossed book.
THEOREM NeverCrossed == EngineSpec => []NotCrossed
<1>1. EngineInv => NotCrossed
  BY DEF EngineInv, Uncrossed, NotCrossed, Levels
<1> QED BY <1>1, EngineInvariant, PTL

\* matchOrderList: an order trades within its limit, and at a price level only
\* with what those before it in time leave.
THEOREM AlwaysFilledInTurn == EngineSpec => FilledInTurn
<1>1. EngineInv /\ [EngineNext]_engineVars => [FillsInTurn]_engineVars
  BY StepFills
<1>2. EngineSpec => [][FillsInTurn]_engineVars
  BY <1>1, EngineInvariant, PTL DEF EngineSpec
<1> QED BY <1>2 DEF FilledInTurn, FillsInTurn

\* handleOrderNew and handleOrderAmend: no quantity is lost or made up between
\* the order, the resting orders and the trades.
THEOREM AlwaysTradesAll == EngineSpec => TradesAllItCan
<1>1. EngineInv /\ [EngineNext]_engineVars => [AllTraded]_engineVars
  BY StepTrades
<1>2. EngineSpec => [][AllTraded]_engineVars
  BY <1>1, EngineInvariant, PTL DEF EngineSpec
<1> QED BY <1>2 DEF TradesAllItCan, AllTraded
=============================================================================
