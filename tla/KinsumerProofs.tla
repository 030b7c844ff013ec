--------------------------- MODULE KinsumerProofs ---------------------------
(***************************************************************************)
(* Proofs about Kinsumer, for any number of clients and any tree of shards: *)
(* clients that agree divide the shards, and, where no shards are merged,   *)
(* a shard is read after its parent.                                        *)
(***************************************************************************)
EXTENDS Kinsumer, FiniteSetTheorems, TLAPS

\* The parents of a shard the stream has, or had, are closed.
Family == \A s \in listed \union closed : ParentsOf(s) \subseteq closed

\* s is a shard of the stream and may be read as far as its first parent goes.
InOrder(s) ==
    /\ s \in listed \union closed
    /\ Parent[s] \in consumed \/ Parent[s] \notin listed

\* What clients have selected, read or own is in order.
OrderInv ==
    KeepShardOrder =>
        /\ \A c \in Clients : \A s \in view[c].shards \union reading[c] : InOrder(s)
        /\ \A s \in Shards : owner[s] # Nobody => InOrder(s)

\* Between restarts a client that is not canceled has a reader for each shard that falls
\* to it, except for those that are consumed.
Steady(c) == pc[c] \in {"query", "list", "run"} /\ ~Canceled(c) /\ view[c].total # 0
ReadersInv ==
    \A c \in Clients : Steady(c) =>
        reading[c] \subseteq Assigned(c) /\ Assigned(c) \ consumed \subseteq reading[c]

\* Who lists the shards has counted itself, and who waits for its readers has, too.
CountInv ==
    \A c \in Clients :
        /\ pc[c] = "off" => view[c].total = 0
        /\ pc[c] = "list" => found[c].total # 0
        /\ pc[c] = "restart" => view[c].total # 0

KinsumerInv == TypeOK /\ Family /\ OrderInv /\ ReadersInv /\ CountInv

LEMMA Constants ==
    /\ Clients \subseteq Nat /\ Shards \subseteq Nat
    /\ IsFiniteSet(Clients) /\ IsFiniteSet(Shards)
    /\ None \notin Shards /\ Nobody \notin Clients
    /\ Parent \in [Shards -> Shards \union {None}]
    /\ AdjacentParent \in [Shards -> Shards \union {None}]
    /\ MaxFaults \in Nat
  BY KinsumerAssumption DEF KinsumerAssumption

-----------------------------------------------------------------------------
(* Places in a sorted list.                                                *)

LEMMA PlaceType ==
    ASSUME NEW S, IsFiniteSet(S), NEW x
    PROVE  Place(x, S) \in Nat
<1>1. IsFiniteSet({y \in S : y < x})
  BY FS_Subset
<1> QED
  BY <1>1, FS_CardinalityType DEF Place

\* Places grow with the elements.
LEMMA PlaceGrows ==
    ASSUME NEW S \in SUBSET Nat, IsFiniteSet(S), NEW x \in S, NEW y \in S, x < y
    PROVE  Place(x, S) < Place(y, S)
<1> DEFINE X == {z \in S : z < x}
           Y == {z \in S : z < y}
<1>1. IsFiniteSet(Y) /\ X \subseteq Y /\ x \in Y /\ x \notin X
  <2>1. Y \in SUBSET S
    OBVIOUS
  <2>2. x \in Nat /\ y \in Nat /\ \A z \in S : z \in Nat
    OBVIOUS
  <2>3. (\A z \in S : z < x => z < y) /\ ~(x < x)
    BY <2>2
  <2> QED
    BY <2>1, <2>3, FS_Subset
<1>2. IsFiniteSet(X) /\ Cardinality(X) <= Cardinality(Y) /\ Cardinality(X) # Cardinality(Y)
  BY <1>1, FS_Subset
<1>3. Cardinality(X) \in Nat /\ Cardinality(Y) \in Nat
  BY <1>1, <1>2, FS_CardinalityType
<1> QED
  BY <1>2, <1>3 DEF Place

\* Places are below the number of elements.
LEMMA PlaceBound ==
    ASSUME NEW S \in SUBSET Nat, IsFiniteSet(S), NEW x \in S
    PROVE  Place(x, S) \in 0..(Cardinality(S) - 1)
<1> DEFINE X == {z \in S : z < x}
<1>1. X \subseteq S /\ x \notin X
  OBVIOUS
<1>2. IsFiniteSet(X) /\ Cardinality(X) <= Cardinality(S) /\ Cardinality(X) # Cardinality(S)
  BY <1>1, FS_Subset
<1>3. Cardinality(X) \in Nat /\ Cardinality(S) \in Nat
  BY <1>2, FS_CardinalityType
<1> QED
  BY <1>2, <1>3 DEF Place

\* Every number below the number of elements is the place of exactly one.
LEMMA PlaceTaken ==
    ASSUME NEW S \in SUBSET Nat, IsFiniteSet(S), NEW k \in 0..(Cardinality(S) - 1)
    PROVE  \E x \in S : \A y \in S : Place(y, S) = k <=> y = x
<1> DEFINE n == Cardinality(S)
           T == 0..(n - 1)
           f == [x \in S |-> Place(x, S)]
<1>1. n \in Nat
  BY FS_CardinalityType
<1>2. IsFiniteSet(T) /\ Cardinality(T) = n
  <2>1. 0 \in Int /\ n - 1 \in Int
    BY <1>1
  <2>2. IsFiniteSet(T) /\ Cardinality(T) = IF 0 > n - 1 THEN 0 ELSE n - 1 - 0 + 1
    BY <2>1, FS_Interval
  <2> QED
    BY <1>1, <2>2
<1>3. \A x \in S : f[x] \in T
  BY PlaceBound
<1>4. ASSUME NEW x \in S, NEW y \in S, f[x] = f[y]
      PROVE  x = y
  <2>1. Place(x, S) = Place(y, S) /\ Place(x, S) \in Nat
    BY <1>4, PlaceType
  <2>2. ~(x < y) /\ ~(y < x)
    BY <2>1, PlaceGrows
  <2> QED
    BY <2>2
<1>5. f \in Injection(S, T)
  BY <1>3, <1>4 DEF Injection, IsInjective
<1>6. f \in Surjection(S, T)
  BY <1>2, <1>5, FS_Injection
<1>7. PICK x \in S : f[x] = k
  BY <1>6 DEF Surjection
<1> QED
  BY <1>4, <1>7
-----------------------------------------------------------------------------
(* Types.                                                                  *)

Counts == [index : Nat, total : Nat]
Views == [index : Nat, total : Nat, shards : SUBSET Shards]

LEMMA CountTypes ==
    ASSUME TypeOK, NEW c \in Clients
    PROVE  [index |-> Place(c, clients), total |-> Cardinality(clients)] \in Counts
<1>1. IsFiniteSet(clients)
  BY Constants, FS_Subset DEF TypeOK
<1> QED
  BY <1>1, PlaceType, FS_CardinalityType DEF Counts

LEMMA AssignedInView == \A c \in Clients : Assigned(c) \subseteq view[c].shards
  BY DEF Assigned

LEMMA InitInv == Init => KinsumerInv
<1> SUFFICES ASSUME Init PROVE KinsumerInv
  OBVIOUS
<1>1. TypeOK
  BY Constants DEF Init, TypeOK, NoCount, NoView, ChildrenOf
<1>2. Family
  BY DEF Init, Family, ChildrenOf
<1>3. OrderInv
  BY DEF Init, OrderInv, NoView
<1>4. ReadersInv /\ CountInv
  BY DEF Init, ReadersInv, CountInv, Steady, NoView
<1> QED
  BY <1>1, <1>2, <1>3, <1>4 DEF KinsumerInv

LEMMA TypeStep ==
    ASSUME TypeOK, [Next]_vars
    PROVE  TypeOK'
<1> USE DEF streamVars, clientVars, readerVars
<1>1. ASSUME NEW S \in SUBSET Shards, Reshard(S)
      PROVE  TypeOK'
  BY <1>1 DEF Reshard, TypeOK, ChildrenOf
<1>2. ASSUME NEW s \in Shards, Trim(s) \/ OwnerExpires(s)
      PROVE  TypeOK'
  BY <1>2 DEF Trim, OwnerExpires, TypeOK
<1>3. ASSUME NEW c \in Clients, ClientExpires(c) \/ Stop(c) \/ Cancel(c) \/ Crash(c)
      PROVE  TypeOK'
  <2>1. CASE ClientExpires(c)
    BY <2>1 DEF ClientExpires, Fault, TypeOK
  <2>2. CASE Stop(c) \/ Cancel(c)
    BY <2>2 DEF Stop, Cancel, ContextEnds, TypeOK
  <2>3. CASE Crash(c)
    BY <2>3 DEF Crash, Fault, Goto, Forget, ContextEnds, NoCount, NoView, TypeOK
  <2> QED
    BY <1>3, <2>1, <2>2, <2>3
<1>4. ASSUME NEW c \in Clients, Run(c)
      PROVE  TypeOK'
  <2>1. CASE Register(c)
    BY <2>1 DEF Register, Goto, TypeOK
  <2>7. Forget(c) => /\ found' \in [Clients -> [index : Nat, total : Nat]]
                     /\ view' \in [Clients -> [index : Nat, total : Nat, shards : SUBSET Shards]]
                     /\ known' \in [Clients -> SUBSET consumed]
    BY DEF Forget, NoCount, NoView, TypeOK
  <2>6. CASE RefreshFails(c) \/ Leave(c)
    <3>1. faults' \in Nat
      BY <2>6 DEF RefreshFails, Leave, Fault, TypeOK
    <3> QED
      BY <2>6, <2>7, <3>1 DEF RefreshFails, Leave, Goto, TypeOK
  <2>2. CASE CountClients(c)
    <3>1. CASE c \in clients
      BY <2>2, <3>1, CountTypes DEF CountClients, Goto, TypeOK, Counts
    <3>2. CASE c \notin clients
      BY <2>2, <2>7, <3>2 DEF CountClients, Goto, TypeOK
    <3> QED
      BY <3>1, <3>2
  <2>3. CASE ListShards(c)
    <3>1. PICK read \in SUBSET consumed :
            LET seen == known[c] \union (listed \intersect read)
                new == [index |-> found[c].index, total |-> found[c].total,
                        shards |-> SelectShards(seen)]
            IN  /\ known' = [known EXCEPT ![c] = seen]
                /\ view' = [view EXCEPT ![c] = new]
                /\ Goto(c, IF Changed(c, new) THEN "restart" ELSE "run")
      BY <2>3 DEF ListShards
    <3> DEFINE seen == known[c] \union (listed \intersect read)
               new == [index |-> found[c].index, total |-> found[c].total,
                       shards |-> SelectShards(seen)]
    <3>2. seen \in SUBSET consumed /\ new \in Views
      BY DEF TypeOK, Views, SelectShards
    <3>3. known' \in [Clients -> SUBSET consumed] /\ view' \in [Clients -> Views]
      BY <3>1, <3>2 DEF TypeOK, Views
    <3>4. pc' \in [Clients -> {"off", "query", "list", "restart", "run", "leave", "ended"}]
      BY <3>1 DEF TypeOK, Goto
    <3>5. /\ found' = [found EXCEPT ![c] = NoCount]
          /\ stop' \in [Clients -> {"none", "set", "stopped", "done"}]
          /\ faults' \in Nat
          /\ UNCHANGED <<streamVars, owner, clients, reading, asked>>
      BY <2>3 DEF ListShards, SetStop, Reads, Fault, TypeOK
    <3> QED
      BY <3>3, <3>4, <3>5 DEF TypeOK, Views, NoCount
  <2>4. CASE StartConsumers(c)
    <3>1. Assigned(c) \in SUBSET Shards
      BY AssignedInView DEF TypeOK
    <3> QED
      BY <2>4, <3>1 DEF StartConsumers, Goto, TypeOK
  <2>5. CASE Deregister(c)
    BY <2>5 DEF Deregister, Fault, Goto, ContextEnds, TypeOK
  <2> QED
    BY <1>4, <2>1, <2>2, <2>3, <2>4, <2>5, <2>6 DEF Run
<1>5. ASSUME NEW c \in Clients, NEW s \in Shards, Reader(c, s)
      PROVE  TypeOK'
  <2>0. ASSUME s \notin asked[c], ReaderEnds(c, s)
        PROVE  /\ asked' = asked /\ reading' \in [Clients -> SUBSET Shards]
               /\ \A d \in Clients : asked[d] \subseteq reading'[d]
    BY <2>0 DEF ReaderEnds, TypeOK
  <2>1. CASE AlreadyFinished(c, s) \/ Release(c, s)
    <3>1. /\ s \notin asked[c] /\ ReaderEnds(c, s)
          /\ owner' \in [Shards -> Clients \union {Nobody}]
          /\ UNCHANGED <<streamVars, clients, pc, clientVars, stop, faults>>
      BY <2>1 DEF AlreadyFinished, Release, Idle, TypeOK
    <3> QED
      BY <2>0, <3>1 DEF TypeOK
  <2>4. CASE GetShard(c, s)
    BY <2>4 DEF GetShard, Idle, TypeOK
  <2>5. CASE Acquire(c, s)
    BY <2>5 DEF Acquire, TypeOK
  <2>2. CASE Finish(c, s)
    BY <2>2 DEF Finish, ReaderEnds, Idle, TypeOK
  <2>3. CASE ReaderFails(c, s)
    BY <2>3 DEF ReaderFails, Fault, ContextEnds, ReaderEnds, TypeOK
  <2> QED
    BY <1>5, <2>1, <2>2, <2>3, <2>4, <2>5 DEF Reader
<1>6. CASE UNCHANGED vars
  BY <1>6 DEF vars, TypeOK
<1> QED
  BY <1>1, <1>2, <1>3, <1>4, <1>5, <1>6 DEF Next

-----------------------------------------------------------------------------
(* The order of parents and children.                                      *)

\* What a step may do to the stream: shards that were listed once are never listed again,
\* since their parents are closed, and what is consumed stays so.
LEMMA StreamStep ==
    ASSUME KinsumerInv, [Next]_vars
    PROVE  /\ Family'
           /\ consumed \subseteq consumed'
           /\ \A s \in Shards : InOrder(s) => InOrder(s)'
<1> USE DEF streamVars, clientVars, readerVars
<1>0. TypeOK /\ Family
  BY DEF KinsumerInv
<1>1. ASSUME NEW S \in SUBSET Shards, Reshard(S)
      PROVE  /\ Family'
             /\ consumed \subseteq consumed'
             /\ \A s \in Shards : InOrder(s) => InOrder(s)'
  <2>1. /\ S # {} /\ S \subseteq listed \ closed
        /\ closed' = closed \union S /\ listed' = listed \union ChildrenOf(S)
        /\ consumed' = consumed
    BY <1>1 DEF Reshard
  <2>2. Family'
    BY <1>0, <2>1 DEF Family, ChildrenOf
  <2>3. ASSUME NEW s \in Shards, InOrder(s)
        PROVE  InOrder(s)'
    <3>1. s \in listed' \union closed'
      BY <2>1, <2>3 DEF InOrder
    <3>2. ASSUME Parent[s] \in listed', Parent[s] \notin listed
          PROVE  FALSE
      <4>1. Parent[s] \in ChildrenOf(S)
        BY <2>1, <3>2
      <4>2. Parent[s] \in Shards /\ ParentsOf(Parent[s]) = S
        BY <4>1 DEF ChildrenOf
      <4>3. Parent[s] \in ParentsOf(s)
        BY <4>2, Constants DEF ParentsOf
      <4>4. Parent[s] \in closed
        BY <1>0, <2>3, <4>3 DEF Family, InOrder
      <4> QED
        BY <1>0, <2>1, <4>2, <4>4 DEF Family
    <3> QED
      BY <2>1, <2>3, <3>1, <3>2 DEF InOrder
  <2> QED
    BY <2>1, <2>2, <2>3
<1>2. ASSUME NEW s \in Shards, Trim(s) \/ OwnerExpires(s)
      PROVE  closed' = closed /\ listed' \subseteq listed /\ consumed' = consumed
             /\ listed' \union closed' = listed \union closed
  BY <1>2 DEF Trim, OwnerExpires
<1>3. ASSUME NEW c \in Clients, ClientExpires(c) \/ Stop(c) \/ Cancel(c) \/ Crash(c)
      PROVE  closed' = closed /\ listed' = listed /\ consumed' = consumed
  BY <1>3 DEF ClientExpires, Stop, Cancel, Crash
<1>4. ASSUME NEW c \in Clients, Run(c)
      PROVE  closed' = closed /\ listed' = listed /\ consumed' = consumed
  BY <1>4 DEF Run, Register, CountClients, ListShards, RefreshFails, StartConsumers, Leave, Deregister
<1>5. ASSUME NEW c \in Clients, NEW s \in Shards, Reader(c, s)
      PROVE  closed' = closed /\ listed' = listed /\ consumed \subseteq consumed'
  BY <1>5 DEF Reader, GetShard, Acquire, Idle, AlreadyFinished, Finish, Release, ReaderFails
<1>6. ASSUME UNCHANGED vars
      PROVE  closed' = closed /\ listed' = listed /\ consumed' = consumed
  BY <1>6 DEF vars
<1>7. ASSUME closed' = closed, listed' \subseteq listed, consumed \subseteq consumed',
             listed' \union closed' = listed \union closed
      PROVE  Family' /\ \A s \in Shards : InOrder(s) => InOrder(s)'
  BY <1>0, <1>7 DEF Family, InOrder
<1> QED
  BY <1>1, <1>2, <1>3, <1>4, <1>5, <1>6, <1>7 DEF Next

\* What getSortedShardIds selects is in order.
LEMMA SelectInOrder ==
    ASSUME TypeOK, KeepShardOrder, NEW seen \in SUBSET consumed, NEW s \in SelectShards(seen)
    PROVE  InOrder(s)
  BY DEF SelectShards, InOrder, TypeOK

LEMMA OrderStep ==
    ASSUME KinsumerInv, [Next]_vars
    PROVE  OrderInv'
<1> USE DEF streamVars, clientVars, readerVars
<1> SUFFICES ASSUME KeepShardOrder
             PROVE  /\ \A c \in Clients : \A s \in view'[c].shards \union reading'[c] : InOrder(s)'
                    /\ \A s \in Shards : owner'[s] # Nobody => InOrder(s)'
  BY DEF OrderInv
<1>0. /\ TypeOK /\ TypeOK'
      /\ \A c \in Clients : \A s \in view[c].shards \union reading[c] : InOrder(s)
      /\ \A s \in Shards : owner[s] # Nobody => InOrder(s)
  BY TypeStep DEF KinsumerInv, OrderInv
<1>k. \A s \in Shards : InOrder(s) => InOrder(s)'
  BY StreamStep
<1>s. /\ \A c \in Clients : view[c].shards \subseteq Shards /\ reading[c] \subseteq Shards
      /\ \A c \in Clients : view'[c].shards \subseteq Shards /\ reading'[c] \subseteq Shards
  BY <1>0 DEF TypeOK
<1>c. ASSUME \A c \in Clients : \A s \in view'[c].shards \union reading'[c] :
                 s \in view[c].shards \union reading[c] \/ InOrder(s),
             \A s \in Shards : owner'[s] # Nobody =>
                 owner[s] # Nobody \/ \E c \in Clients : s \in reading[c]
      PROVE  /\ \A c \in Clients : \A s \in view'[c].shards \union reading'[c] : InOrder(s)'
             /\ \A s \in Shards : owner'[s] # Nobody => InOrder(s)'
  BY <1>0, <1>k, <1>s, <1>c
<1>1. ASSUME NEW S \in SUBSET Shards, Reshard(S)
      PROVE  view' = view /\ reading' = reading /\ owner' = owner
  BY <1>1 DEF Reshard
<1>2. ASSUME NEW s \in Shards, Trim(s) \/ OwnerExpires(s)
      PROVE  view' = view /\ reading' = reading /\ owner' \in {owner, [owner EXCEPT ![s] = Nobody]}
  BY <1>2 DEF Trim, OwnerExpires
<1>3. ASSUME NEW c \in Clients, ClientExpires(c) \/ Stop(c) \/ Cancel(c) \/ Crash(c)
      PROVE  /\ owner' = owner
             /\ view' = view \/ view' = [view EXCEPT ![c] = NoView]
             /\ reading' = reading \/ reading' = [reading EXCEPT ![c] = {}]
  BY <1>3 DEF ClientExpires, Stop, Cancel, Crash, Forget
<1>4. ASSUME NEW c \in Clients, Run(c)
      PROVE  /\ owner' = owner
             /\ \A d \in Clients : \A s \in view'[d].shards \union reading'[d] :
                   s \in view[d].shards \union reading[d] \/ InOrder(s)
  <2>1. CASE Register(c) \/ Leave(c) \/ CountClients(c) \/ RefreshFails(c)
    <3>1. /\ owner' = owner /\ reading' = reading
          /\ view' = view \/ view' = [view EXCEPT ![c] = NoView]
      BY <2>1 DEF Register, Leave, CountClients, RefreshFails, Forget
    <3>2. \A d \in Clients : view'[d].shards \subseteq view[d].shards
      BY <1>0, <3>1 DEF NoView, TypeOK
    <3> QED
      BY <3>1, <3>2
  <2>2. CASE ListShards(c)
    <3>1. PICK read \in SUBSET consumed :
            LET seen == known[c] \union (listed \intersect read)
                new == [index |-> found[c].index, total |-> found[c].total,
                        shards |-> SelectShards(seen)]
            IN  view' = [view EXCEPT ![c] = new]
      BY <2>2 DEF ListShards
    <3> DEFINE seen == known[c] \union (listed \intersect read)
    <3>2. seen \in SUBSET consumed
      BY <1>0 DEF TypeOK
    <3>3. \A s \in SelectShards(seen) : InOrder(s)
      BY <1>0, <3>2, SelectInOrder
    <3>4. /\ view'[c].shards = SelectShards(seen)
          /\ \A d \in Clients : d # c => view'[d] = view[d]
          /\ owner' = owner /\ reading' = reading
      BY <1>0, <2>2, <3>1 DEF ListShards, TypeOK
    <3> QED
      BY <3>3, <3>4
  <2>3. CASE StartConsumers(c)
    BY <1>0, <2>3, AssignedInView DEF StartConsumers, TypeOK
  <2>4. CASE Deregister(c)
    BY <2>4 DEF Deregister
  <2> QED
    BY <1>4, <2>1, <2>2, <2>3, <2>4 DEF Run
<1>5. ASSUME NEW c \in Clients, NEW s \in Shards, Reader(c, s)
      PROVE  /\ view' = view
             /\ s \in reading[c]
             /\ reading' = reading \/ reading' = [reading EXCEPT ![c] = @ \ {s}]
             /\ \/ owner' = owner \/ owner' = [owner EXCEPT ![s] = Nobody]
                \/ owner' = [owner EXCEPT ![s] = c]
  BY <1>0, <1>5 DEF Reader, GetShard, Acquire, Idle, AlreadyFinished, Finish, Release, ReaderFails, ReaderEnds, TypeOK
<1>6. CASE UNCHANGED vars
  BY <1>6, <1>c DEF vars
<1>7. ASSUME NEW S \in SUBSET Shards, Reshard(S)
      PROVE  OrderInv'
  BY <1>1, <1>7, <1>c DEF OrderInv
<1>8. ASSUME NEW s \in Shards, Trim(s) \/ OwnerExpires(s)
      PROVE  OrderInv'
  BY <1>0, <1>2, <1>8, <1>c DEF OrderInv, TypeOK
<1>9. ASSUME NEW c \in Clients, ClientExpires(c) \/ Stop(c) \/ Cancel(c) \/ Crash(c)
      PROVE  OrderInv'
  <2>1. \A d \in Clients : view'[d].shards \subseteq view[d].shards /\ reading'[d] \subseteq reading[d]
    <3>1. /\ view' = view \/ view' = [view EXCEPT ![c] = NoView]
          /\ reading' = reading \/ reading' = [reading EXCEPT ![c] = {}]
      BY <1>3, <1>9
    <3> QED
      BY <1>0, <3>1 DEF TypeOK, NoView
  <2>2. owner' = owner
    BY <1>3, <1>9
  <2> QED
    BY <1>c, <2>1, <2>2 DEF OrderInv
<1>10. ASSUME NEW c \in Clients, Run(c)
       PROVE  OrderInv'
  BY <1>4, <1>10, <1>c DEF OrderInv
<1>11. ASSUME NEW c \in Clients, NEW s \in Shards, Reader(c, s)
       PROVE  OrderInv'
  <2>1. view' = view /\ \A d \in Clients : reading'[d] \subseteq reading[d]
    <3>1. view' = view /\ (reading' = reading \/ reading' = [reading EXCEPT ![c] = @ \ {s}])
      BY <1>5, <1>11
    <3> QED
      BY <1>0, <3>1 DEF TypeOK
  <2>2. s \in reading[c] /\ \A t \in Shards : t # s => owner'[t] = owner[t]
    <3>1. /\ s \in reading[c]
          /\ \/ owner' = owner \/ owner' = [owner EXCEPT ![s] = Nobody]
             \/ owner' = [owner EXCEPT ![s] = c]
      BY <1>5, <1>11
    <3> QED
      BY <1>0, <3>1 DEF TypeOK
  <2> QED
    BY <1>c, <2>1, <2>2 DEF OrderInv
<1> QED
  BY <1>6, <1>7, <1>8, <1>9, <1>10, <1>11 DEF Next, OrderInv

-----------------------------------------------------------------------------
(* Readers and what falls to a client.                                     *)

\* Who counts the clients finds at least itself.
LEMMA CountsItself ==
    ASSUME TypeOK, NEW c \in clients
    PROVE  Cardinality(clients) \in Nat /\ Cardinality(clients) # 0
<1>1. IsFiniteSet(clients)
  BY Constants, FS_Subset DEF TypeOK
<1> QED
  BY <1>1, FS_EmptySet, FS_CardinalityType

\* What refreshShards does: a view that stays the same keeps the readers.
LEMMA ListStep ==
    ASSUME KinsumerInv, NEW c \in Clients, ListShards(c)
    PROVE  /\ \A d \in Clients : d # c => view'[d] = view[d] /\ pc'[d] = pc[d] /\ stop'[d] = stop[d]
           /\ pc[c] = "list" /\ ~Canceled(c)
           /\ view'[c].total = found[c].total /\ found[c].total # 0
           /\ \/ pc'[c] = "restart"
              \/ pc'[c] = "run" /\ view'[c] = view[c] /\ stop' = stop
<1>0. TypeOK /\ CountInv /\ pc[c] = "list" /\ ~Canceled(c)
  BY DEF KinsumerInv, ListShards
<1>1. PICK new : /\ new.total = found[c].total
                 /\ view' = [view EXCEPT ![c] = new]
                 /\ pc' = [pc EXCEPT ![c] = IF new # view[c] THEN "restart" ELSE "run"]
  BY DEF ListShards, Goto, Changed
<1>2. view'[c] = new /\ \A d \in Clients : d # c => view'[d] = view[d] /\ pc'[d] = pc[d]
  BY <1>0, <1>1 DEF TypeOK
<1>3. found[c].total # 0
  BY <1>0 DEF CountInv
<1>4. stop' = (IF Starting(c) THEN [stop EXCEPT ![c] = IF @ = "stopped" THEN "done" ELSE "set"] ELSE stop)
  BY DEF ListShards, SetStop
<1>5. \A d \in Clients : d # c => stop'[d] = stop[d]
  BY <1>0, <1>4 DEF TypeOK
<1>6. CASE new # view[c]
  BY <1>0, <1>1, <1>2, <1>3, <1>5, <1>6 DEF TypeOK
<1>7. CASE new = view[c]
  <2>1. stop' = stop
    BY <1>1, <1>3, <1>4, <1>7 DEF Starting
  <2>2. pc'[c] = "run"
    BY <1>0, <1>1, <1>7 DEF TypeOK
  <2> QED
    BY <1>0, <1>1, <1>2, <1>3, <1>5, <1>7, <2>1, <2>2
<1> QED
  BY <1>6, <1>7

LEMMA CountStep ==
    ASSUME KinsumerInv, [Next]_vars
    PROVE  CountInv'
<1> USE DEF streamVars, clientVars, readerVars
<1>0. TypeOK /\ CountInv
  BY DEF KinsumerInv
<1>1. ASSUME NEW S \in SUBSET Shards, Reshard(S)
      PROVE  CountInv'
  BY <1>0, <1>1 DEF Reshard, CountInv
<1>2. ASSUME NEW s \in Shards, Trim(s) \/ OwnerExpires(s)
      PROVE  CountInv'
  BY <1>0, <1>2 DEF Trim, OwnerExpires, CountInv
<1>3. ASSUME NEW c \in Clients, ClientExpires(c) \/ Stop(c) \/ Cancel(c)
      PROVE  CountInv'
  BY <1>0, <1>3 DEF ClientExpires, Stop, Cancel, CountInv
<1>4. ASSUME NEW c \in Clients, Crash(c) \/ Deregister(c)
      PROVE  CountInv'
  BY <1>0, <1>4 DEF Crash, Deregister, Goto, Forget, NoView, NoCount, CountInv, TypeOK
<1>5. ASSUME NEW c \in Clients, Register(c) \/ Leave(c) \/ RefreshFails(c) \/ StartConsumers(c)
      PROVE  CountInv'
  BY <1>0, <1>5 DEF Register, Leave, RefreshFails, StartConsumers, Goto, Forget, NoView, NoCount, CountInv, TypeOK
<1>6. ASSUME NEW c \in Clients, CountClients(c)
      PROVE  CountInv'
  <2>1. CASE c \in clients
    <3>1. Cardinality(clients) # 0
      BY <1>0, <2>1, CountsItself
    <3>2. /\ found' = [found EXCEPT ![c] = [index |-> Place(c, clients), total |-> Cardinality(clients)]]
          /\ pc' = [pc EXCEPT ![c] = "list"] /\ view' = view
      BY <1>6, <2>1 DEF CountClients, Goto
    <3>3. found'[c].total = Cardinality(clients) /\ \A d \in Clients : d # c => found'[d] = found[d]
      BY <1>0, <3>2 DEF TypeOK
    <3>4. pc'[c] = "list" /\ \A d \in Clients : d # c => pc'[d] = pc[d]
      BY <1>0, <3>2 DEF TypeOK
    <3> QED
      BY <1>0, <3>1, <3>2, <3>3, <3>4 DEF CountInv
  <2>2. CASE c \notin clients
    <3>1. pc'[c] = "leave" /\ \A d \in Clients : d # c => pc'[d] = pc[d]
      BY <1>0, <1>6, <2>2 DEF CountClients, Goto, TypeOK
    <3>2. \A d \in Clients : d # c => view'[d] = view[d] /\ found'[d] = found[d]
      BY <1>0, <1>6, <2>2 DEF CountClients, Forget, TypeOK
    <3> QED
      BY <1>0, <3>1, <3>2 DEF CountInv
  <2> QED
    BY <2>1, <2>2
<1>7. ASSUME NEW c \in Clients, ListShards(c)
      PROVE  CountInv'
  <2>1. \A d \in Clients : d # c => found'[d] = found[d]
    BY <1>0, <1>7 DEF ListShards, TypeOK
  <2> QED
    BY <1>0, <1>7, <2>1, ListStep DEF CountInv
<1>8. ASSUME NEW c \in Clients, NEW s \in Shards, Reader(c, s)
      PROVE  CountInv'
  BY <1>0, <1>8 DEF Reader, GetShard, Acquire, Idle, AlreadyFinished, Finish, Release, ReaderFails, CountInv
<1>9. CASE UNCHANGED vars
  BY <1>0, <1>9 DEF vars, CountInv
<1> QED
  BY <1>1, <1>2, <1>3, <1>4, <1>5, <1>6, <1>7, <1>8, <1>9 DEF Next, Run

LEMMA ReadersStep ==
    ASSUME KinsumerInv, [Next]_vars
    PROVE  ReadersInv'
<1> USE DEF streamVars, clientVars, readerVars
<1>0. TypeOK /\ ReadersInv /\ CountInv /\ consumed \subseteq consumed'
  BY StreamStep DEF KinsumerInv
<1>c. ASSUME NEW d \in Clients, view'[d] = view[d]
      PROVE  Assigned(d)' = Assigned(d)
  BY <1>c DEF Assigned
\* A client whose readers may only end with their shards.
<1>k. ASSUME NEW d \in Clients, Steady(d)' => Steady(d), Steady(d)' => view'[d] = view[d],
             Steady(d)' => reading'[d] \subseteq reading[d] /\ reading[d] \ consumed' \subseteq reading'[d]
      PROVE  Steady(d)' => /\ reading'[d] \subseteq Assigned(d)'
                           /\ Assigned(d)' \ consumed' \subseteq reading'[d]
  BY <1>0, <1>c, <1>k DEF ReadersInv
\* A client that a step does not touch.
<1>u. ASSUME NEW d \in Clients, pc'[d] = pc[d], view'[d] = view[d], reading'[d] = reading[d],
             stop'[d] = "done" \/ stop'[d] = stop[d] \/ (stop'[d] # "done" /\ stop[d] # "done")
      PROVE  Steady(d)' => /\ reading'[d] \subseteq Assigned(d)'
                           /\ Assigned(d)' \ consumed' \subseteq reading'[d]
  BY <1>k, <1>u DEF Steady, Canceled
<1>1. ASSUME NEW S \in SUBSET Shards, Reshard(S)
      PROVE  ReadersInv'
  BY <1>1, <1>u DEF Reshard, ReadersInv
<1>2. ASSUME NEW s \in Shards, Trim(s) \/ OwnerExpires(s)
      PROVE  ReadersInv'
  BY <1>2, <1>u DEF Trim, OwnerExpires, ReadersInv
<1>3. ASSUME NEW c \in Clients, ClientExpires(c)
      PROVE  ReadersInv'
  BY <1>3, <1>u DEF ClientExpires, ReadersInv
<1>4. ASSUME NEW c \in Clients, Stop(c) \/ Cancel(c)
      PROVE  ReadersInv'
  <2>1. /\ pc' = pc /\ view' = view /\ reading' = reading
        /\ \A d \in Clients : stop'[d] = "done" \/ stop'[d] = stop[d] \/ (stop'[d] # "done" /\ stop[d] # "done")
    BY <1>0, <1>4 DEF Stop, Cancel, ContextEnds, TypeOK
  <2> QED
    BY <1>u, <2>1 DEF ReadersInv
<1>5. ASSUME NEW c \in Clients, Crash(c) \/ Deregister(c)
      PROVE  ReadersInv'
  <2>1. /\ ~Steady(c)'
        /\ \A d \in Clients : d # c => pc'[d] = pc[d] /\ view'[d] = view[d] /\ reading'[d] = reading[d] /\ stop'[d] = stop[d]
    BY <1>0, <1>5 DEF Crash, Deregister, Goto, Forget, ContextEnds, Steady, TypeOK
  <2> QED
    BY <1>u, <2>1 DEF ReadersInv
<1>6. ASSUME NEW c \in Clients, Register(c) \/ Leave(c) \/ RefreshFails(c) \/ CountClients(c)
      PROVE  ReadersInv'
  <2>1. /\ reading' = reading /\ stop' = stop
        /\ \A d \in Clients : d # c => pc'[d] = pc[d] /\ view'[d] = view[d]
        /\ (pc[c] \in {"off", "query", "run"} /\ view'[c] = view[c]) \/ pc'[c] = "leave"
    BY <1>0, <1>6 DEF Register, Refreshes, Leave, RefreshFails, CountClients, Goto, Forget, TypeOK
  <2>2. Steady(c)' => Steady(c) /\ view'[c] = view[c]
    BY <1>0, <2>1 DEF Steady, Canceled, CountInv
  <2> QED
    BY <1>k, <1>u, <2>1, <2>2 DEF ReadersInv
<1>7. ASSUME NEW c \in Clients, StartConsumers(c)
      PROVE  ReadersInv'
  <2>1. /\ view' = view /\ stop' = stop /\ reading'[c] = Assigned(c)
        /\ \A d \in Clients : d # c => pc'[d] = pc[d] /\ reading'[d] = reading[d]
    BY <1>0, <1>7 DEF StartConsumers, Goto, TypeOK
  <2> QED
    BY <1>c, <1>u, <2>1 DEF ReadersInv
<1>8. ASSUME NEW c \in Clients, ListShards(c)
      PROVE  ReadersInv'
  <2>1. reading' = reading
    BY <1>8 DEF ListShards
  <2>2. Steady(c)' => Steady(c) /\ view'[c] = view[c]
    BY <1>8, ListStep DEF KinsumerInv, Steady, Canceled
  <2> QED
    BY <1>8, <1>k, <1>u, <2>1, <2>2, ListStep DEF ReadersInv
<1>9. ASSUME NEW c \in Clients, NEW s \in Shards, Reader(c, s)
      PROVE  ReadersInv'
  <2>1. /\ pc' = pc /\ view' = view
        /\ \A d \in Clients : d # c => reading'[d] = reading[d] /\ stop'[d] = stop[d]
        /\ stop'[c] = stop[c] \/ stop'[c] = "done"
        /\ reading'[c] = reading[c] \/ reading'[c] = reading[c] \ {s}
    BY <1>0, <1>9 DEF Reader, GetShard, Acquire, Idle, AlreadyFinished, Finish, Release, ReaderFails, ContextEnds, ReaderEnds, TypeOK
  <2>2. reading'[c] = reading[c] \/ s \in consumed' \/ ~Steady(c)'
    <3>1. CASE Release(c, s)
      BY <3>1 DEF Release, ReaderCanceled, Steady, Canceled
    <3>2. CASE ReaderFails(c, s)
      BY <1>0, <3>2 DEF ReaderFails, ContextEnds, Steady, Canceled, TypeOK
    <3>3. CASE GetShard(c, s) \/ Acquire(c, s) \/ AlreadyFinished(c, s) \/ Finish(c, s)
      BY <1>0, <3>3 DEF GetShard, Acquire, AlreadyFinished, Finish, TypeOK
    <3> QED
      BY <1>9, <3>1, <3>2, <3>3 DEF Reader
  <2>3. Steady(c)' => Steady(c)
    BY <2>1 DEF Steady, Canceled
  <2> QED
    BY <1>k, <1>u, <2>1, <2>2, <2>3 DEF ReadersInv
<1>10. CASE UNCHANGED vars
  BY <1>10, <1>u DEF vars, ReadersInv
<1> QED
  BY <1>1, <1>2, <1>3, <1>4, <1>5, <1>6, <1>7, <1>8, <1>9, <1>10 DEF Next, Run

-----------------------------------------------------------------------------
(* Theorems.                                                               *)

\* The inductive invariant holds in every state.
LEMMA AlwaysInv == Spec => []KinsumerInv
<1>1. KinsumerInv /\ [Next]_vars => KinsumerInv'
  BY TypeStep, StreamStep, OrderStep, ReadersStep, CountStep DEF KinsumerInv
<1> QED
  BY InitInv, <1>1, PTL DEF Spec

\* The types of the stream, the metadata table and the clients.
THEOREM KinsumerTypeOK == Spec => []TypeOK
  BY AlwaysInv, PTL DEF KinsumerInv

\* KeepShardOrder, with getSortedShardIds: where shards are split but never merged, no
\* client reads a shard before its parent is consumed or past its retention.
THEOREM SplitsInOrder ==
    ASSUME \A s \in Shards : AdjacentParent[s] = None
    PROVE  Spec => []ParentFirst
<1>1. KinsumerInv => ParentFirst
  BY DEF KinsumerInv, OrderInv, InOrder, ParentFirst, ParentsOf
<1> QED
  BY <1>1, AlwaysInv, PTL

\* startConsumers and RegisterClient: clients that agree on their number and on the list
\* divide the shards, so that each one has exactly one reader.
THEOREM AgreedPartition == Spec => []Partition
<1>1. ASSUME KinsumerInv, Agree, NEW c \in clients, NEW s \in view[c].shards \ consumed
      PROVE  Cardinality({d \in clients : s \in reading[d]}) = 1
  <2> DEFINE n == Cardinality(clients)
             V == view[c].shards
             k == Place(s, V) % n
  <2>1. TypeOK /\ ReadersInv /\ clients \in SUBSET Clients /\ V \in SUBSET Shards
    BY <1>1 DEF KinsumerInv, TypeOK
  <2>2. clients \in SUBSET Nat /\ IsFiniteSet(clients) /\ IsFiniteSet(V)
    BY <2>1, Constants, FS_Subset
  <2>3. n \in Nat /\ n # 0 /\ Place(s, V) \in Nat
    BY <1>1, <2>1, <2>2, CountsItself, PlaceType
  <2>4. k \in 0..(n - 1)
    BY <2>3
  <2>5. PICK x \in clients : \A d \in clients : Place(d, clients) = k <=> d = x
    BY <2>2, <2>4, PlaceTaken
  <2>6. ASSUME NEW d \in clients
        PROVE  s \in reading[d] <=> Place(d, clients) = k
    <3>1. /\ view[d].index = Place(d, clients) /\ view[d].total = n /\ view[d].shards = V
          /\ Steady(d)
      BY <1>1, <2>3 DEF Agree, Steady, Place
    <3>2. s \in Assigned(d) <=> k = Place(d, clients)
      BY <3>1, <1>1 DEF Assigned
    <3> QED
      BY <1>1, <2>1, <3>1, <3>2 DEF ReadersInv
  <2>7. {d \in clients : s \in reading[d]} = {x}
    BY <2>5, <2>6
  <2> QED
    BY <2>7, FS_Singleton
<1>2. KinsumerInv => Partition
  BY <1>1 DEF Partition
<1> QED
  BY <1>2, AlwaysInv, PTL
=============================================================================
