------------------------ MODULE ProducerDaemonProofs ------------------------
(***************************************************************************)
(* Proofs about ProducerDaemon, for any number of writers, runners, buckets *)
(* and messages, any limits and any number of restarts: every message is in *)
(* one place and in order, batches keep their limits, and a daemon that has *)
(* stopped has passed everything on.                                        *)
(***************************************************************************)
EXTENDS ProducerDaemon, TLAPS

Items == [msgs : Seq(Messages), size : Nat]
Buffers == [msgs : Seq(Messages), len : Nat]

\* The types, with what is left of a call of Write within the bound.
TypeInv ==
    /\ TypeOK
    /\ issued + job.todo <= MaxMessages

-----------------------------------------------------------------------------
(* Constants and types.                                                    *)

\* What the assumption says of each constant.
LEMMA Constants ==
    /\ BufferSize \in Nat \ {0} /\ BatchSize \in Nat \ {0} /\ MaxMessages \in Nat \ {0}
    /\ MaxCall \in Nat \ {0} /\ Buckets \in Nat \ {0}
    /\ BatchMaxSize \in Nat /\ AggregationMaxSize \in Nat /\ Envelope \in Nat /\ MaxRestarts \in Nat
    /\ \A n \in AggregationSizes : n \in Nat \ {0}
    /\ \A k \in Kinds : k.size \in Nat \ {0} /\ k.bucket \in 1..Buckets
    /\ "run" \notin Writers /\ Runners # {}
<1>1. \A k \in Kinds : k \in [size : Nat \ {0}, bucket : 1..Buckets]
  BY DaemonAssumption
<1>2. \A k \in Kinds : k.size \in Nat \ {0} /\ k.bucket \in 1..Buckets
  BY <1>1
<1>3. AggregationSizes \subseteq Nat \ {0} /\ {BufferSize, BatchSize, MaxMessages, MaxCall} \subseteq Nat \ {0}
  BY DaemonAssumption
<1> QED
  BY <1>2, <1>3, DaemonAssumption

\* The types of the variables, one by one.
LEMMA Types ==
    ASSUME TypeInv
    PROVE  /\ aggregationSize \in AggregationSizes /\ kind \in [Messages -> Kinds]
           /\ issued \in Nat /\ issued <= MaxMessages /\ issued + job.todo <= MaxMessages
           /\ agg \in [1..Buckets -> Buffers]
           /\ batch \in Seq(Entries) /\ size \in Nat
           /\ job.by \in Writers \union {"run", "ticker", "nobody"} /\ job.todo \in Nat
           /\ job.todo <= MaxCall /\ job.items \in Seq(Items) /\ job.out \in Seq(Entries)
           /\ job.flush \in BOOLEAN
           /\ job = [by |-> job.by, todo |-> job.todo, items |-> job.items, out |-> job.out,
                     flush |-> job.flush]
           /\ ch \in Seq(Seq(Entries)) /\ Len(ch) <= BufferSize
           /\ loops \subseteq Runners /\ loop \in [Runners -> Seq(Entries)]
<1>1. job \in [by : Writers \union {"run", "ticker", "nobody"}, todo : 0..MaxCall,
                items : Seq(Items), out : Seq(Entries), flush : BOOLEAN]
  BY DEF TypeInv, TypeOK, Items
<1>2. job.todo \in 0..MaxCall /\ issued \in 0..MaxMessages
  BY <1>1 DEF TypeInv, TypeOK
<1>3. job = [by |-> job.by, todo |-> job.todo, items |-> job.items, out |-> job.out,
             flush |-> job.flush]
  BY <1>1
<1>4. /\ job.by \in Writers \union {"run", "ticker", "nobody"} /\ job.items \in Seq(Items)
      /\ job.out \in Seq(Entries) /\ job.flush \in BOOLEAN
  BY <1>1
<1>5. issued \in Nat /\ issued <= MaxMessages /\ job.todo \in Nat /\ job.todo <= MaxCall
  BY <1>2, Constants
<1> QED
  BY <1>3, <1>4, <1>5 DEF TypeInv, TypeOK, Buffers

\* Types of the idle holder and the empty aggregator.
LEMMA IdleTypes ==
    /\ Idle \in [by : Writers \union {"run", "ticker", "nobody"}, todo : 0..MaxCall,
                 items : Seq(Items), out : Seq(Entries), flush : BOOLEAN]
    /\ Empty \in Buffers
<1>1. <<>> \in Seq(Items) /\ <<>> \in Seq(Entries) /\ <<>> \in Seq(Messages) /\ 0 \in 0..MaxCall
  BY Constants
<1> QED
  BY <1>1 DEF Idle, Empty, Buffers

\* Size and bucket of a message.
LEMMA KindTypes ==
    ASSUME TypeInv, NEW id \in Messages
    PROVE  kind[id].size \in Nat \ {0} /\ BucketOf(id) \in 1..Buckets
  BY Types, Constants DEF BucketOf

\* The buffer of an aggregator with one message more.
LEMMA WrittenTypes ==
    ASSUME TypeInv, NEW id \in Messages, NEW a \in Buffers
    PROVE  /\ Written(a, id) \in Buffers /\ Written(a, id).msgs = Append(a.msgs, id)
           /\ Flushed(a) \in Items /\ Flushed(a).msgs = a.msgs
<1>1. a.msgs \in Seq(Messages) /\ a.len \in Nat /\ kind[id].size \in Nat /\ Envelope \in Nat
  BY KindTypes, Constants DEF Buffers
<1>2. Append(a.msgs, id) \in Seq(Messages)
  BY <1>1
<1>3. a.len + (IF a.msgs = <<>> THEN 0 ELSE 1) + kind[id].size \in Nat /\ Envelope + a.len + 1 \in Nat
  BY <1>1
<1> QED
  BY <1>1, <1>2, <1>3 DEF Written, Flushed, Buffers, Items

\* What the types say after a step.
LEMMA TypesThen ==
    ASSUME TypeInv, given' = given, issued' \in 0..MaxMessages,
           agg' \in [1..Buckets -> Buffers], batch' \in Seq(Entries), size' \in Nat,
           job' \in [by : Writers \union {"run", "ticker", "nobody"}, todo : 0..MaxCall,
                     items : Seq(Items), out : Seq(Entries), flush : BOOLEAN],
           issued' + job'.todo <= MaxMessages,
           ch' \in Seq(Seq(Entries)), Len(ch') <= BufferSize,
           {closed', stopped', ticking', postponed', ctxDone'} \subseteq BOOLEAN,
           runpc' \in {"new", "running", "waiting", "returned"},
           loops' \subseteq Runners, loop' \in [Runners -> Seq(Entries)],
           taken' \union sent' \union dropped' \union late' \subseteq Messages,
           restarts' \in 0..MaxRestarts
    PROVE  TypeInv'
  BY DEF TypeInv, TypeOK, given, Items, Buffers

\* The variables other than those of the holder of the lock.
LEMMA OtherTypes ==
    ASSUME TypeInv
    PROVE  /\ {closed, stopped, ticking, postponed, ctxDone} \subseteq BOOLEAN
           /\ runpc \in {"new", "running", "waiting", "returned"}
           /\ taken \union sent \union dropped \union late \subseteq Messages
           /\ restarts \in 0..MaxRestarts /\ issued \in 0..MaxMessages
           /\ job \in [by : Writers \union {"run", "ticker", "nobody"}, todo : 0..MaxCall,
                       items : Seq(Items), out : Seq(Entries), flush : BOOLEAN]
  BY DEF TypeInv, TypeOK, Items

LEMMA InitTypes == Init => TypeInv
<1> SUFFICES ASSUME Init PROVE TypeInv
  OBVIOUS
<1>1. <<>> \in Seq(Entries) /\ <<>> \in Seq(Seq(Entries)) /\ Len(<<>>) = 0
  OBVIOUS
<1>2. 0 \in 0..MaxMessages /\ 0 <= MaxMessages /\ 0 <= BufferSize /\ 0 \in 0..MaxRestarts
  BY Constants
<1>3. Idle.todo = 0
  BY DEF Idle
<1>4. agg \in [1..Buckets -> Buffers] /\ loop \in [Runners -> Seq(Entries)]
  BY <1>1, IdleTypes DEF Init
<1>5. issued + job.todo <= MaxMessages
  BY <1>2, <1>3 DEF Init
<1>6. job \in [by : Writers \union {"run", "ticker", "nobody"}, todo : 0..MaxCall,
               items : Seq(Items), out : Seq(Entries), flush : BOOLEAN]
  BY IdleTypes DEF Init
<1> QED
  BY <1>1, <1>2, <1>4, <1>5, <1>6 DEF Init, TypeInv, TypeOK, Items, Buffers

\* Unions of sets of messages.
LEMMA MsgsTypes ==
    ASSUME NEW items \in Seq(Entries)
    PROVE  MsgsOf(items) \subseteq Messages
<1> SUFFICES ASSUME NEW i \in DOMAIN items PROVE Range(items[i].msgs) \subseteq Messages
  BY DEF MsgsOf
<1>1. items[i] \in Entries
  OBVIOUS
<1>2. items[i].msgs \in Seq(Messages)
  BY <1>1 DEF Entries
<1> QED
  BY <1>2 DEF Range


\* Head and tail of a sequence.
LEMMA HeadTail ==
    ASSUME NEW S, NEW s \in Seq(S), s # <<>>
    PROVE  /\ Len(s) \in Nat /\ Len(s) >= 1 /\ Head(s) = s[1] /\ Head(s) \in S
           /\ Tail(s) \in Seq(S) /\ Len(Tail(s)) = Len(s) - 1
           /\ DOMAIN Tail(s) = 1..(Len(s) - 1) /\ DOMAIN s = 1..Len(s)
           /\ \A i \in 1..(Len(s) - 1) : Tail(s)[i] = s[i + 1]
<1>1. Len(s) \in Nat /\ Len(s) >= 1 /\ DOMAIN s = 1..Len(s)
  OBVIOUS
<1>2. Head(s) = s[1] /\ Head(s) \in S
  BY <1>1
<1>3. Tail(s) \in Seq(S) /\ Len(Tail(s)) = Len(s) - 1
  BY <1>1
<1>4. \A i \in 1..(Len(s) - 1) : Tail(s)[i] = s[i + 1]
  BY <1>1, <1>3
<1>5. DOMAIN Tail(s) = 1..(Len(s) - 1)
  BY <1>3
<1> QED
  BY <1>1, <1>2, <1>3, <1>4, <1>5
\* The message that is aggregated next is within the bound.
LEMMA NextId ==
    ASSUME TypeInv, ApplyAggregation
    PROVE  issued + 1 \in Messages /\ job.todo > 0
<1>1. issued \in Nat /\ job.todo \in Nat /\ issued + job.todo <= MaxMessages /\ MaxMessages \in Nat
  BY Types, Constants
<1>2. job.todo > 0
  BY DEF ApplyAggregation
<1> QED
  BY <1>1, <1>2 DEF Messages

\* What ApplyAggregation does without aggregation.
LEMMA PassOnStep ==
    ASSUME TypeInv, ApplyAggregation, aggregationSize <= 1
    PROVE  LET id == issued + 1
               item == [msgs |-> <<id>>, size |-> kind[id].size]
           IN  /\ id \in Messages /\ job.todo > 0 /\ item \in Items
               /\ job' = [job EXCEPT !.todo = job.todo - 1, !.items = Append(job.items, item)]
               /\ agg' = agg
<1> DEFINE id == issued + 1
           item == [msgs |-> <<id>>, size |-> kind[id].size]
<1>1. id \in Messages /\ job.todo > 0
  BY NextId
<1>2. item \in Items
  <2>1. <<id>> \in Seq(Messages) /\ kind[id].size \in Nat
    BY <1>1, KindTypes, Constants
  <2> QED
    BY <2>1 DEF Items
<1>3. PassOn(id)
  BY DEF ApplyAggregation
<1> QED
  BY <1>1, <1>2, <1>3 DEF PassOn

\* What it does with aggregation: the bucket's messages are flushed if they leave no
\* room (base is what stays), the message is added, and the aggregate is flushed if that
\* filled it.
LEMMA AggregateStep ==
    ASSUME TypeInv, ApplyAggregation, ~(aggregationSize <= 1)
    PROVE  \E full, flush \in BOOLEAN :
           LET id == issued + 1
               b == BucketOf(id)
               base == IF full THEN Empty ELSE agg[b]
               ready == IF full THEN Append(job.items, Flushed(agg[b])) ELSE job.items
               with == Written(base, id)
           IN  /\ id \in Messages /\ b \in 1..Buckets /\ job.todo > 0
               /\ base \in Buffers /\ ready \in Seq(Items) /\ with \in Buffers
               /\ with.msgs = Append(base.msgs, id)
               /\ (~flush => Len(with.msgs) < aggregationSize)
               /\ agg' = [agg EXCEPT ![b] = IF flush THEN Empty ELSE with]
               /\ job' = [job EXCEPT !.todo = job.todo - 1,
                             !.items = IF flush THEN Append(ready, Flushed(with)) ELSE ready]
<1> DEFINE id == issued + 1
           b == BucketOf(id)
           full == agg[b].msgs # <<>> /\ TooLarge(agg[b], kind[id].size)
           base == IF full THEN Empty ELSE agg[b]
           ready == IF full THEN Append(job.items, Flushed(agg[b])) ELSE job.items
           with == Written(base, id)
           flush == Len(with.msgs) >= aggregationSize \/ TooLarge(with, 0)
<1>1. id \in Messages /\ job.todo > 0
  BY NextId
<1>2. b \in 1..Buckets /\ agg[b] \in Buffers
  BY <1>1, KindTypes, Types
<1>3. base \in Buffers /\ Flushed(agg[b]) \in Items
  BY <1>1, <1>2, IdleTypes, WrittenTypes
<1>4. ready \in Seq(Items)
  BY <1>3, Types
<1>5. with \in Buffers /\ with.msgs = Append(base.msgs, id)
  BY <1>1, <1>3, WrittenTypes
<1>6. Aggregate(id)
  BY DEF ApplyAggregation
<1>7. /\ agg' = [agg EXCEPT ![b] = IF flush THEN Empty ELSE with]
      /\ job' = [job EXCEPT !.todo = job.todo - 1,
                            !.items = IF flush THEN Append(ready, Flushed(with)) ELSE ready]
  BY <1>6 DEF Aggregate
<1>8. ~flush => Len(with.msgs) < aggregationSize
  <2>1. Len(with.msgs) \in Nat /\ aggregationSize \in Nat
    BY <1>5, Types, Constants DEF Buffers
  <2> QED
    BY <2>1
<1>9. full \in BOOLEAN /\ flush \in BOOLEAN
  BY DEF TooLarge
<1> QED
  BY <1>1, <1>2, <1>3, <1>4, <1>5, <1>7, <1>8, <1>9

\* What Append of the batcher does: the item may not fit (first), and may fill the batch
\* it is added to (full).
LEMMA AppendStep ==
    ASSUME TypeInv, AppendItem, Head(job.items).msgs # <<>>
    PROVE  \E first, full \in BOOLEAN :
           LET item == Head(job.items)
               rest == IF first THEN <<>> ELSE batch
               total == (IF first THEN 0 ELSE size) + item.size
               entry == [msgs |-> item.msgs, size |-> item.size, total |-> total]
           IN  /\ item \in Items /\ rest \in Seq(Entries) /\ total \in Nat /\ entry \in Entries
               /\ first = NeedsFlush(Len(batch), size + item.size - 1)
               /\ full = NeedsFlush(Len(rest) + 1, total)
               /\ batch' = IF full THEN <<>> ELSE Append(rest, entry)
               /\ size' = IF full THEN 0 ELSE total
               /\ job' = [job EXCEPT !.items = Tail(job.items),
                                     !.out = IF full THEN Append(batch, entry)
                                             ELSE IF first THEN batch ELSE <<>>]
<1> DEFINE item == Head(job.items)
           first == NeedsFlush(Len(batch), size + item.size - 1)
           rest == IF first THEN <<>> ELSE batch
           total == (IF first THEN 0 ELSE size) + item.size
           entry == [msgs |-> item.msgs, size |-> item.size, total |-> total]
           full == NeedsFlush(Len(rest) + 1, total)
<1>1. item \in Items
  BY Types DEF AppendItem
<1>2. item.msgs \in Seq(Messages) /\ item.size \in Nat
  BY <1>1 DEF Items
<1>3. rest \in Seq(Entries) /\ total \in Nat
  BY <1>2, Types
<1>4. entry \in Entries
  BY <1>2, <1>3 DEF Entries
<1>5. first \in BOOLEAN /\ full \in BOOLEAN
  BY DEF NeedsFlush
<1>6. BatcherAppend(item)
  BY DEF AppendItem
<1>7. /\ batch' = IF full THEN <<>> ELSE Append(rest, entry)
      /\ size' = IF full THEN 0 ELSE total
      /\ job' = [job EXCEPT !.items = Tail(job.items),
                            !.out = IF full THEN Append(batch, entry)
                                    ELSE IF first THEN batch ELSE <<>>]
  BY <1>6 DEF BatcherAppend
<1> HIDE DEF item, first, full, rest, total, entry
<1>8. \E f, g \in BOOLEAN : f = first /\ g = full
  BY <1>5
<1> QED
  BY <1>1, <1>3, <1>4, <1>5, <1>7 DEF item, first, full, rest, total, entry

\* Every action of the holder of the lock keeps the types.
LEMMA HolderTypes ==
    ASSUME TypeInv, Holder
    PROVE  TypeInv'
<1> DEFINE Jobs == [by : Writers \union {"run", "ticker", "nobody"}, todo : 0..MaxCall,
                    items : Seq(Items), out : Seq(Entries), flush : BOOLEAN]
<1>a. <<>> \in Seq(Entries)
  OBVIOUS
<1>1. CASE ApplyAggregation
  <2>1. issued + 1 \in Messages /\ job.todo - 1 \in 0..MaxCall /\ issued' = issued + 1
        /\ issued' \in 0..MaxMessages
    <3>1. issued \in Nat /\ job.todo \in Nat /\ job.todo <= MaxCall /\ MaxMessages \in Nat /\ MaxCall \in Nat
      BY Types, Constants
    <3> QED
      BY <1>1, <3>1, NextId DEF ApplyAggregation, Messages
  <2>2. late' \subseteq Messages
    BY <1>1, <2>1, OtherTypes DEF ApplyAggregation
  <2>3. job' \in Jobs /\ job'.todo = job.todo - 1 /\ agg' \in [1..Buckets -> Buffers]
    <3>1. CASE aggregationSize <= 1
      <4>1. PICK x \in Items : /\ job' = [job EXCEPT !.todo = job.todo - 1, !.items = Append(job.items, x)]
                               /\ agg' = agg
        BY <1>1, <3>1, PassOnStep
      <4>2. Append(job.items, x) \in Seq(Items)
        BY Types
      <4> QED
        BY <2>1, <4>1, <4>2, Types, OtherTypes
    <3>2. CASE ~(aggregationSize <= 1)
      <4> DEFINE b == BucketOf(issued + 1)
      <4>1. PICK items, new :
                /\ items \in Seq(Items) /\ new \in Buffers /\ b \in 1..Buckets
                /\ job' = [job EXCEPT !.todo = job.todo - 1, !.items = items]
                /\ agg' = [agg EXCEPT ![b] = new]
        <5> DEFINE id == issued + 1
        <5>1. PICK full, flush \in BOOLEAN :
               LET base == IF full THEN Empty ELSE agg[b]
                   ready == IF full THEN Append(job.items, Flushed(agg[b])) ELSE job.items
                   with == Written(base, id)
               IN  /\ id \in Messages /\ b \in 1..Buckets
                   /\ ready \in Seq(Items) /\ with \in Buffers
                   /\ agg' = [agg EXCEPT ![b] = IF flush THEN Empty ELSE with]
                   /\ job' = [job EXCEPT !.todo = job.todo - 1,
                                 !.items = IF flush THEN Append(ready, Flushed(with)) ELSE ready]
          BY <1>1, <3>2, AggregateStep
        <5> DEFINE base == IF full THEN Empty ELSE agg[b]
                   ready == IF full THEN Append(job.items, Flushed(agg[b])) ELSE job.items
                   with == Written(base, id)
        <5>2. Flushed(with) \in Items /\ ready \in Seq(Items)
          BY <5>1, WrittenTypes
        <5>3. (IF flush THEN Append(ready, Flushed(with)) ELSE ready) \in Seq(Items)
          BY <5>2
        <5>4. (IF flush THEN Empty ELSE with) \in Buffers
          BY <5>1, IdleTypes
        <5> QED
          BY <5>1, <5>3, <5>4
      <4> QED
        BY <2>1, <4>1, Types, OtherTypes
    <3> QED
      BY <3>1, <3>2
  <2>4. issued' + job'.todo <= MaxMessages
    <3>1. issued \in Nat /\ job.todo \in Nat /\ issued + job.todo <= MaxMessages /\ MaxMessages \in Nat
      BY Types, Constants
    <3> QED
      BY <2>1, <2>3, <3>1
  <2> QED
    BY <1>1, <2>1, <2>2, <2>3, <2>4, Types, OtherTypes, TypesThen
       DEF ApplyAggregation, given, runVars, outVars
<1>2. CASE AppendItem
  <2>1. Tail(job.items) \in Seq(Items)
    BY <1>2, Types DEF AppendItem
  <2>2. PICK new \in Seq(Entries) : job' = [job EXCEPT !.items = Tail(job.items), !.out = new]
                                    /\ batch' \in Seq(Entries) /\ size' \in Nat
    <3>1. CASE Head(job.items).msgs # <<>>
      <4> DEFINE item == Head(job.items)
      <4>1. PICK first, full \in BOOLEAN :
             LET rest == IF first THEN <<>> ELSE batch
                 total == (IF first THEN 0 ELSE size) + item.size
                 entry == [msgs |-> item.msgs, size |-> item.size, total |-> total]
             IN  /\ rest \in Seq(Entries) /\ total \in Nat /\ entry \in Entries
                 /\ batch' = IF full THEN <<>> ELSE Append(rest, entry)
                 /\ size' = IF full THEN 0 ELSE total
                 /\ job' = [job EXCEPT !.items = Tail(job.items),
                                       !.out = IF full THEN Append(batch, entry)
                                               ELSE IF first THEN batch ELSE <<>>]
        BY <1>2, <3>1, AppendStep
      <4> DEFINE rest == IF first THEN <<>> ELSE batch
                 total == (IF first THEN 0 ELSE size) + item.size
                 entry == [msgs |-> item.msgs, size |-> item.size, total |-> total]
                 new == IF full THEN Append(batch, entry) ELSE IF first THEN batch ELSE <<>>
      <4>2. entry \in Entries /\ rest \in Seq(Entries) /\ total \in Nat /\ batch \in Seq(Entries)
        BY <4>1, Types
      <4> HIDE DEF entry, rest, total
      <4>3. Append(batch, entry) \in Seq(Entries) /\ Append(rest, entry) \in Seq(Entries)
        BY <4>2
      <4>4. new \in Seq(Entries)
        BY <1>a, <4>2, <4>3
      <4>5. batch' = (IF full THEN <<>> ELSE Append(rest, entry)) /\ size' = (IF full THEN 0 ELSE total)
            /\ job' = [job EXCEPT !.items = Tail(job.items), !.out = new]
        BY <4>1 DEF entry, rest, total
      <4> QED
        BY <1>a, <4>2, <4>3, <4>4, <4>5
    <3>2. CASE Head(job.items).msgs = <<>>
      <4>1. job' = [job EXCEPT !.items = Tail(job.items)] /\ batch' = batch /\ size' = size
        BY <1>2, <3>2 DEF AppendItem
      <4>2. job' = [job EXCEPT !.items = Tail(job.items), !.out = job.out]
        BY <4>1, Types
      <4> QED
        BY <4>1, <4>2, Types
    <3> QED
      BY <3>1, <3>2
  <2>3. job' \in Jobs /\ job'.todo = job.todo
    BY <2>1, <2>2, OtherTypes
  <2> QED
    BY <1>2, <2>2, <2>3, Types, OtherTypes, TypesThen DEF AppendItem, given, runVars, outVars
<1>3. CASE FlushBatch
  <2>1. job' \in Jobs /\ job'.todo = job.todo
    BY <1>3, Types, OtherTypes DEF FlushBatch
  <2> QED
    BY <1>3, <1>a, <2>1, Types, OtherTypes, TypesThen DEF FlushBatch, given, runVars, outVars
<1>4. CASE Output
  <2>1. job' \in Jobs /\ job'.todo = job.todo
    BY <1>4, <1>a, OtherTypes DEF Output
  <2>2. dropped' \subseteq Messages
    BY <1>4, Types, OtherTypes, MsgsTypes DEF Output
  <2>3. ch' \in Seq(Seq(Entries)) /\ Len(ch') <= BufferSize
    <3>1. CASE ch' = ch
      BY <3>1, Types
    <3>2. CASE ch' = Append(ch, job.out) /\ HasRoom
      BY <3>2, Types, Constants DEF HasRoom
    <3> QED
      BY <1>4, <3>1, <3>2 DEF Output
  <2> QED
    BY <1>4, <2>1, <2>2, <2>3, Types, OtherTypes, TypesThen
       DEF Output, given, batchVars, runVars, outVars
<1>5. CASE Unlock
  <2>1. job' \in Jobs /\ job'.todo = 0 /\ job.todo = 0
    BY <1>5, IdleTypes DEF Unlock, Done, Idle
  <2>2. closed' \in BOOLEAN
    BY <1>5 DEF Unlock
  <2> QED
    BY <1>5, <2>1, <2>2, Types, OtherTypes, TypesThen DEF Unlock, given, batchVars, runVars, outVars
<1> QED
  BY <1>1, <1>2, <1>3, <1>4, <1>5 DEF Holder

\* flushAll starts: the types of the holder and the aggregators.
LEMMA FlushTypes ==
    ASSUME TypeInv, NEW p \in {"run", "ticker"}, StartFlush(p)
    PROVE  /\ job' \in [by : Writers \union {"run", "ticker", "nobody"}, todo : 0..MaxCall,
                        items : Seq(Items), out : Seq(Entries), flush : BOOLEAN]
           /\ job' = [by |-> p, todo |-> 0, items |-> Aggregates, out |-> <<>>, flush |-> TRUE]
           /\ agg' \in [1..Buckets -> Buffers] /\ job = Idle
           /\ DOMAIN Aggregates = 1..Buckets
           /\ \A b \in 1..Buckets : Aggregates[b].msgs = agg[b].msgs
<1>1. \A b \in 1..Buckets : Flushed(agg[b]) \in Items /\ Flushed(agg[b]).msgs = agg[b].msgs
  <2> SUFFICES ASSUME NEW b \in 1..Buckets PROVE Flushed(agg[b]) \in Items /\ Flushed(agg[b]).msgs = agg[b].msgs
    OBVIOUS
  <2>1. agg[b].msgs \in Seq(Messages) /\ agg[b].len \in Nat
    BY Types DEF Buffers
  <2>2. Envelope + agg[b].len + 1 \in Nat
    BY <2>1, Constants
  <2> QED
    BY <2>1, <2>2 DEF Flushed, Items
<1>2. Aggregates \in Seq(Items)
  BY <1>1, Constants DEF Aggregates
<1>3. job' = [by |-> p, todo |-> 0, items |-> Aggregates, out |-> <<>>, flush |-> TRUE]
  BY DEF StartFlush, Idle
<1>4. <<>> \in Seq(Entries) /\ 0 \in 0..MaxCall
  BY Constants
<1> QED
  BY <1>1, <1>2, <1>3, <1>4, IdleTypes DEF StartFlush, Aggregates

\* Every step keeps the types.
LEMMA TypesStep == TypeInv /\ [Next]_vars => TypeInv'
<1> SUFFICES ASSUME TypeInv, [Next]_vars PROVE TypeInv'
  OBVIOUS
<1> DEFINE Jobs == [by : Writers \union {"run", "ticker", "nobody"}, todo : 0..MaxCall,
                    items : Seq(Items), out : Seq(Entries), flush : BOOLEAN]
<1>a. <<>> \in Seq(Entries) /\ <<>> \in Seq(Seq(Entries)) /\ Len(<<>>) <= BufferSize
  BY Constants
<1>1. ASSUME NEW w \in Writers, Write(w) PROVE TypeInv'
  <2>1. PICK n \in 1..MaxCall : issued + n <= MaxMessages /\ job' = [Idle EXCEPT !.by = w, !.todo = n]
    BY <1>1 DEF Write
  <2>2. n \in 0..MaxCall
    BY Constants
  <2>3. job' \in Jobs /\ job'.todo = n
    BY <2>1, <2>2, IdleTypes
  <2> QED
    BY <1>1, <2>1, <2>3, Types, OtherTypes, TypesThen DEF Write, given, batchVars, runVars, outVars
<1>2. CASE Tick
  <2>1. job' \in Jobs /\ job'.todo = 0 /\ agg' \in [1..Buckets -> Buffers]
    BY <1>2, FlushTypes DEF Tick
  <2> QED
    BY <1>2, <2>1, Types, OtherTypes, TypesThen DEF Tick, given, runVars, outVars
<1>3. CASE Holder
  BY <1>3, HolderTypes
<1>4. CASE Run
  BY <1>4, Types, OtherTypes, TypesThen DEF Run, given, batchVars
<1>5. CASE Close
  <2>1. job' \in Jobs /\ job'.todo = 0 /\ agg' \in [1..Buckets -> Buffers]
    BY <1>5, FlushTypes DEF Close
  <2> QED
    BY <1>5, <2>1, Types, OtherTypes, TypesThen DEF Close, given, outVars
<1>6. CASE RunReturns
  BY <1>6, Types, OtherTypes, TypesThen DEF RunReturns, given, batchVars, outVars
<1>7. CASE Restart
  <2>1. restarts' \in 0..MaxRestarts
    BY <1>7, OtherTypes, Constants DEF Restart
  <2> QED
    BY <1>7, <1>a, <2>1, Types, OtherTypes, TypesThen DEF Restart, given, batchVars, outVars
<1>8. CASE KernelStops
  BY <1>8, Types, OtherTypes, TypesThen DEF KernelStops, given, batchVars, outVars
<1>9. CASE TickerEnds
  BY <1>9, Types, OtherTypes, TypesThen DEF TickerEnds, given, batchVars, outVars
<1>10. ASSUME NEW r \in Runners, Read(r) PROVE TypeInv'
  <2>1. Head(ch) \in Seq(Entries) /\ Tail(ch) \in Seq(Seq(Entries)) /\ Len(Tail(ch)) <= BufferSize
    <3>1. ch \in Seq(Seq(Entries)) /\ ch # <<>> /\ Len(ch) <= BufferSize /\ BufferSize \in Nat
      BY <1>10, Types, Constants DEF Read
    <3>2. /\ Len(ch) \in Nat /\ Head(ch) \in Seq(Entries) /\ Tail(ch) \in Seq(Seq(Entries))
          /\ Len(Tail(ch)) = Len(ch) - 1
      BY <3>1, HeadTail
    <3> QED
      BY <3>1, <3>2
  <2>2. MsgsOf(Head(ch)) \subseteq Messages
    BY <2>1, MsgsTypes
  <2>3. loop' \in [Runners -> Seq(Entries)] /\ taken' \subseteq Messages
    BY <1>10, <2>1, <2>2, Types, OtherTypes DEF Read
  <2> QED
    BY <1>10, <2>1, <2>3, Types, OtherTypes, TypesThen DEF Read, given, batchVars, runVars
<1>11. ASSUME NEW r \in Runners, Send(r) PROVE TypeInv'
  <2>1. loop' \in [Runners -> Seq(Entries)] /\ sent' \subseteq Messages
    <3>1. loop[r] \in Seq(Entries)
      BY Types
    <3> QED
      BY <1>11, <1>a, <3>1, Types, OtherTypes, MsgsTypes DEF Send
  <2> QED
    BY <1>11, <2>1, Types, OtherTypes, TypesThen DEF Send, given, batchVars, runVars
<1>12. ASSUME NEW r \in Runners, LoopEnds(r) PROVE TypeInv'
  BY <1>12, Types, OtherTypes, TypesThen DEF LoopEnds, given, batchVars, runVars
<1>14. CASE BusyWrite \/ Rearm
  BY <1>14, Types, OtherTypes, TypesThen DEF BusyWrite, Rearm, given, batchVars, outVars
<1>13. CASE UNCHANGED vars
  BY <1>13, Types, OtherTypes, TypesThen DEF vars, given, batchVars, runVars, outVars
<1> QED
  BY <1>1, <1>2, <1>3, <1>4, <1>5, <1>6, <1>7, <1>8, <1>9, <1>10, <1>11, <1>12, <1>13, <1>14
     DEF Next, OutputLoop

\* The types: the channel is within its capacity, messages and restarts within their
\* bounds, for every setting of the daemon.
THEOREM DaemonTypes == Spec => []TypeOK
<1>1. Spec => []TypeInv
  BY InitTypes, TypesStep, PTL DEF Spec
<1>2. TypeInv => TypeOK
  BY DEF TypeInv
<1> QED
  BY <1>1, <1>2, PTL


-----------------------------------------------------------------------------
(* Limits of aggregates and batches.                                       *)

\* No aggregate in b has more messages than configured.
Sized(b) == \A i \in DOMAIN b : Len(b[i].msgs) <= aggregationSize

\* Item i of b has the running total, which is below the limit of a batch.
TotalBelow(b, i) ==
    /\ b[i].total = b[i].size + (IF i = 1 THEN 0 ELSE b[i - 1].total)
    /\ (BatchMaxSize # 0 => b[i].total < BatchMaxSize)

\* A batch on its way to the output; what BatchBounded says of it.
BatchOK(b) ==
    /\ Len(b) <= BatchSize
    /\ Sized(b)
    /\ \A i \in DOMAIN b : i < Len(b) => TotalBelow(b, i)

\* A batch that is still being filled: with room for another message, below the limit
\* up to its last item, and of the size n that the batcher keeps.
OpenOK(b, n) ==
    /\ Len(b) < BatchSize
    /\ Sized(b)
    /\ \A i \in DOMAIN b : TotalBelow(b, i)
    /\ n = IF b = <<>> THEN 0 ELSE b[Len(b)].total

\* Aggregators have room for another message whenever the lock is free or a message
\* comes; without aggregation they are empty.
BoundInv ==
    /\ \A i \in DOMAIN ch : BatchOK(ch[i])
    /\ BatchOK(job.out)
    /\ OpenOK(batch, size)
    /\ Sized(job.items)
    /\ \A b \in 1..Buckets : Len(agg[b].msgs) < aggregationSize

\* What Append returns, index by index.
LEMMA Appended ==
    ASSUME NEW S, NEW s \in Seq(S), NEW x \in S
    PROVE  /\ Append(s, x) \in Seq(S) /\ Len(s) \in Nat /\ Len(Append(s, x)) = Len(s) + 1
           /\ DOMAIN s = 1..Len(s) /\ DOMAIN Append(s, x) = 1..(Len(s) + 1)
           /\ \A i \in 1..Len(s) : Append(s, x)[i] = s[i]
           /\ Append(s, x)[Len(s) + 1] = x
           /\ (s = <<>> <=> Len(s) = 0) /\ Append(s, x) # <<>>
  OBVIOUS

\* An empty batch.
LEMMA NothingOpen == OpenOK(<<>>, 0) /\ BatchOK(<<>>)
  BY Constants DEF OpenOK, BatchOK, Sized

\* A batch that is being filled can be sent.
LEMMA OpenIsOK ==
    ASSUME NEW b \in Seq(Entries), NEW n, OpenOK(b, n)
    PROVE  BatchOK(b)
  BY Constants DEF OpenOK, BatchOK

\* Adding an aggregate keeps the limit on messages.
LEMMA SizedAppend ==
    ASSUME NEW S, NEW b \in Seq(S), NEW x \in S, Sized(b), Len(x.msgs) <= aggregationSize
    PROVE  Sized(Append(b, x))
<1> SUFFICES ASSUME NEW i \in DOMAIN Append(b, x) PROVE Len(Append(b, x)[i].msgs) <= aggregationSize
  BY DEF Sized
<1>1. CASE i = Len(b) + 1
  BY <1>1, Appended
<1>2. CASE i \in 1..Len(b)
  BY <1>2, Appended DEF Sized
<1> QED
  BY <1>1, <1>2, Appended

\* An entry may be added to a batch that is being filled, and the batch stays open
\* unless it needs to be flushed.
LEMMA OpenAppend ==
    ASSUME NEW b \in Seq(Entries), NEW n \in Nat, NEW e \in Entries, OpenOK(b, n),
           Len(e.msgs) <= aggregationSize
    PROVE  /\ BatchOK(Append(b, e))
           /\ (e.total = n + e.size /\ ~NeedsFlush(Len(b) + 1, e.total)
               => OpenOK(Append(b, e), e.total))
<1> DEFINE c == Append(b, e)
<1>0. /\ c \in Seq(Entries) /\ Len(b) \in Nat /\ Len(c) = Len(b) + 1
      /\ DOMAIN b = 1..Len(b) /\ DOMAIN c = 1..(Len(b) + 1)
      /\ \A i \in 1..Len(b) : c[i] = b[i]
      /\ c[Len(b) + 1] = e /\ (b = <<>> <=> Len(b) = 0) /\ c # <<>>
  BY Appended
<1> HIDE DEF c
<1>1. Sized(c)
  BY SizedAppend DEF OpenOK, c
<1>2. ASSUME NEW i \in 1..Len(b) PROVE TotalBelow(c, i)
  <2>1. c[i] = b[i] /\ (i # 1 => i - 1 \in 1..Len(b) /\ c[i - 1] = b[i - 1])
    BY <1>0, <1>2
  <2>2. TotalBelow(b, i)
    BY <1>0, <1>2 DEF OpenOK
  <2> QED
    BY <2>1, <2>2 DEF TotalBelow
<1>3. BatchOK(c)
  <2>1. Len(c) <= BatchSize
    BY <1>0, Constants DEF OpenOK
  <2>2. ASSUME NEW i \in DOMAIN c, i < Len(c) PROVE TotalBelow(c, i)
    BY <1>0, <1>2, <2>2
  <2> QED
    BY <1>1, <2>1, <2>2 DEF BatchOK
<1>4. ASSUME e.total = n + e.size, ~NeedsFlush(Len(b) + 1, e.total)
      PROVE  OpenOK(c, e.total)
  <2>0. e.total \in Nat /\ e.size \in Nat /\ BatchSize \in Nat /\ BatchMaxSize \in Nat
    BY Constants DEF Entries
  <2>1. Len(c) < BatchSize /\ (BatchMaxSize # 0 => e.total < BatchMaxSize)
    BY <1>0, <1>4, <2>0 DEF NeedsFlush
  <2>2. TotalBelow(c, Len(b) + 1)
    <3>1. CASE Len(b) = 0
      <4>1. n = 0
        BY <1>0, <3>1 DEF OpenOK
      <4> QED
        BY <1>0, <1>4, <2>0, <2>1, <3>1, <4>1 DEF TotalBelow
    <3>2. CASE Len(b) # 0
      <4>1. n = b[Len(b)].total /\ c[Len(b)] = b[Len(b)]
        BY <1>0, <3>2 DEF OpenOK
      <4>2. Len(b) + 1 # 1 /\ (Len(b) + 1) - 1 = Len(b)
        BY <1>0, <3>2
      <4>3. e.total = e.size + n
        BY <1>4, <2>0
      <4> QED
        BY <1>0, <2>1, <4>1, <4>2, <4>3 DEF TotalBelow
    <3> QED
      BY <3>1, <3>2
  <2>3. ASSUME NEW i \in DOMAIN c PROVE TotalBelow(c, i)
    BY <1>0, <1>2, <2>2, <2>3
  <2> QED
    BY <1>0, <1>1, <2>1, <2>3 DEF OpenOK
<1> QED
  BY <1>3, <1>4 DEF c

LEMMA InitBound == Init => BoundInv
<1> SUFFICES ASSUME Init PROVE BoundInv
  OBVIOUS
<1>1. job.items = <<>> /\ job.out = <<>>
  BY DEF Init, Idle
<1>2. ASSUME NEW b \in 1..Buckets PROVE Len(agg[b].msgs) < aggregationSize
  <2>1. agg[b].msgs = <<>>
    BY DEF Init, Empty
  <2> QED
    BY <2>1, Constants DEF Init
<1> QED
  BY <1>1, <1>2, NothingOpen DEF Init, BoundInv, Sized

\* The limits after a step that keeps the settings.
LEMMA BoundThen ==
    ASSUME given' = given, \A i \in DOMAIN ch' : BatchOK(ch'[i]), BatchOK(job'.out),
           OpenOK(batch', size'), Sized(job'.items),
           \A b \in 1..Buckets : Len(agg'[b].msgs) < aggregationSize
    PROVE  BoundInv'
  BY DEF BoundInv, BatchOK, OpenOK, Sized, TotalBelow, given

\* An idle holder and an empty aggregator keep every limit.
LEMMA IdleBound ==
    ASSUME TypeInv
    PROVE  /\ BatchOK(<<>>) /\ OpenOK(<<>>, 0) /\ Sized(<<>>)
           /\ Idle.items = <<>> /\ Idle.out = <<>> /\ Idle.todo = 0 /\ Empty.msgs = <<>>
           /\ Len(<<>>) < aggregationSize /\ aggregationSize \in Nat \ {0}
<1>1. aggregationSize \in Nat \ {0}
  BY Types, Constants
<1> QED
  BY <1>1, NothingOpen DEF Sized, Idle, Empty

\* A message is aggregated within the limits.
LEMMA AggregationBound ==
    ASSUME TypeInv, BoundInv, ApplyAggregation
    PROVE  BoundInv'
<1> DEFINE id == issued + 1
<1>0. aggregationSize \in Nat \ {0} /\ job.items \in Seq(Items)
  BY IdleBound, Types
<1>1. Sized(job'.items) /\ job'.out = job.out /\ \A b \in 1..Buckets : Len(agg'[b].msgs) < aggregationSize
  <2>1. CASE aggregationSize <= 1
    <3>1. PICK x \in Items : /\ job' = [job EXCEPT !.todo = job.todo - 1, !.items = Append(job.items, x)]
                             /\ agg' = agg /\ x.msgs = <<id>>
      BY <2>1, PassOnStep
    <3>2. Len(x.msgs) <= aggregationSize
      BY <1>0, <3>1
    <3>3. Sized(Append(job.items, x))
      BY <1>0, <3>2, SizedAppend DEF BoundInv
    <3>4. job'.items = Append(job.items, x) /\ job'.out = job.out
      BY <3>1, OtherTypes
    <3> QED
      BY <3>1, <3>3, <3>4 DEF BoundInv
  <2>2. CASE ~(aggregationSize <= 1)
    <3> DEFINE b == BucketOf(id)
    <3>1. PICK full, flush \in BOOLEAN :
           LET base == IF full THEN Empty ELSE agg[b]
               ready == IF full THEN Append(job.items, Flushed(agg[b])) ELSE job.items
               with == Written(base, id)
           IN  /\ id \in Messages /\ b \in 1..Buckets /\ base \in Buffers
               /\ ready \in Seq(Items) /\ with \in Buffers /\ with.msgs = Append(base.msgs, id)
               /\ (~flush => Len(with.msgs) < aggregationSize)
               /\ agg' = [agg EXCEPT ![b] = IF flush THEN Empty ELSE with]
               /\ job' = [job EXCEPT !.todo = job.todo - 1,
                             !.items = IF flush THEN Append(ready, Flushed(with)) ELSE ready]
      BY <2>2, AggregateStep
    <3> DEFINE base == IF full THEN Empty ELSE agg[b]
               ready == IF full THEN Append(job.items, Flushed(agg[b])) ELSE job.items
               with == Written(base, id)
               items == IF flush THEN Append(ready, Flushed(with)) ELSE ready
    <3>2. Len(agg[b].msgs) \in Nat /\ Len(agg[b].msgs) < aggregationSize /\ agg[b] \in Buffers
      BY <3>1, Types DEF BoundInv, Buffers
    <3>3. Len(base.msgs) \in Nat /\ Len(base.msgs) < aggregationSize /\ base.msgs \in Seq(Messages)
      BY <3>1, <3>2, IdleBound DEF Buffers
    <3>4. /\ Flushed(agg[b]) \in Items /\ Flushed(agg[b]).msgs = agg[b].msgs
          /\ Flushed(with) \in Items /\ Flushed(with).msgs = with.msgs
      BY <3>1, <3>2, WrittenTypes
    <3>5. Sized(ready) /\ ready \in Seq(Items)
      <4>1. Len(Flushed(agg[b]).msgs) <= aggregationSize
        BY <1>0, <3>2, <3>4
      <4> QED
        BY <1>0, <3>1, <3>4, <4>1, SizedAppend DEF BoundInv
    <3>6. Len(Flushed(with).msgs) <= aggregationSize
      <4>1. Len(with.msgs) = Len(base.msgs) + 1
        BY <3>1, <3>3
      <4> QED
        BY <1>0, <3>3, <3>4, <4>1
    <3>7. Sized(items)
      BY <3>4, <3>5, <3>6, SizedAppend
    <3>8. job'.items = items /\ job'.out = job.out
      BY <3>1, OtherTypes
    <3>9. ASSUME NEW c \in 1..Buckets PROVE Len(agg'[c].msgs) < aggregationSize
      <4>1. CASE c # b
        <5>1. agg'[c] = agg[c]
          BY <3>1, <4>1, Types
        <5> QED
          BY <5>1 DEF BoundInv
      <4>2. CASE c = b /\ flush
        BY <3>1, <4>2, IdleBound, Types
      <4>3. CASE c = b /\ ~flush
        BY <3>1, <4>3, Types
      <4> QED
        BY <4>1, <4>2, <4>3
    <3> QED
      BY <3>7, <3>8, <3>9
  <2> QED
    BY <2>1, <2>2
<1>2. given' = given /\ ch' = ch /\ batch' = batch /\ size' = size
  BY DEF ApplyAggregation
<1> QED
  BY <1>1, <1>2, BoundThen DEF BoundInv

\* Sequences of items without the first keep the limit on messages.
LEMMA SizedTail ==
    ASSUME NEW s \in Seq(Items), s # <<>>, Sized(s)
    PROVE  Sized(Tail(s)) /\ Len(Head(s).msgs) <= aggregationSize
<1>1. \A i \in DOMAIN Tail(s) : i + 1 \in DOMAIN s /\ Tail(s)[i] = s[i + 1]
  BY HeadTail
<1>2. 1 \in DOMAIN s /\ Head(s) = s[1]
  BY HeadTail
<1> QED
  BY <1>1, <1>2 DEF Sized

\* An item is added to the batcher within the limits.
LEMMA AppendBound ==
    ASSUME TypeInv, BoundInv, AppendItem
    PROVE  BoundInv'
<1> DEFINE item == Head(job.items)
<1>0. job.items \in Seq(Items) /\ job.items # <<>> /\ Sized(job.items) /\ job.out = <<>>
  BY Types DEF AppendItem, BoundInv
<1>1. Sized(Tail(job.items)) /\ Len(item.msgs) <= aggregationSize
  BY <1>0, SizedTail
<1>2. job'.items = Tail(job.items) /\ BatchOK(job'.out) /\ OpenOK(batch', size')
  <2>1. CASE item.msgs # <<>>
    <3>1. PICK first, full \in BOOLEAN :
           LET rest == IF first THEN <<>> ELSE batch
               total == (IF first THEN 0 ELSE size) + item.size
               entry == [msgs |-> item.msgs, size |-> item.size, total |-> total]
           IN  /\ item \in Items /\ rest \in Seq(Entries) /\ total \in Nat /\ entry \in Entries
               /\ full = NeedsFlush(Len(rest) + 1, total)
               /\ batch' = IF full THEN <<>> ELSE Append(rest, entry)
               /\ size' = IF full THEN 0 ELSE total
               /\ job' = [job EXCEPT !.items = Tail(job.items),
                                     !.out = IF full THEN Append(batch, entry)
                                             ELSE IF first THEN batch ELSE <<>>]
      BY <2>1, AppendStep
    <3> DEFINE rest == IF first THEN <<>> ELSE batch
               n == IF first THEN 0 ELSE size
               total == n + item.size
               entry == [msgs |-> item.msgs, size |-> item.size, total |-> total]
               out == IF full THEN Append(batch, entry) ELSE IF first THEN batch ELSE <<>>
    <3>2. /\ rest \in Seq(Entries) /\ n \in Nat /\ entry \in Entries /\ total \in Nat
          /\ batch \in Seq(Entries) /\ size \in Nat
      BY <3>1, Types
    <3>3. entry.total = n + entry.size /\ entry.total = total /\ Len(entry.msgs) <= aggregationSize
      BY <1>1
    <3>4. OpenOK(rest, n) /\ OpenOK(batch, size)
      BY IdleBound DEF BoundInv
    <3>5. full = NeedsFlush(Len(rest) + 1, total)
      BY <3>1
    <3>6. /\ batch' = (IF full THEN <<>> ELSE Append(rest, entry)) /\ size' = (IF full THEN 0 ELSE total)
          /\ job' = [job EXCEPT !.items = Tail(job.items), !.out = out]
      BY <3>1
    <3>7. job'.items = Tail(job.items) /\ job'.out = out
      BY <3>6, OtherTypes
    <3> HIDE DEF rest, n, total, entry
    <3>8. BatchOK(Append(batch, entry)) /\ BatchOK(batch)
      BY <3>2, <3>3, <3>4, OpenAppend, OpenIsOK
    <3>9. BatchOK(out)
      BY <3>8, IdleBound
    <3>10. CASE full
      BY <3>6, <3>7, <3>9, <3>10, IdleBound
    <3>11. CASE ~full
      <4>1. OpenOK(Append(rest, entry), total)
        BY <3>2, <3>3, <3>4, <3>5, <3>11, OpenAppend
      <4> QED
        BY <3>6, <3>7, <3>9, <3>11, <4>1
    <3> QED
      BY <3>10, <3>11
  <2>2. CASE item.msgs = <<>>
    <3>1. job' = [job EXCEPT !.items = Tail(job.items)] /\ batch' = batch /\ size' = size
      BY <2>2 DEF AppendItem
    <3> QED
      BY <3>1, OtherTypes DEF BoundInv
  <2> QED
    BY <2>1, <2>2
<1>3. given' = given /\ ch' = ch /\ agg' = agg
  BY DEF AppendItem
<1> QED
  BY <1>1, <1>2, <1>3, BoundThen DEF BoundInv

\* The aggregates that flushAll takes are within the limits.
LEMMA FlushBound ==
    ASSUME TypeInv, BoundInv, NEW p \in {"run", "ticker"}, StartFlush(p),
           given' = given, ch' = ch, batch' = batch, size' = size
    PROVE  BoundInv'
<1>1. /\ job' = [by |-> p, todo |-> 0, items |-> Aggregates, out |-> <<>>, flush |-> TRUE]
      /\ DOMAIN Aggregates = 1..Buckets /\ \A b \in 1..Buckets : Aggregates[b].msgs = agg[b].msgs
  BY FlushTypes
<1>2. ASSUME NEW b \in 1..Buckets PROVE Len(agg[b].msgs) <= aggregationSize
  <2>1. agg[b].msgs \in Seq(Messages) /\ aggregationSize \in Nat
    BY Types, IdleBound DEF Buffers
  <2>2. Len(agg[b].msgs) \in Nat
    BY <2>1
  <2> QED
    BY <2>1, <2>2 DEF BoundInv
<1>3. Sized(Aggregates)
  BY <1>1, <1>2 DEF Sized
<1>4. \A b \in 1..Buckets : Len(agg'[b].msgs) < aggregationSize
  BY IdleBound DEF StartFlush
<1> QED
  BY <1>1, <1>3, <1>4, IdleBound, BoundThen DEF BoundInv

\* Every step keeps the limits.
LEMMA BoundStep == TypeInv /\ BoundInv /\ [Next]_vars => BoundInv'
<1> SUFFICES ASSUME TypeInv, BoundInv, [Next]_vars PROVE BoundInv'
  OBVIOUS
<1>1. ASSUME NEW w \in Writers, Write(w) PROVE BoundInv'
  <2>1. job'.items = <<>> /\ job'.out = <<>>
    BY <1>1 DEF Write, Idle
  <2> QED
    BY <1>1, <2>1, IdleBound, BoundThen DEF Write, batchVars, BoundInv
<1>2. CASE Tick
  BY <1>2, FlushBound DEF Tick
<1>3. CASE Close
  BY <1>3, FlushBound DEF Close
<1>4. CASE ApplyAggregation
  BY <1>4, AggregationBound
<1>5. CASE AppendItem
  BY <1>5, AppendBound
<1>6. CASE FlushBatch
  <2>1. job'.items = job.items /\ job'.out = batch
    BY <1>6, OtherTypes DEF FlushBatch
  <2>2. BatchOK(batch)
    BY Types, OpenIsOK DEF BoundInv
  <2> QED
    BY <1>6, <2>1, <2>2, IdleBound, BoundThen DEF FlushBatch, BoundInv
<1>7. CASE Output
  <2>1. job'.items = job.items /\ job'.out = <<>>
    BY <1>7, OtherTypes DEF Output
  <2>2. \A i \in DOMAIN ch' : BatchOK(ch'[i])
    <3>1. CASE ch' = ch
      BY <3>1 DEF BoundInv
    <3>2. CASE ch' = Append(ch, job.out)
      <4>1. ASSUME NEW i \in DOMAIN ch' PROVE BatchOK(ch'[i])
        <5>1. ch \in Seq(Seq(Entries)) /\ job.out \in Seq(Entries)
          BY Types
        <5>2. (i \in DOMAIN ch /\ ch'[i] = ch[i]) \/ ch'[i] = job.out
          BY <3>2, <5>1, Appended
        <5> QED
          BY <5>2 DEF BoundInv
      <4> QED
        BY <4>1
    <3> QED
      BY <1>7, <3>1, <3>2 DEF Output
  <2> QED
    BY <1>7, <2>1, <2>2, IdleBound, BoundThen DEF Output, batchVars, BoundInv
<1>8. CASE Unlock
  <2>1. job'.items = <<>> /\ job'.out = <<>>
    BY <1>8 DEF Unlock, Idle
  <2> QED
    BY <1>8, <2>1, IdleBound, BoundThen DEF Unlock, batchVars, BoundInv
<1>9. ASSUME NEW r \in Runners, Read(r) PROVE BoundInv'
  <2>1. ch \in Seq(Seq(Entries)) /\ ch # <<>> /\ ch' = Tail(ch)
    BY <1>9, Types DEF Read
  <2>2. ASSUME NEW i \in DOMAIN ch' PROVE BatchOK(ch'[i])
    <3>1. i + 1 \in DOMAIN ch /\ ch'[i] = ch[i + 1]
      BY <2>1, <2>2, HeadTail
    <3> QED
      BY <3>1 DEF BoundInv
  <2> QED
    BY <1>9, <2>2, BoundThen DEF Read, batchVars, BoundInv
<1>10. CASE Restart
  BY <1>10, BoundThen DEF Restart, batchVars, BoundInv
<1>11. ASSUME UNCHANGED <<given, batchVars, job, ch>> PROVE BoundInv'
  BY <1>11, BoundThen DEF batchVars, BoundInv
<1>12. CASE Run
  BY <1>11, <1>12 DEF Run
<1>13. CASE BusyWrite \/ Rearm \/ RunReturns \/ KernelStops \/ TickerEnds
  BY <1>11, <1>13 DEF BusyWrite, Rearm, RunReturns, KernelStops, TickerEnds
<1>14. ASSUME NEW r \in Runners, Send(r) \/ LoopEnds(r) PROVE BoundInv'
  BY <1>11, <1>14 DEF Send, LoopEnds
<1>15. CASE UNCHANGED vars
  BY <1>11, <1>15 DEF vars
<1> QED
  BY <1>1, <1>2, <1>3, <1>4, <1>5, <1>6, <1>7, <1>8, <1>9, <1>10, <1>12, <1>13, <1>14, <1>15
     DEF Next, Holder, OutputLoop

\* No batch has more messages than the output takes and no aggregate more than
\* configured, and a batch without its last item is below the size limit, although
\* Append of the batcher puts the results of two flushes together.
THEOREM DaemonBounds == Spec => []BatchBounded
<1>1. Spec => [](TypeInv /\ BoundInv)
  BY InitTypes, InitBound, TypesStep, BoundStep, PTL DEF Spec
<1>2. TypeInv /\ BoundInv => BatchBounded
  BY DEF BoundInv, BatchBounded, BatchOK, Sized, TotalBelow, Range
<1> QED
  BY <1>1, <1>2, PTL

-----------------------------------------------------------------------------
(* How the daemon stops.                                                   *)

\* The channel is closed by Run only, at the end of its flush.  A runner leaves when
\* the closed channel is empty, with nothing in hand, and Run returns after the last.
ControlInv ==
    /\ closed => runpc \in {"waiting", "returned"}
    /\ stopped <=> runpc = "returned"
    /\ stopped => closed /\ ch = <<>> /\ loops = {}
    /\ (runpc \in {"running", "waiting"} /\ loops # Runners => closed /\ ch = <<>>)
    /\ (job.by = "run" => runpc = "waiting" /\ ~closed /\ job.todo = 0)
    /\ \A r \in Runners : r \notin loops => loop[r] = <<>>

LEMMA InitControl == Init => ControlInv
  BY DEF Init, ControlInv, Idle

\* What the holder of the lock does keeps who it is; into a closed channel nothing is
\* written.
LEMMA HolderControl ==
    ASSUME TypeInv, ControlInv, Holder
    PROVE  ControlInv'
<1>1. ASSUME job'.by = job.by, job.by = "run" => job'.todo = 0, closed => ch' = ch,
             UNCHANGED <<closed, stopped, runpc, ticking, ctxDone, restarts, outVars>>
      PROVE  ControlInv'
  BY <1>1 DEF ControlInv, outVars
<1>2. CASE ApplyAggregation
  <2>1. \E todo, items : job' = [job EXCEPT !.todo = todo, !.items = items]
    <3>1. PassOn(issued + 1) \/ Aggregate(issued + 1)
      BY <1>2 DEF ApplyAggregation
    <3> QED
      BY <3>1 DEF PassOn, Aggregate
  <2>2. job'.by = job.by
    BY <2>1, OtherTypes
  <2>3. job.by # "run"
    BY <1>2, Types DEF ApplyAggregation, ControlInv
  <2> QED
    BY <1>1, <1>2, <2>2, <2>3 DEF ApplyAggregation, runVars
<1>3. CASE AppendItem
  <2>1. \E items, out : job' = [job EXCEPT !.items = items, !.out = out]
    <3>1. CASE BatcherAppend(Head(job.items))
      BY <3>1 DEF BatcherAppend
    <3>2. CASE job' = [job EXCEPT !.items = Tail(job.items)]
      <4>1. job' = [job EXCEPT !.items = Tail(job.items), !.out = job.out]
        BY <3>2, Types
      <4> QED
        BY <4>1
    <3> QED
      BY <1>3, <3>1, <3>2 DEF AppendItem
  <2>2. job'.by = job.by /\ job'.todo = job.todo
    BY <2>1, OtherTypes
  <2> QED
    BY <1>1, <1>3, <2>2 DEF AppendItem, ControlInv, runVars
<1>4. CASE FlushBatch
  <2>1. job'.by = job.by /\ job'.todo = job.todo
    BY <1>4, OtherTypes DEF FlushBatch
  <2> QED
    BY <1>1, <1>4, <2>1 DEF FlushBatch, ControlInv, runVars
<1>5. CASE Output
  <2>1. job'.by = job.by /\ job'.todo = job.todo
    BY <1>5, OtherTypes DEF Output
  <2> QED
    BY <1>1, <1>5, <2>1 DEF Output, ControlInv
<1>6. CASE Unlock
  BY <1>6 DEF Unlock, Idle, ControlInv, runVars, outVars
<1> QED
  BY <1>2, <1>3, <1>4, <1>5, <1>6 DEF Holder

\* Every step keeps it.
LEMMA ControlStep == TypeInv /\ ControlInv /\ [Next]_vars => ControlInv'
<1> SUFFICES ASSUME TypeInv, ControlInv, [Next]_vars PROVE ControlInv'
  OBVIOUS
<1>1. ASSUME NEW w \in Writers, Write(w) PROVE ControlInv'
  <2>1. job'.by = w /\ w # "run"
    BY <1>1, Constants DEF Write, Idle
  <2> QED
    BY <1>1, <2>1 DEF Write, ControlInv, runVars, outVars
<1>2. CASE Tick
  <2>1. job'.by = "ticker"
    BY <1>2, FlushTypes DEF Tick
  <2> QED
    BY <1>2, <2>1 DEF Tick, ControlInv, runVars, outVars
<1>3. CASE Close
  <2>1. job'.by = "run" /\ job'.todo = 0
    BY <1>3, FlushTypes DEF Close
  <2> QED
    BY <1>3, <2>1 DEF Close, ControlInv, outVars
<1>4. CASE Holder
  BY <1>4, HolderControl
<1>5. CASE Run
  BY <1>5 DEF Run, ControlInv, Idle
<1>6. CASE RunReturns
  <2>1. loops # Runners /\ ch = <<>>
    BY <1>6, Constants DEF RunReturns, ControlInv
  <2>2. job.by # "run"
    BY <1>6 DEF RunReturns, ControlInv
  <2> QED
    BY <1>6, <2>1, <2>2 DEF RunReturns, ControlInv, outVars
<1>7. CASE Restart
  BY <1>7 DEF Restart, ControlInv, Idle, outVars
<1>8. CASE KernelStops \/ TickerEnds
  BY <1>8 DEF KernelStops, TickerEnds, ControlInv, outVars
<1>9. ASSUME NEW r \in Runners, Read(r) PROVE ControlInv'
  <2>1. ch # <<>> /\ r \in loops
    BY <1>9 DEF Read
  <2>2. ~stopped /\ ~(runpc \in {"running", "waiting"} /\ loops # Runners)
    BY <2>1 DEF ControlInv
  <2>3. \A q \in Runners : q \notin loops => loop'[q] = <<>>
    BY <1>9, <2>1, Types DEF Read, ControlInv
  <2> QED
    BY <1>9, <2>2, <2>3 DEF Read, ControlInv, runVars
<1>10. ASSUME NEW r \in Runners, Send(r) PROVE ControlInv'
  <2>1. \A q \in Runners : q \notin loops => loop'[q] = <<>>
    BY <1>10, Types DEF Send, ControlInv
  <2> QED
    BY <1>10, <2>1 DEF Send, ControlInv, runVars
<1>11. ASSUME NEW r \in Runners, LoopEnds(r) PROVE ControlInv'
  <2>1. closed /\ ch = <<>> /\ loop[r] = <<>>
    BY <1>11 DEF LoopEnds, Exhausted
  <2> QED
    BY <1>11, <2>1 DEF LoopEnds, ControlInv, runVars
<1>13. CASE BusyWrite \/ Rearm
  BY <1>13 DEF BusyWrite, Rearm, ControlInv, outVars
<1>12. CASE UNCHANGED vars
  BY <1>12 DEF vars, runVars, outVars, ControlInv
<1> QED
  BY <1>1, <1>2, <1>3, <1>4, <1>5, <1>6, <1>7, <1>8, <1>9, <1>10, <1>11, <1>12, <1>13
     DEF Next, OutputLoop

-----------------------------------------------------------------------------
(* Order of sets and sequences of messages.                                *)

\* The messages of an aggregate are in the order in which they were written.
Ascending(msgs) == \A k, l \in DOMAIN msgs : k < l => msgs[k] < msgs[l]

\* Of two sets of messages the first is before the second if each part is.
LEMMA BeforeParts ==
    /\ \A S, T, U : Before(S \union T, U) <=> Before(S, U) /\ Before(T, U)
    /\ \A S, T, U : Before(U, S \union T) <=> Before(U, S) /\ Before(U, T)
    /\ \A U : Before({}, U) /\ Before(U, {})
  BY DEF Before

\* Parts of sets in order are in order.
LEMMA BeforeSubset ==
    ASSUME NEW S, NEW T, NEW U, NEW V, Before(S, T), U \subseteq S, V \subseteq T
    PROVE  Before(U, V)
  BY DEF Before

\* A message written after all the others comes after all of them.
LEMMA BeforeNew ==
    ASSUME NEW n \in Nat, NEW S, S \subseteq 1..n
    PROVE  Before(S, {n + 1})
<1> SUFFICES ASSUME NEW m \in S PROVE m < n + 1
  BY DEF Before
<1> QED
  OBVIOUS

\* No message is in two sets in order, as its bucket is its own.
LEMMA BeforeDisjoint ==
    ASSUME NEW S, NEW T, S \subseteq Nat, Before(S, T)
    PROVE  S \intersect T = {}
<1> SUFFICES ASSUME NEW m \in S, m \in T PROVE FALSE
  OBVIOUS
<1>1. m < m /\ m \in Nat
  BY DEF Before
<1> QED
  BY <1>1

\* The messages in a sequence of items, with one item more.
LEMMA MsgsAppend ==
    ASSUME NEW S, NEW s \in Seq(S), NEW x \in S
    PROVE  MsgsOf(Append(s, x)) = MsgsOf(s) \union Range(x.msgs)
<1> DEFINE t == Append(s, x)
<1>0. /\ Len(s) \in Nat /\ DOMAIN s = 1..Len(s) /\ DOMAIN t = 1..(Len(s) + 1)
      /\ \A i \in 1..Len(s) : t[i] = s[i]
      /\ t[Len(s) + 1] = x
  BY Appended
<1> HIDE DEF t
<1>1. ASSUME NEW m \in MsgsOf(t) PROVE m \in MsgsOf(s) \union Range(x.msgs)
  <2>1. PICK i \in DOMAIN t : m \in Range(t[i].msgs)
    BY <1>1 DEF MsgsOf
  <2>2. CASE i = Len(s) + 1
    BY <1>0, <2>1, <2>2
  <2>3. CASE i \in DOMAIN s
    BY <1>0, <2>1, <2>3 DEF MsgsOf
  <2> QED
    BY <1>0, <2>2, <2>3
<1>2. ASSUME NEW m \in MsgsOf(s) PROVE m \in MsgsOf(t)
  <2>1. PICK i \in DOMAIN s : m \in Range(s[i].msgs)
    BY <1>2 DEF MsgsOf
  <2>2. i \in DOMAIN t /\ t[i] = s[i]
    BY <1>0
  <2> QED
    BY <2>1, <2>2 DEF MsgsOf
<1>3. ASSUME NEW m \in Range(x.msgs) PROVE m \in MsgsOf(t)
  <2>1. Len(s) + 1 \in DOMAIN t /\ t[Len(s) + 1] = x
    BY <1>0
  <2> QED
    BY <1>3, <2>1 DEF MsgsOf
<1> QED
  BY <1>1, <1>2, <1>3 DEF t

\* The messages of one item are among those of the sequence.
LEMMA MsgsMember ==
    ASSUME NEW s, NEW i \in DOMAIN s
    PROVE  Range(s[i].msgs) \subseteq MsgsOf(s)
  BY DEF MsgsOf

LEMMA MsgsEmpty == MsgsOf(<<>>) = {} /\ InOrder(<<>>) /\ Range(<<>>) = {} /\ Ascending(<<>>)
  BY DEF MsgsOf, InOrder, Range, Ascending

\* Messages that come after those of a sequence can be added to it.
LEMMA OrderAppend ==
    ASSUME NEW S, NEW s \in Seq(S), NEW x \in S, InOrder(s), Ascending(x.msgs),
           Before(MsgsOf(s), Range(x.msgs))
    PROVE  InOrder(Append(s, x))
<1> DEFINE t == Append(s, x)
<1>0. /\ Len(s) \in Nat /\ DOMAIN s = 1..Len(s) /\ DOMAIN t = 1..(Len(s) + 1)
      /\ \A i \in 1..Len(s) : t[i] = s[i]
      /\ t[Len(s) + 1] = x
  BY Appended
<1> HIDE DEF t
<1>1. ASSUME NEW i \in DOMAIN t, NEW k \in DOMAIN t[i].msgs, NEW l \in DOMAIN t[i].msgs, k < l
      PROVE  t[i].msgs[k] < t[i].msgs[l]
  <2>1. CASE i = Len(s) + 1
    BY <1>0, <1>1, <2>1 DEF Ascending
  <2>2. CASE i \in DOMAIN s
    BY <1>0, <1>1, <2>2 DEF InOrder
  <2> QED
    BY <1>0, <2>1, <2>2
<1>2. ASSUME NEW i \in DOMAIN t, NEW j \in DOMAIN t, i < j
      PROVE  Before(Range(t[i].msgs), Range(t[j].msgs))
  <2>1. i \in DOMAIN s /\ t[i] = s[i]
    BY <1>0, <1>2
  <2>2. CASE j = Len(s) + 1
    <3>1. Range(s[i].msgs) \subseteq MsgsOf(s)
      BY <2>1, MsgsMember
    <3>2. Before(Range(s[i].msgs), Range(x.msgs))
      BY <3>1, BeforeSubset
    <3> QED
      BY <1>0, <2>1, <2>2, <3>2
  <2>3. CASE j \in DOMAIN s
    BY <1>0, <1>2, <2>1, <2>3 DEF InOrder
  <2> QED
    BY <1>0, <2>2, <2>3
<1> QED
  BY <1>1, <1>2 DEF InOrder, t

\* The first item of a sequence comes before the others.
LEMMA OrderTail ==
    ASSUME NEW S, NEW s \in Seq(S), s # <<>>
    PROVE  /\ MsgsOf(s) = Range(Head(s).msgs) \union MsgsOf(Tail(s))
           /\ (InOrder(s) => /\ InOrder(Tail(s)) /\ Ascending(Head(s).msgs)
                             /\ Before(Range(Head(s).msgs), MsgsOf(Tail(s))))
<1> DEFINE t == Tail(s)
           h == Head(s)
<1>0. /\ Len(s) \in Nat /\ Len(s) >= 1 /\ DOMAIN s = 1..Len(s) /\ DOMAIN t = 1..(Len(s) - 1)
      /\ h = s[1] /\ \A i \in 1..(Len(s) - 1) : t[i] = s[i + 1]
  BY HeadTail
<1> HIDE DEF t, h
<1>1. ASSUME NEW m \in MsgsOf(s) PROVE m \in Range(h.msgs) \union MsgsOf(t)
  <2>1. PICK i \in DOMAIN s : m \in Range(s[i].msgs)
    BY <1>1 DEF MsgsOf
  <2>2. CASE i = 1
    BY <1>0, <2>1, <2>2
  <2>3. CASE i # 1
    <3>1. i - 1 \in DOMAIN t /\ (i - 1) + 1 = i
      BY <1>0, <2>3
    <3>2. t[i - 1] = s[i]
      BY <1>0, <3>1
    <3> QED
      BY <2>1, <3>1, <3>2 DEF MsgsOf
  <2> QED
    BY <2>2, <2>3
<1>2. \A i \in DOMAIN t : i + 1 \in DOMAIN s /\ t[i] = s[i + 1] /\ 1 < i + 1
  BY <1>0
<1>3. ASSUME NEW m \in MsgsOf(t)
      PROVE  \E i \in DOMAIN s : 1 < i /\ m \in Range(s[i].msgs)
  BY <1>2, <1>3 DEF MsgsOf
<1>4. 1 \in DOMAIN s
  BY <1>0
<1>5. MsgsOf(s) = Range(h.msgs) \union MsgsOf(t)
  BY <1>0, <1>1, <1>3, <1>4 DEF MsgsOf
<1>6. ASSUME InOrder(s)
      PROVE  InOrder(t) /\ Ascending(h.msgs) /\ Before(Range(h.msgs), MsgsOf(t))
  <2>1. ASSUME NEW i \in DOMAIN t, NEW k \in DOMAIN t[i].msgs, NEW l \in DOMAIN t[i].msgs, k < l
        PROVE  t[i].msgs[k] < t[i].msgs[l]
    BY <1>2, <1>6, <2>1 DEF InOrder
  <2>2. ASSUME NEW i \in DOMAIN t, NEW j \in DOMAIN t, i < j
        PROVE  Before(Range(t[i].msgs), Range(t[j].msgs))
    <3>1. i + 1 \in DOMAIN s /\ j + 1 \in DOMAIN s /\ i + 1 < j + 1
      BY <1>0, <1>2, <2>2
    <3>2. Before(Range(s[i + 1].msgs), Range(s[j + 1].msgs))
      BY <1>6, <3>1 DEF InOrder
    <3> QED
      BY <1>2, <3>2
  <2>3. InOrder(t)
    BY <2>1, <2>2 DEF InOrder
  <2>4. Ascending(h.msgs)
    BY <1>0, <1>4, <1>6 DEF InOrder, Ascending
  <2>5. ASSUME NEW m \in Range(h.msgs), NEW n \in MsgsOf(t), BucketOf(m) = BucketOf(n)
        PROVE  m < n
    <3>1. PICK i \in DOMAIN s : 1 < i /\ n \in Range(s[i].msgs)
      BY <1>3
    <3>2. Before(Range(s[1].msgs), Range(s[i].msgs))
      BY <1>4, <1>6, <3>1 DEF InOrder
    <3> QED
      BY <1>0, <2>5, <3>1, <3>2 DEF Before
  <2>6. Before(Range(h.msgs), MsgsOf(t))
    BY <2>5 DEF Before
  <2> QED
    BY <2>3, <2>4, <2>6
<1> QED
  BY <1>5, <1>6 DEF t, h

-----------------------------------------------------------------------------
(* Order in the channel and in the aggregators.                            *)

\* The messages in a sequence of batches, and what InOrderOnce says of their order.
ChanMsgs(c) == UNION {MsgsOf(c[i]) : i \in DOMAIN c}

ChanOrder(c) ==
    \A i \in DOMAIN c :
        InOrder(c[i]) /\ \A j \in DOMAIN c : i < j => Before(MsgsOf(c[i]), MsgsOf(c[j]))

LEMMA ChanEmpty == ChanMsgs(<<>>) = {} /\ ChanOrder(<<>>)
  BY DEF ChanMsgs, ChanOrder

\* A batch after all others is put into the channel.
LEMMA ChanAppend ==
    ASSUME NEW c \in Seq(Seq(Entries)), NEW b \in Seq(Entries), ChanOrder(c), InOrder(b),
           Before(ChanMsgs(c), MsgsOf(b))
    PROVE  ChanMsgs(Append(c, b)) = ChanMsgs(c) \union MsgsOf(b) /\ ChanOrder(Append(c, b))
<1> DEFINE d == Append(c, b)
<1>0. /\ Len(c) \in Nat /\ DOMAIN c = 1..Len(c) /\ DOMAIN d = 1..(Len(c) + 1)
      /\ \A i \in 1..Len(c) : d[i] = c[i]
      /\ d[Len(c) + 1] = b
  BY Appended
<1> HIDE DEF d
<1>1. ASSUME NEW m \in ChanMsgs(d) PROVE m \in ChanMsgs(c) \union MsgsOf(b)
  <2>1. PICK i \in DOMAIN d : m \in MsgsOf(d[i])
    BY <1>1 DEF ChanMsgs
  <2>2. i = Len(c) + 1 \/ i \in DOMAIN c
    BY <1>0
  <2> QED
    BY <1>0, <2>1, <2>2 DEF ChanMsgs
<1>2. ASSUME NEW m \in ChanMsgs(c) PROVE m \in ChanMsgs(d)
  <2>1. PICK i \in DOMAIN c : m \in MsgsOf(c[i])
    BY <1>2 DEF ChanMsgs
  <2>2. i \in DOMAIN d /\ d[i] = c[i]
    BY <1>0
  <2> QED
    BY <2>1, <2>2 DEF ChanMsgs
<1>3. ASSUME NEW m \in MsgsOf(b) PROVE m \in ChanMsgs(d)
  <2>1. Len(c) + 1 \in DOMAIN d /\ d[Len(c) + 1] = b
    BY <1>0
  <2> QED
    BY <1>3, <2>1 DEF ChanMsgs
<1>4. ASSUME NEW i \in DOMAIN d PROVE InOrder(d[i])
  <2>1. i = Len(c) + 1 \/ i \in DOMAIN c
    BY <1>0
  <2> QED
    BY <1>0, <2>1 DEF ChanOrder
<1>5. ASSUME NEW i \in DOMAIN d, NEW j \in DOMAIN d, i < j
      PROVE  Before(MsgsOf(d[i]), MsgsOf(d[j]))
  <2>1. i \in DOMAIN c /\ d[i] = c[i]
    BY <1>0, <1>5
  <2>2. CASE j = Len(c) + 1
    <3>1. MsgsOf(c[i]) \subseteq ChanMsgs(c)
      BY <2>1 DEF ChanMsgs
    <3>2. Before(MsgsOf(c[i]), MsgsOf(b))
      BY <3>1, BeforeSubset
    <3> QED
      BY <1>0, <2>1, <2>2, <3>2
  <2>3. CASE j \in DOMAIN c
    BY <1>0, <1>5, <2>1, <2>3 DEF ChanOrder
  <2> QED
    BY <1>0, <2>2, <2>3
<1> QED
  BY <1>1, <1>2, <1>3, <1>4, <1>5 DEF ChanOrder, d

\* The first batch is read.
LEMMA ChanTail ==
    ASSUME NEW c \in Seq(Seq(Entries)), c # <<>>, ChanOrder(c)
    PROVE  /\ ChanMsgs(c) = MsgsOf(Head(c)) \union ChanMsgs(Tail(c))
           /\ ChanOrder(Tail(c)) /\ Before(MsgsOf(Head(c)), ChanMsgs(Tail(c)))
<1> DEFINE t == Tail(c)
           h == Head(c)
<1>0. /\ Len(c) \in Nat /\ Len(c) >= 1 /\ DOMAIN c = 1..Len(c) /\ DOMAIN t = 1..(Len(c) - 1)
      /\ h = c[1] /\ \A i \in 1..(Len(c) - 1) : t[i] = c[i + 1]
  BY HeadTail
<1> HIDE DEF t, h
<1>1. ASSUME NEW m \in ChanMsgs(c) PROVE m \in MsgsOf(h) \union ChanMsgs(t)
  <2>1. PICK i \in DOMAIN c : m \in MsgsOf(c[i])
    BY <1>1 DEF ChanMsgs
  <2>2. CASE i = 1
    BY <1>0, <2>1, <2>2
  <2>3. CASE i # 1
    <3>1. i - 1 \in DOMAIN t /\ (i - 1) + 1 = i
      BY <1>0, <2>3
    <3>2. t[i - 1] = c[i]
      BY <1>0, <3>1
    <3> QED
      BY <2>1, <3>1, <3>2 DEF ChanMsgs
  <2> QED
    BY <2>2, <2>3
<1>2. \A i \in DOMAIN t : i + 1 \in DOMAIN c /\ t[i] = c[i + 1] /\ 1 < i + 1
  BY <1>0
<1>3. ASSUME NEW m \in ChanMsgs(t) PROVE \E i \in DOMAIN c : 1 < i /\ m \in MsgsOf(c[i])
  BY <1>2, <1>3 DEF ChanMsgs
<1>4. 1 \in DOMAIN c
  BY <1>0
<1>5. ChanMsgs(c) = MsgsOf(h) \union ChanMsgs(t)
  BY <1>0, <1>1, <1>3, <1>4 DEF ChanMsgs
<1>6. ASSUME NEW i \in DOMAIN t, NEW j \in DOMAIN t, i < j
      PROVE  Before(MsgsOf(t[i]), MsgsOf(t[j]))
  <2>1. i + 1 \in DOMAIN c /\ j + 1 \in DOMAIN c /\ i + 1 < j + 1
    BY <1>0, <1>2, <1>6
  <2>2. Before(MsgsOf(c[i + 1]), MsgsOf(c[j + 1]))
    BY <2>1 DEF ChanOrder
  <2> QED
    BY <1>2, <2>2
<1>7. ChanOrder(t)
  BY <1>2, <1>6 DEF ChanOrder
<1>8. ASSUME NEW m \in MsgsOf(h), NEW n \in ChanMsgs(t), BucketOf(m) = BucketOf(n)
      PROVE  m < n
  <2>1. PICK i \in DOMAIN c : 1 < i /\ n \in MsgsOf(c[i])
    BY <1>3
  <2>2. Before(MsgsOf(c[1]), MsgsOf(c[i]))
    BY <1>4, <2>1 DEF ChanOrder
  <2> QED
    BY <1>0, <1>8, <2>1, <2>2 DEF Before
<1>9. Before(MsgsOf(h), ChanMsgs(t))
  BY <1>8 DEF Before
<1> QED
  BY <1>5, <1>7, <1>9 DEF t, h

\* The messages of each aggregator are of its bucket and in order.
BucketOrder(a) ==
    \A b \in 1..Buckets :
        Ascending(a[b].msgs) /\ \A m \in Range(a[b].msgs) : BucketOf(m) = b

LEMMA BucketsInOrder ==
    ASSUME NEW a, DOMAIN a = 1..Buckets, BucketOrder(a)
    PROVE  InOrder(a)
<1>1. ASSUME NEW b \in DOMAIN a, NEW c \in DOMAIN a, b < c
      PROVE  Before(Range(a[b].msgs), Range(a[c].msgs))
  <2>1. b # c
    BY <1>1, Constants
  <2> QED
    BY <2>1 DEF BucketOrder, Before
<1> QED
  BY <1>1 DEF InOrder, BucketOrder, Ascending

\* The aggregate of a bucket is flushed: it comes after the items before it, and before
\* the messages that stay in the aggregators, which are of other buckets.
LEMMA TakeBucket ==
    ASSUME TypeInv, NEW s \in Seq(Items), NEW a \in [1..Buckets -> Buffers], NEW b \in 1..Buckets,
           InOrder(s), BucketOrder(a), Before(MsgsOf(s), MsgsOf(a))
    PROVE  LET t == Append(s, Flushed(a[b]))
               c == [a EXCEPT ![b] = Empty]
           IN  /\ t \in Seq(Items) /\ c \in [1..Buckets -> Buffers]
               /\ InOrder(t) /\ BucketOrder(c) /\ Before(MsgsOf(t), MsgsOf(c))
               /\ MsgsOf(t) \union MsgsOf(c) = MsgsOf(s) \union MsgsOf(a)
<1> DEFINE x == Flushed(a[b])
           t == Append(s, x)
           c == [a EXCEPT ![b] = Empty]
           M == Range(a[b].msgs)
<1>1. x \in Items /\ x.msgs = a[b].msgs
  <2>1. a[b].msgs \in Seq(Messages) /\ a[b].len \in Nat
    BY DEF Buffers
  <2>2. Envelope + a[b].len + 1 \in Nat
    BY <2>1, Constants
  <2> QED
    BY <2>1, <2>2 DEF Flushed, Items
<1>2. t \in Seq(Items) /\ c \in [1..Buckets -> Buffers]
  BY <1>1, IdleTypes
<1>3. c[b].msgs = <<>> /\ \A d \in 1..Buckets : d # b => c[d] = a[d]
  BY DEF Empty
<1> HIDE DEF c
<1>4. BucketOrder(c)
  BY <1>3, MsgsEmpty DEF BucketOrder
<1>5. MsgsOf(t) = MsgsOf(s) \union M
  BY <1>1, MsgsAppend
<1>6. M \subseteq MsgsOf(a)
  BY DEF MsgsOf
<1>7. InOrder(t)
  <2>1. Before(MsgsOf(s), M)
    BY <1>6, BeforeSubset
  <2> QED
    BY <1>1, <2>1, OrderAppend DEF BucketOrder
<1>8. ASSUME NEW m \in MsgsOf(c) PROVE m \in MsgsOf(a) /\ BucketOf(m) # b
  <2>1. PICK d \in 1..Buckets : m \in Range(c[d].msgs)
    BY <1>2, <1>8 DEF MsgsOf
  <2>2. d # b
    BY <1>3, <2>1, MsgsEmpty
  <2> QED
    BY <1>3, <2>1, <2>2 DEF BucketOrder, MsgsOf
<1>9. Before(MsgsOf(t), MsgsOf(c))
  <2>1. Before(M, MsgsOf(c))
    BY <1>8 DEF BucketOrder, Before
  <2>2. Before(MsgsOf(s), MsgsOf(c))
    BY <1>8, BeforeSubset
  <2> QED
    BY <1>5, <2>1, <2>2, BeforeParts
<1>10. ASSUME NEW m \in MsgsOf(a) PROVE m \in M \union MsgsOf(c)
  <2>1. PICK d \in 1..Buckets : m \in Range(a[d].msgs)
    BY <1>10 DEF MsgsOf
  <2>2. CASE d # b
    BY <1>2, <1>3, <2>1, <2>2 DEF MsgsOf
  <2> QED
    BY <2>1, <2>2
<1>11. MsgsOf(t) \union MsgsOf(c) = MsgsOf(s) \union MsgsOf(a)
  BY <1>5, <1>6, <1>8, <1>10
<1> QED
  BY <1>2, <1>4, <1>7, <1>9, <1>11 DEF c

\* A new message goes to its bucket, after those that are there.
LEMMA AddToBucket ==
    ASSUME TypeInv, NEW a \in [1..Buckets -> Buffers], BucketOrder(a),
           MsgsOf(a) \subseteq 1..issued, issued + 1 \in Messages
    PROVE  LET id == issued + 1
               b == BucketOf(id)
               c == [a EXCEPT ![b] = Written(a[b], id)]
           IN  /\ b \in 1..Buckets /\ c \in [1..Buckets -> Buffers] /\ BucketOrder(c)
               /\ MsgsOf(c) = MsgsOf(a) \union {id}
<1> DEFINE id == issued + 1
           b == BucketOf(id)
           old == a[b].msgs
           new == Append(old, id)
           c == [a EXCEPT ![b] = Written(a[b], id)]
<1>1. b \in 1..Buckets /\ a[b] \in Buffers /\ issued \in Nat
  BY KindTypes, Types
<1>2. Written(a[b], id) \in Buffers /\ Written(a[b], id).msgs = new /\ old \in Seq(Messages)
  BY <1>1, WrittenTypes DEF Buffers
<1>3. c \in [1..Buckets -> Buffers] /\ c[b].msgs = new /\ \A d \in 1..Buckets : d # b => c[d] = a[d]
  BY <1>1, <1>2
<1>4. /\ Len(old) \in Nat /\ DOMAIN old = 1..Len(old) /\ DOMAIN new = 1..(Len(old) + 1)
      /\ \A i \in 1..Len(old) : new[i] = old[i]
      /\ new[Len(old) + 1] = id
  BY <1>2, Appended
<1> HIDE DEF c, new, old
<1>5. Range(new) = Range(old) \union {id}
  <2>1. ASSUME NEW i \in DOMAIN new PROVE new[i] \in Range(old) \union {id}
    <3>1. i = Len(old) + 1 \/ i \in DOMAIN old
      BY <1>4
    <3> QED
      BY <1>4, <3>1 DEF Range
  <2>2. ASSUME NEW i \in DOMAIN old PROVE old[i] \in Range(new)
    <3>1. i \in DOMAIN new /\ new[i] = old[i]
      BY <1>4
    <3> QED
      BY <3>1 DEF Range
  <2>3. id \in Range(new)
    <3>1. Len(old) + 1 \in DOMAIN new
      BY <1>4
    <3> QED
      BY <1>4, <3>1 DEF Range
  <2> QED
    BY <2>1, <2>2, <2>3 DEF Range
<1>6. Range(old) \subseteq MsgsOf(a)
  BY <1>1 DEF MsgsOf, old
<1>7. Ascending(new)
  <2> SUFFICES ASSUME NEW k \in DOMAIN new, NEW l \in DOMAIN new, k < l PROVE new[k] < new[l]
    BY DEF Ascending
  <2>1. k \in DOMAIN old /\ new[k] = old[k]
    BY <1>4
  <2>2. CASE l = Len(old) + 1
    <3>1. old[k] \in 1..issued
      BY <1>6, <2>1 DEF Range
    <3> QED
      BY <1>1, <1>4, <2>1, <2>2, <3>1
  <2>3. CASE l \in DOMAIN old
    <3>1. Ascending(old)
      BY <1>1 DEF BucketOrder, old
    <3> QED
      BY <1>4, <2>1, <2>3, <3>1 DEF Ascending
  <2> QED
    BY <1>4, <2>2, <2>3
<1>8. BucketOrder(c)
  <2> SUFFICES ASSUME NEW d \in 1..Buckets
               PROVE  Ascending(c[d].msgs) /\ \A m \in Range(c[d].msgs) : BucketOf(m) = d
    BY DEF BucketOrder
  <2>1. CASE d # b
    BY <1>3, <2>1 DEF BucketOrder
  <2>2. CASE d = b
    <3>1. \A m \in Range(old) : BucketOf(m) = b
      BY <1>1 DEF BucketOrder, old
    <3> QED
      BY <1>3, <1>5, <1>7, <2>2, <3>1
  <2> QED
    BY <2>1, <2>2
<1>9. MsgsOf(c) = MsgsOf(a) \union {id}
  <2>1. ASSUME NEW m \in MsgsOf(c) PROVE m \in MsgsOf(a) \union {id}
    <3>1. PICK d \in 1..Buckets : m \in Range(c[d].msgs)
      BY <1>3, <2>1 DEF MsgsOf
    <3>2. CASE d = b
      BY <1>3, <1>5, <1>6, <3>1, <3>2
    <3>3. CASE d # b
      BY <1>3, <3>1, <3>3 DEF MsgsOf
    <3> QED
      BY <3>2, <3>3
  <2>2. ASSUME NEW m \in MsgsOf(a) PROVE m \in MsgsOf(c)
    <3>1. PICK d \in 1..Buckets : m \in Range(a[d].msgs)
      BY <2>2 DEF MsgsOf
    <3>2. CASE d = b
      <4>1. m \in Range(c[b].msgs)
        BY <1>3, <1>5, <3>1, <3>2 DEF old
      <4> QED
        BY <1>1, <1>3, <4>1 DEF MsgsOf
    <3>3. CASE d # b
      <4>1. m \in Range(c[d].msgs)
        BY <1>3, <3>1, <3>3
      <4> QED
        BY <1>3, <4>1 DEF MsgsOf
    <3> QED
      BY <3>2, <3>3
  <2>3. id \in MsgsOf(c)
    <3>1. id \in Range(c[b].msgs)
      BY <1>3, <1>5
    <3> QED
      BY <1>1, <1>3, <3>1 DEF MsgsOf
  <2> QED
    BY <2>1, <2>2, <2>3
<1> QED
  BY <1>1, <1>3, <1>8, <1>9 DEF c

-----------------------------------------------------------------------------
(* Every message once and in order.                                        *)

\* Six sets of messages, each before those after it.
Chain(A, B, C, D, E, F) ==
    /\ Before(A, B) /\ Before(A, C) /\ Before(A, D) /\ Before(A, E) /\ Before(A, F)
    /\ Before(B, C) /\ Before(B, D) /\ Before(B, E) /\ Before(B, F)
    /\ Before(C, D) /\ Before(C, E) /\ Before(C, F)
    /\ Before(D, E) /\ Before(D, F)
    /\ Before(E, F)

\* Each message is in one of the stages, or was dropped.
Accounted(all, lost, n) == lost \union all = 1..n /\ lost \intersect all = {}

\* The messages that the holder of the lock, the batcher and the aggregators have.
Collected == MsgsOf(job.out) \union MsgsOf(batch) \union MsgsOf(job.items) \union MsgsOf(agg)

OrderInv ==
    /\ ChanOrder(ch) /\ InOrder(job.out) /\ InOrder(batch) /\ InOrder(job.items) /\ BucketOrder(agg)
    /\ Chain(taken, ChanMsgs(ch), MsgsOf(job.out), MsgsOf(batch), MsgsOf(job.items), MsgsOf(agg))
    /\ Accounted(taken \union ChanMsgs(ch) \union Collected, dropped, issued)

LEMMA OrderThen ==
    ASSUME given' = given,
           ChanOrder(ch'), InOrder(job'.out), InOrder(batch'), InOrder(job'.items), BucketOrder(agg'),
           Chain(taken', ChanMsgs(ch'), MsgsOf(job'.out), MsgsOf(batch'), MsgsOf(job'.items),
                 MsgsOf(agg')),
           Accounted(taken' \union ChanMsgs(ch') \union Collected', dropped', issued')
    PROVE  OrderInv'
<1>1. kind' = kind
  BY DEF given
<1>2. ChanOrder(ch)'
  BY <1>1 DEF ChanOrder, InOrder, Before, BucketOf
<1>3. InOrder(job.out)' /\ InOrder(batch)' /\ InOrder(job.items)'
  BY <1>1 DEF InOrder, Before, BucketOf
<1>4. BucketOrder(agg)'
  BY <1>1 DEF BucketOrder, BucketOf
<1>5. Chain(taken, ChanMsgs(ch), MsgsOf(job.out), MsgsOf(batch), MsgsOf(job.items), MsgsOf(agg))'
  BY <1>1 DEF Chain, Before, BucketOf
<1>6. Accounted(taken \union ChanMsgs(ch) \union Collected, dropped, issued)'
  BY DEF Accounted
<1> QED
  BY <1>2, <1>3, <1>4, <1>5, <1>6 DEF OrderInv

\* The stages that a step does not change stay in order.
LEMMA OrderSame ==
    ASSUME OrderInv, UNCHANGED <<given, issued, batchVars, job, ch, taken, dropped>>
    PROVE  OrderInv'
<1>1. Collected' = Collected
  BY DEF Collected, batchVars
<1> QED
  BY <1>1, OrderThen DEF OrderInv, batchVars

LEMMA InitOrder == Init => OrderInv
<1> SUFFICES ASSUME Init PROVE OrderInv
  OBVIOUS
<1>1. job.items = <<>> /\ job.out = <<>> /\ batch = <<>> /\ ch = <<>> /\ taken = {} /\ dropped = {}
  BY DEF Init, Idle
<1>2. agg \in [1..Buckets -> {Empty}]
  BY DEF Init
<1>3. \A b \in 1..Buckets : agg[b].msgs = <<>>
  BY <1>2 DEF Empty
<1>4. MsgsOf(agg) = {} /\ BucketOrder(agg)
  BY <1>2, <1>3, MsgsEmpty DEF MsgsOf, BucketOrder
<1>5. Collected = {}
  BY <1>1, <1>4, MsgsEmpty DEF Collected
<1>6. 1..issued = {}
  BY DEF Init
<1> QED
  BY <1>1, <1>4, <1>5, <1>6, MsgsEmpty, ChanEmpty, BeforeParts DEF OrderInv, Chain, Accounted

\* What was read and what is in the channel comes before the rest.
LEMMA ChainRest ==
    ASSUME NEW A, NEW B, NEW C, NEW D, NEW E, NEW F, Chain(A, B, C, D, E, F)
    PROVE  Before(A, C \union D \union E \union F) /\ Before(B, C \union D \union E \union F)
<1>1. Before(A, C \union D) /\ Before(B, C \union D)
  BY BeforeParts DEF Chain
<1>2. Before(A, C \union D \union E) /\ Before(B, C \union D \union E)
  BY <1>1, BeforeParts DEF Chain
<1> QED
  BY <1>2, BeforeParts DEF Chain

\* The holder of the lock passes messages on between items, batch and channel, and
\* aggregators give theirs to the items; the messages stay the same.
LEMMA OrderMoved ==
    ASSUME OrderInv, given' = given,
           UNCHANGED <<issued, ch, taken, dropped>>, Collected' = Collected,
           InOrder(job'.out), InOrder(batch'), InOrder(job'.items), BucketOrder(agg'),
           Before(MsgsOf(job'.out), MsgsOf(batch')),
           Before(MsgsOf(job'.out) \union MsgsOf(batch'), MsgsOf(job'.items)),
           Before(MsgsOf(job'.out) \union MsgsOf(batch') \union MsgsOf(job'.items), MsgsOf(agg'))
    PROVE  OrderInv'
<1> DEFINE C == MsgsOf(job'.out)
           D == MsgsOf(batch')
           E == MsgsOf(job'.items)
           F == MsgsOf(agg')
<1>1. Collected = C \union D \union E \union F
  BY DEF Collected
<1>2. Before(taken, Collected) /\ Before(ChanMsgs(ch), Collected) /\ Before(taken, ChanMsgs(ch))
  <2>1. Before(taken, Collected) /\ Before(ChanMsgs(ch), Collected)
    BY ChainRest DEF OrderInv, Collected
  <2> QED
    BY <2>1 DEF OrderInv, Chain
<1> HIDE DEF C, D, E, F
<1>3. Chain(taken, ChanMsgs(ch), C, D, E, F)
  BY <1>1, <1>2, BeforeParts DEF Chain, C, D, E, F
<1> QED
  BY <1>3, OrderThen DEF OrderInv, C, D, E, F

\* flushAll takes the aggregates: the holder of the lock had nothing before.
LEMMA FlushOrder ==
    ASSUME TypeInv, OrderInv, NEW p \in {"run", "ticker"}, StartFlush(p),
           given' = given, UNCHANGED <<issued, batch, ch, taken, dropped>>
    PROVE  /\ OrderInv' /\ Collected' = Collected /\ MsgsOf(agg') = {}
<1>1. /\ job'.items = Aggregates /\ job'.out = <<>> /\ job.items = <<>> /\ job.out = <<>>
      /\ DOMAIN Aggregates = 1..Buckets /\ \A b \in 1..Buckets : Aggregates[b].msgs = agg[b].msgs
      /\ DOMAIN agg = 1..Buckets
  BY FlushTypes, Types DEF Idle
<1>2. MsgsOf(Aggregates) = MsgsOf(agg)
  BY <1>1 DEF MsgsOf
<1>3. InOrder(Aggregates)
  <2>1. BucketOrder(Aggregates)
    BY <1>1 DEF OrderInv, BucketOrder
  <2> QED
    BY <1>1, <2>1, BucketsInOrder
<1>4. DOMAIN agg' = 1..Buckets /\ \A b \in 1..Buckets : agg'[b].msgs = <<>>
  BY DEF StartFlush, Empty
<1>5. MsgsOf(agg') = {} /\ BucketOrder(agg')
  BY <1>4, MsgsEmpty DEF MsgsOf, BucketOrder
<1>6. Collected' = Collected
  BY <1>1, <1>2, <1>5, MsgsEmpty DEF Collected
<1>7. Before(MsgsOf(batch), MsgsOf(agg))
  BY DEF OrderInv, Chain
<1>8. InOrder(job'.out) /\ MsgsOf(job'.out) = {} /\ InOrder(batch')
  BY <1>1, MsgsEmpty DEF OrderInv
<1>9. Before(MsgsOf(job'.out) \union MsgsOf(batch'), MsgsOf(job'.items))
  BY <1>1, <1>2, <1>7, <1>8, BeforeParts
<1>10. /\ Before(MsgsOf(job'.out), MsgsOf(batch'))
       /\ Before(MsgsOf(job'.out) \union MsgsOf(batch') \union MsgsOf(job'.items), MsgsOf(agg'))
  BY <1>5, <1>8, BeforeParts
<1> QED
  BY <1>1, <1>3, <1>5, <1>6, <1>8, <1>9, <1>10, OrderMoved

\* The first item goes to the batcher, which may pass on its batch without or with it.
LEMMA AppendOrder ==
    ASSUME TypeInv, OrderInv, AppendItem
    PROVE  OrderInv' /\ Collected' = Collected
<1> DEFINE item == Head(job.items)
           H == Range(item.msgs)
           T == MsgsOf(Tail(job.items))
           D == MsgsOf(batch)
           F == MsgsOf(agg)
<1>0. job.items \in Seq(Items) /\ job.items # <<>> /\ job.out = <<>> /\ batch \in Seq(Entries)
  BY Types DEF AppendItem
<1>1. MsgsOf(job.items) = H \union T /\ InOrder(Tail(job.items)) /\ Ascending(item.msgs) /\ Before(H, T)
  BY <1>0, OrderTail DEF OrderInv
<1>2. MsgsOf(job.out) = {}
  BY <1>0, MsgsEmpty
<1>3. Collected = D \union H \union T \union F
  BY <1>1, <1>2 DEF Collected
<1>4. Before(D, H) /\ Before(D, T) /\ Before(D, F) /\ Before(H, F) /\ Before(T, F)
  BY <1>1, BeforeParts DEF OrderInv, Chain
<1>5. given' = given /\ UNCHANGED <<issued, agg, ch, taken, dropped>>
  BY DEF AppendItem, outVars
<1>6. PICK out, new : /\ job'.items = Tail(job.items) /\ job'.out = out /\ batch' = new
                      /\ InOrder(out) /\ InOrder(new)
                      /\ MsgsOf(out) \union MsgsOf(new) = D \union H
                      /\ Before(MsgsOf(out), MsgsOf(new))
  <2>1. CASE item.msgs # <<>>
    <3>1. PICK first, full \in BOOLEAN :
           LET rest == IF first THEN <<>> ELSE batch
               total == (IF first THEN 0 ELSE size) + item.size
               entry == [msgs |-> item.msgs, size |-> item.size, total |-> total]
           IN  /\ entry \in Entries
               /\ batch' = IF full THEN <<>> ELSE Append(rest, entry)
               /\ job' = [job EXCEPT !.items = Tail(job.items),
                                     !.out = IF full THEN Append(batch, entry)
                                             ELSE IF first THEN batch ELSE <<>>]
      BY <2>1, AppendStep
    <3> DEFINE rest == IF first THEN <<>> ELSE batch
               total == (IF first THEN 0 ELSE size) + item.size
               entry == [msgs |-> item.msgs, size |-> item.size, total |-> total]
               out == IF full THEN Append(batch, entry) ELSE IF first THEN batch ELSE <<>>
               new == IF full THEN <<>> ELSE Append(rest, entry)
    <3>2. entry \in Entries /\ entry.msgs = item.msgs
      BY <3>1
    <3>3. job'.items = Tail(job.items) /\ job'.out = out /\ batch' = new
      BY <3>1, OtherTypes
    <3> HIDE DEF entry
    <3>4. <<>> \in Seq(Entries) /\ InOrder(<<>>) /\ MsgsOf(<<>>) = {} /\ InOrder(batch)
      BY MsgsEmpty DEF OrderInv
    <3>5. InOrder(Append(batch, entry)) /\ MsgsOf(Append(batch, entry)) = D \union H
      BY <1>0, <1>1, <1>4, <3>2, <3>4, OrderAppend, MsgsAppend
    <3>6. InOrder(Append(<<>>, entry)) /\ MsgsOf(Append(<<>>, entry)) = H
      <4>1. Before({}, H)
        BY BeforeParts
      <4>2. InOrder(Append(<<>>, entry))
        BY <1>1, <3>2, <3>4, <4>1, OrderAppend
      <4>3. MsgsOf(Append(<<>>, entry)) = MsgsOf(<<>>) \union Range(entry.msgs)
        BY <3>2, <3>4, MsgsAppend
      <4> QED
        BY <3>2, <3>4, <4>2, <4>3
    <3> HIDE DEF H, D, out, new
    <3>7. CASE full
      <4>1. out = Append(batch, entry) /\ new = <<>>
        BY <3>7 DEF out, new
      <4>2. Before(MsgsOf(out), MsgsOf(new))
        BY <3>4, <4>1, BeforeParts
      <4> QED
        BY <3>3, <3>4, <3>5, <4>1, <4>2
    <3>8. CASE ~full /\ first
      <4>1. out = batch /\ new = Append(<<>>, entry)
        BY <3>8 DEF out, new, rest
      <4> QED
        BY <1>4, <3>3, <3>4, <3>6, <4>1 DEF D
    <3>9. CASE ~full /\ ~first
      <4>1. out = <<>> /\ new = Append(batch, entry)
        BY <3>9 DEF out, new, rest
      <4>2. Before(MsgsOf(out), MsgsOf(new))
        BY <3>4, <4>1, BeforeParts
      <4> QED
        BY <3>3, <3>4, <3>5, <4>1, <4>2
    <3> QED
      BY <3>7, <3>8, <3>9
  <2>2. CASE item.msgs = <<>>
    <3>1. job' = [job EXCEPT !.items = Tail(job.items)] /\ batch' = batch
      BY <2>2 DEF AppendItem
    <3>2. job'.items = Tail(job.items) /\ job'.out = <<>>
      BY <1>0, <3>1, OtherTypes
    <3>3. H = {} /\ MsgsOf(<<>>) = {} /\ InOrder(<<>>) /\ InOrder(batch)
      BY <2>2, MsgsEmpty DEF OrderInv
    <3>4. Before({}, D) /\ MsgsOf(<<>>) \union D = D \union H
      BY <3>3, BeforeParts
    <3> QED
      BY <3>1, <3>2, <3>3, <3>4
  <2> QED
    BY <2>1, <2>2
<1> HIDE DEF H, T, D, F
<1>7. Collected' = MsgsOf(out) \union MsgsOf(new) \union T \union F
  BY <1>5, <1>6 DEF Collected, T, F
<1>8. Collected' = Collected
  BY <1>3, <1>6, <1>7
<1>9. Before(MsgsOf(out) \union MsgsOf(new), T) /\ Before(MsgsOf(out) \union MsgsOf(new), F)
  BY <1>1, <1>4, <1>6, BeforeParts
<1>10. Before(MsgsOf(out) \union MsgsOf(new) \union T, F)
  BY <1>4, <1>9, BeforeParts
<1> QED
  BY <1>1, <1>5, <1>6, <1>8, <1>9, <1>10, OrderMoved DEF OrderInv, T, F

\* The batcher is flushed when no item and no batch is left.
LEMMA FlushBatchOrder ==
    ASSUME TypeInv, OrderInv, FlushBatch
    PROVE  OrderInv' /\ Collected' = Collected
<1>1. /\ job'.items = job.items /\ job'.out = batch /\ job.items = <<>> /\ job.out = <<>>
      /\ batch' = <<>>
  BY OtherTypes DEF FlushBatch
<1>2. MsgsOf(<<>>) = {} /\ InOrder(<<>>)
  BY MsgsEmpty
<1>3. given' = given /\ UNCHANGED <<issued, agg, ch, taken, dropped>>
  BY DEF FlushBatch, outVars
<1>4. Collected' = Collected
  BY <1>1, <1>2, <1>3 DEF Collected
<1>5. Before(MsgsOf(batch), MsgsOf(agg)) /\ BucketOrder(agg) /\ InOrder(batch)
  BY DEF OrderInv, Chain
<1>6. Before(MsgsOf(batch) \union {} \union {}, MsgsOf(agg)) /\ Before(MsgsOf(batch) \union {}, {})
  BY <1>5, BeforeParts
<1> QED
  BY <1>1, <1>2, <1>3, <1>4, <1>5, <1>6, BeforeParts, OrderMoved

\* A message is aggregated: it is the last of all, and comes after those of its bucket
\* that are flushed before it.
LEMMA AggregationOrder ==
    ASSUME TypeInv, BoundInv, OrderInv, ApplyAggregation
    PROVE  OrderInv' /\ Collected' = Collected \union {issued + 1}
<1> DEFINE id == issued + 1
           A == taken
           B == ChanMsgs(ch)
           C == MsgsOf(job.out)
           D == MsgsOf(batch)
           E == MsgsOf(job.items)
           F == MsgsOf(agg)
<1>0. issued \in Nat /\ id \in Messages /\ job.items \in Seq(Items) /\ agg \in [1..Buckets -> Buffers]
  BY Types, NextId
<1>1. /\ A \subseteq 1..issued /\ B \subseteq 1..issued /\ C \subseteq 1..issued
      /\ D \subseteq 1..issued /\ E \subseteq 1..issued /\ F \subseteq 1..issued
  BY DEF OrderInv, Accounted, Collected
<1>2. InOrder(job.items) /\ BucketOrder(agg) /\ Before(E, F)
  BY DEF OrderInv, Chain
<1>3. PICK items, a : /\ job'.items = items /\ job'.out = job.out /\ agg' = a
                      /\ InOrder(items) /\ BucketOrder(a) /\ Before(MsgsOf(items), MsgsOf(a))
                      /\ MsgsOf(items) \union MsgsOf(a) = E \union F \union {id}
  <2>1. CASE aggregationSize <= 1
    <3>1. PICK x \in Items : /\ job' = [job EXCEPT !.todo = job.todo - 1, !.items = Append(job.items, x)]
                             /\ agg' = agg /\ x.msgs = <<id>>
      BY <2>1, PassOnStep
    <3>2. job'.items = Append(job.items, x) /\ job'.out = job.out
      BY <3>1, OtherTypes
    <3>3. Range(x.msgs) = {id} /\ Ascending(x.msgs)
      BY <3>1 DEF Range, Ascending
    <3>4. F = {}
      <4>1. ASSUME NEW b \in 1..Buckets PROVE Range(agg[b].msgs) = {}
        <5>1. agg[b].msgs \in Seq(Messages) /\ aggregationSize \in Nat /\ Len(agg[b].msgs) < aggregationSize
          BY Types, IdleBound DEF BoundInv, Buffers
        <5>2. Len(agg[b].msgs) = 0
          BY <2>1, <5>1
        <5>3. agg[b].msgs = <<>>
          BY <5>1, <5>2
        <5> QED
          BY <5>3, MsgsEmpty
      <4> QED
        BY <1>0, <4>1 DEF MsgsOf
    <3>5. Before(E, {id})
      BY <1>0, <1>1, BeforeNew
    <3>6. InOrder(Append(job.items, x)) /\ MsgsOf(Append(job.items, x)) = E \union {id}
      <4>1. MsgsOf(Append(job.items, x)) = E \union Range(x.msgs)
        BY <1>0, MsgsAppend
      <4>2. InOrder(Append(job.items, x))
        BY <1>0, <1>2, <3>3, <3>5, OrderAppend
      <4> QED
        BY <3>3, <4>1, <4>2
    <3>7. Before(E \union {id}, F) /\ (E \union {id}) \union F = E \union F \union {id}
      BY <3>4, BeforeParts
    <3> HIDE DEF E, F
    <3>8. MsgsOf(agg) = F
      BY DEF F
    <3> QED
      BY <1>2, <3>1, <3>2, <3>6, <3>7, <3>8
  <2>2. CASE ~(aggregationSize <= 1)
    <3> DEFINE b == BucketOf(id)
    <3>1. PICK full, flush \in BOOLEAN :
           LET base == IF full THEN Empty ELSE agg[b]
               ready == IF full THEN Append(job.items, Flushed(agg[b])) ELSE job.items
               with == Written(base, id)
           IN  /\ b \in 1..Buckets
               /\ agg' = [agg EXCEPT ![b] = IF flush THEN Empty ELSE with]
               /\ job' = [job EXCEPT !.todo = job.todo - 1,
                             !.items = IF flush THEN Append(ready, Flushed(with)) ELSE ready]
      BY <2>2, AggregateStep
    <3> DEFINE agg1 == IF full THEN [agg EXCEPT ![b] = Empty] ELSE agg
               ready == IF full THEN Append(job.items, Flushed(agg[b])) ELSE job.items
               with == Written(agg1[b], id)
               agg2 == [agg1 EXCEPT ![b] = with]
               agg3 == IF flush THEN [agg2 EXCEPT ![b] = Empty] ELSE agg2
               items == IF flush THEN Append(ready, Flushed(agg2[b])) ELSE ready
    <3>2. b \in 1..Buckets
      BY <3>1
    <3>3. agg1[b] = (IF full THEN Empty ELSE agg[b])
      BY <1>0, <3>2
    <3>4. /\ ready \in Seq(Items) /\ agg1 \in [1..Buckets -> Buffers] /\ InOrder(ready)
          /\ BucketOrder(agg1) /\ Before(MsgsOf(ready), MsgsOf(agg1))
          /\ MsgsOf(ready) \union MsgsOf(agg1) = E \union F
      BY <1>0, <1>2, <3>2, TakeBucket
    <3> HIDE DEF ready, agg1
    <3>5. MsgsOf(agg1) \subseteq 1..issued /\ MsgsOf(ready) \subseteq 1..issued
      BY <1>1, <3>4
    <3>6. /\ agg2 \in [1..Buckets -> Buffers] /\ BucketOrder(agg2)
          /\ MsgsOf(agg2) = MsgsOf(agg1) \union {id}
      BY <1>0, <3>4, <3>5, AddToBucket
    <3>7. Before(MsgsOf(ready), MsgsOf(agg2))
      <4>1. Before(MsgsOf(ready), {id})
        BY <1>0, <3>5, BeforeNew
      <4>2. Before(MsgsOf(ready), MsgsOf(agg1))
        BY <3>4
      <4>3. Before(MsgsOf(ready), MsgsOf(agg1) \union {id})
        BY <4>1, <4>2, BeforeParts
      <4> QED
        BY <3>6, <4>3
    <3>8. agg2[b] = with /\ agg2 = [agg1 EXCEPT ![b] = with]
      BY <3>2, <3>4
    <3> HIDE DEF agg2, with
    <3>9. /\ InOrder(items) /\ BucketOrder(agg3) /\ Before(MsgsOf(items), MsgsOf(agg3))
          /\ MsgsOf(items) \union MsgsOf(agg3) = MsgsOf(ready) \union MsgsOf(agg2)
      <4>1. CASE flush
        BY <3>2, <3>4, <3>6, <3>7, <4>1, TakeBucket
      <4>2. CASE ~flush
        BY <3>4, <3>6, <3>7, <4>2
      <4> QED
        BY <4>1, <4>2
    <3>10. agg' = [agg EXCEPT ![b] = IF flush THEN Empty ELSE with]
      BY <3>1, <3>3 DEF with
    <3>11. agg' = agg3
      <4>1. agg' = [agg1 EXCEPT ![b] = IF flush THEN Empty ELSE with]
        BY <1>0, <3>2, <3>10 DEF agg1
      <4> QED
        BY <3>2, <3>4, <3>8, <4>1
    <3>12. job'.items = items /\ job'.out = job.out
      <4>1. job' = [job EXCEPT !.todo = job.todo - 1,
                               !.items = IF flush THEN Append(ready, Flushed(with)) ELSE ready]
        BY <3>1, <3>3 DEF with, ready
      <4>2. items = (IF flush THEN Append(ready, Flushed(with)) ELSE ready)
        BY <3>8
      <4> QED
        BY <4>1, <4>2, OtherTypes
    <3>13. MsgsOf(items) \union MsgsOf(agg3) = E \union F \union {id}
      BY <3>4, <3>6, <3>9
    <3> QED
      BY <3>9, <3>11, <3>12, <3>13
  <2> QED
    BY <2>1, <2>2
<1>4. given' = given /\ UNCHANGED <<batch, ch, taken, dropped>> /\ issued' = id
  BY DEF ApplyAggregation, outVars
<1> DEFINE E2 == MsgsOf(items)
           F2 == MsgsOf(a)
<1>5. Collected' = C \union D \union E2 \union F2 /\ Collected = C \union D \union E \union F
  BY <1>3, <1>4 DEF Collected
<1>6. /\ Before(A, B) /\ Before(A, C) /\ Before(A, D) /\ Before(B, C) /\ Before(B, D) /\ Before(C, D)
      /\ Before(A, E \union F) /\ Before(B, E \union F)
      /\ Before(C, E \union F) /\ Before(D, E \union F)
  BY BeforeParts DEF OrderInv, Chain
<1>7. Accounted(A \union B \union Collected, dropped, issued)
  BY DEF OrderInv
<1>8. Before(A, {id}) /\ Before(B, {id}) /\ Before(C, {id}) /\ Before(D, {id})
  BY <1>0, <1>1, BeforeNew
<1> HIDE DEF A, B, C, D, E, F, E2, F2
<1>9. E2 \union F2 = E \union F \union {id} /\ Before(E2, F2)
  BY <1>3 DEF E2, F2
<1>10. ASSUME NEW X, Before(X, E \union F), Before(X, {id}) PROVE Before(X, E2) /\ Before(X, F2)
  <2>1. Before(X, E2 \union F2)
    BY <1>9, <1>10, BeforeParts
  <2> QED
    BY <2>1, BeforeParts
<1>11. Chain(A, B, C, D, E2, F2)
  BY <1>6, <1>8, <1>9, <1>10 DEF Chain
<1>12. Collected' = Collected \union {id}
  BY <1>5, <1>9
<1>13. Accounted(A \union B \union Collected', dropped, id)
  <2>1. 1..id = 1..issued \union {id} /\ id \notin 1..issued
    BY <1>0
  <2> QED
    BY <1>7, <1>12, <2>1 DEF Accounted
<1> QED
  BY <1>3, <1>4, <1>11, <1>12, <1>13, OrderThen DEF OrderInv, A, B, C, D, E2, F2

\* A batch goes into the channel, or is dropped if the channel is closed.
LEMMA OutputOrder ==
    ASSUME TypeInv, OrderInv, Output
    PROVE  /\ OrderInv' /\ Collected' \subseteq Collected
           /\ dropped' \subseteq dropped \union Collected /\ (~closed => dropped' = dropped)
<1> DEFINE A == taken
           B == ChanMsgs(ch)
           C == MsgsOf(job.out)
           D == MsgsOf(batch)
           E == MsgsOf(job.items)
           F == MsgsOf(agg)
<1>1. job'.items = job.items /\ job'.out = <<>>
  BY OtherTypes DEF Output
<1>2. given' = given /\ UNCHANGED <<issued, batch, agg, taken>>
  BY DEF Output, batchVars, outVars
<1>3. Collected = C \union D \union E \union F
  BY DEF Collected
<1>4. Collected' = D \union E \union F
  BY <1>1, <1>2, MsgsEmpty DEF Collected
<1>5. Chain(A, B, C, D, E, F) /\ Accounted(A \union B \union Collected, dropped, issued)
  BY DEF OrderInv
<1>6. ch \in Seq(Seq(Entries)) /\ job.out \in Seq(Entries) /\ ChanOrder(ch) /\ InOrder(job.out)
  BY Types DEF OrderInv
<1>7. \/ closed /\ dropped' = dropped \union C /\ ch' = ch
      \/ ~closed /\ ch' = Append(ch, job.out) /\ dropped' = dropped
  BY DEF Output
<1>8. InOrder(<<>>) /\ MsgsOf(<<>>) = {}
  BY MsgsEmpty
<1> HIDE DEF A, B, C, D, E, F
<1>9. CASE closed /\ dropped' = dropped \union C /\ ch' = ch
  <2>1. Chain(A, B, {}, D, E, F)
    BY <1>5, BeforeParts DEF Chain
  <2>2. /\ C \intersect A = {} /\ C \intersect B = {} /\ C \intersect D = {}
        /\ C \intersect E = {} /\ C \intersect F = {}
    <3>1. A \subseteq Nat /\ B \subseteq Nat /\ C \subseteq Nat
      BY <1>3, <1>5 DEF Accounted
    <3>2. A \intersect C = {} /\ B \intersect C = {}
      BY <1>5, <3>1, BeforeDisjoint DEF Chain
    <3>3. C \intersect D = {} /\ C \intersect E = {} /\ C \intersect F = {}
      BY <1>5, <3>1, BeforeDisjoint DEF Chain
    <3> QED
      BY <3>2, <3>3
  <2>3. Accounted(A \union B \union Collected', dropped', issued)
    BY <1>3, <1>4, <1>5, <1>9, <2>2 DEF Accounted
  <2>4. OrderInv'
    BY <1>1, <1>2, <1>6, <1>8, <1>9, <2>1, <2>3, OrderThen DEF OrderInv, A, B, C, D, E, F
  <2> QED
    BY <1>3, <1>4, <1>9, <2>4
<1>10. CASE ~closed /\ ch' = Append(ch, job.out) /\ dropped' = dropped
  <2>1. ChanMsgs(ch') = B \union C /\ ChanOrder(ch')
    <3>1. Before(ChanMsgs(ch), MsgsOf(job.out))
      BY <1>5 DEF Chain, B, C
    <3> QED
      BY <1>6, <1>10, <3>1, ChanAppend DEF B, C
  <2>2. Chain(A, B \union C, {}, D, E, F)
    BY <1>5, BeforeParts DEF Chain
  <2>3. Accounted(A \union (B \union C) \union Collected', dropped', issued)
    BY <1>3, <1>4, <1>5, <1>10 DEF Accounted
  <2>4. OrderInv'
    BY <1>1, <1>2, <1>6, <1>8, <2>1, <2>2, <2>3, OrderThen DEF OrderInv, A, D, E, F
  <2> QED
    BY <1>3, <1>4, <1>10, <2>4
<1> QED
  BY <1>7, <1>9, <1>10

\* A runner reads the first batch of the channel.
LEMMA ReadOrder ==
    ASSUME TypeInv, OrderInv, NEW r \in Runners, Read(r)
    PROVE  OrderInv'
<1> DEFINE A == taken
           H == MsgsOf(Head(ch))
           T == ChanMsgs(Tail(ch))
           C == MsgsOf(job.out)
           D == MsgsOf(batch)
           E == MsgsOf(job.items)
           F == MsgsOf(agg)
<1>1. ch \in Seq(Seq(Entries)) /\ ch # <<>> /\ ch' = Tail(ch) /\ taken' = A \union H
  BY Types DEF Read
<1>2. given' = given /\ UNCHANGED <<issued, batch, agg, job, dropped>> /\ Collected' = Collected
  BY DEF Read, batchVars, Collected
<1>3. ChanMsgs(ch) = H \union T /\ ChanOrder(Tail(ch)) /\ Before(H, T)
  BY <1>1, ChanTail DEF OrderInv
<1>4. Chain(A, ChanMsgs(ch), C, D, E, F) /\ Accounted(A \union ChanMsgs(ch) \union Collected, dropped, issued)
  BY DEF OrderInv
<1> HIDE DEF A, H, T, C, D, E, F
<1>5. Chain(A, H \union T, C, D, E, F) /\ Accounted(A \union (H \union T) \union Collected, dropped, issued)
  BY <1>3, <1>4
<1>6. Chain(A \union H, T, C, D, E, F)
  <2>1. /\ Before(A, T) /\ Before(H, C) /\ Before(T, C) /\ Before(H, D) /\ Before(T, D)
        /\ Before(H, E) /\ Before(T, E) /\ Before(H, F) /\ Before(T, F)
    BY <1>5, BeforeParts DEF Chain
  <2> QED
    BY <1>3, <1>5, <2>1, BeforeParts DEF Chain
<1>7. Accounted((A \union H) \union T \union Collected, dropped, issued)
  <2>1. A \union (H \union T) \union Collected = (A \union H) \union T \union Collected
    OBVIOUS
  <2> QED
    BY <1>5, <2>1
<1> QED
  BY <1>1, <1>2, <1>3, <1>6, <1>7, OrderThen DEF OrderInv, T, C, D, E, F

\* Every step keeps the messages in order.
LEMMA OrderStep == TypeInv /\ BoundInv /\ ControlInv /\ OrderInv /\ [Next]_vars => OrderInv'
<1> SUFFICES ASSUME TypeInv, BoundInv, ControlInv, OrderInv, [Next]_vars PROVE OrderInv'
  OBVIOUS
<1>1. ASSUME job.items = <<>>, job.out = <<>>, job'.items = <<>>, job'.out = <<>>,
             UNCHANGED <<given, issued, batchVars, ch, taken, dropped>>
      PROVE  OrderInv'
  <2>1. Collected' = Collected
    BY <1>1 DEF Collected, batchVars
  <2> QED
    BY <1>1, <2>1, OrderThen DEF OrderInv, batchVars
<1>2. ASSUME NEW w \in Writers, Write(w) PROVE OrderInv'
  <2>1. job.items = <<>> /\ job.out = <<>> /\ job'.items = <<>> /\ job'.out = <<>>
    BY <1>2 DEF Write, Idle
  <2> QED
    BY <1>1, <1>2, <2>1 DEF Write, outVars
<1>3. CASE Tick
  BY <1>3, FlushOrder DEF Tick, outVars
<1>4. CASE Close
  BY <1>4, FlushOrder DEF Close, outVars
<1>5. CASE Holder
  <2>1. CASE Unlock
    <3>1. job.items = <<>> /\ job.out = <<>> /\ job'.items = <<>> /\ job'.out = <<>>
      BY <2>1 DEF Unlock, Done, Idle
    <3> QED
      BY <1>1, <2>1, <3>1 DEF Unlock, outVars
  <2> QED
    BY <1>5, <2>1, AggregationOrder, AppendOrder, FlushBatchOrder, OutputOrder DEF Holder
<1>6. CASE Restart
  <2>1. ch = <<>>
    BY <1>6 DEF Restart, ControlInv
  <2> QED
    BY <1>6, <2>1, OrderSame DEF Restart, outVars
<1>7. CASE BusyWrite \/ Rearm \/ Run \/ RunReturns \/ KernelStops \/ TickerEnds
  BY <1>7, OrderSame DEF BusyWrite, Rearm, Run, RunReturns, KernelStops, TickerEnds, outVars
<1>8. ASSUME NEW r \in Runners, OutputLoop(r) PROVE OrderInv'
  BY <1>8, ReadOrder, OrderSame DEF OutputLoop, Send, LoopEnds
<1>9. CASE UNCHANGED vars
  BY <1>9, OrderSame DEF vars, outVars
<1> QED
  BY <1>2, <1>3, <1>4, <1>5, <1>6, <1>7, <1>8, <1>9 DEF Next

\* The invariant says what InOrderOnce does of the stages.
LEMMA OrderOfStages ==
    ASSUME TypeInv, OrderInv
    PROVE  InOrderOnce
<1> DEFINE A == taken
           B == ChanMsgs(ch)
           C == MsgsOf(job.out)
           D == MsgsOf(batch)
           E == MsgsOf(job.items)
           F == MsgsOf(agg)
<1>1. Stages = <<A, B, C, D, E, F>>
  BY DEF Stages, ChanMsgs
<1>2. Chain(A, B, C, D, E, F) /\ Accounted(A \union B \union (C \union D \union E \union F), dropped, issued)
  BY DEF OrderInv, Collected
<1>3. InOrder(agg)
  BY Types, BucketsInOrder DEF OrderInv
<1> HIDE DEF A, B, C, D, E, F
<1>4. DOMAIN Stages = 1..6 /\ Stages[1] = A /\ Stages[2] = B /\ Stages[3] = C /\ Stages[4] = D
      /\ Stages[5] = E /\ Stages[6] = F
  BY <1>1
<1>5. ASSUME NEW i \in DOMAIN Stages, NEW j \in DOMAIN Stages, i < j PROVE Before(Stages[i], Stages[j])
  <2>1. CASE i = 1
    <3>1. j = 2 \/ j = 3 \/ j = 4 \/ j = 5 \/ j = 6
      BY <1>4, <1>5, <2>1
    <3> QED
      BY <1>2, <1>4, <2>1, <3>1 DEF Chain
  <2>2. CASE i = 2
    <3>1. j = 3 \/ j = 4 \/ j = 5 \/ j = 6
      BY <1>4, <1>5, <2>2
    <3> QED
      BY <1>2, <1>4, <2>2, <3>1 DEF Chain
  <2>3. CASE i = 3
    <3>1. j = 4 \/ j = 5 \/ j = 6
      BY <1>4, <1>5, <2>3
    <3> QED
      BY <1>2, <1>4, <2>3, <3>1 DEF Chain
  <2>4. CASE i = 4
    <3>1. j = 5 \/ j = 6
      BY <1>4, <1>5, <2>4
    <3> QED
      BY <1>2, <1>4, <2>4, <3>1 DEF Chain
  <2>5. CASE i = 5
    <3>1. j = 6
      BY <1>4, <1>5, <2>5
    <3> QED
      BY <1>2, <1>4, <2>5, <3>1 DEF Chain
  <2> QED
    BY <1>4, <1>5, <2>1, <2>2, <2>3, <2>4, <2>5
<1>6. UNION Range(Stages) = A \union B \union (C \union D \union E \union F)
  <2>1. Range(Stages) = {A, B, C, D, E, F}
    BY <1>4 DEF Range
  <2> QED
    BY <2>1
<1>7. dropped \union UNION Range(Stages) = 1..issued /\ dropped \intersect UNION Range(Stages) = {}
  BY <1>2, <1>6 DEF Accounted
<1> QED
  BY <1>3, <1>5, <1>7 DEF InOrderOnce, OrderInv, ChanOrder

\* Every accepted message is in exactly one place or was dropped at the closed channel,
\* and those of a bucket are in the order in which they were written, all the way from
\* the output loops back to the aggregators: for any number of writers, runners,
\* buckets, messages and restarts, and whoever flushes in between.
THEOREM DaemonOrder == Spec => []InOrderOnce
<1> DEFINE Inv == TypeInv /\ BoundInv /\ ControlInv /\ OrderInv
<1>1. Init => Inv
  BY InitTypes, InitBound, InitControl, InitOrder
<1>2. Inv /\ [Next]_vars => Inv'
  BY TypesStep, BoundStep, ControlStep, OrderStep
<1>3. Inv => InOrderOnce
  BY OrderOfStages
<1> HIDE DEF Inv
<1> QED
  BY <1>1, <1>2, <1>3, PTL DEF Spec

-----------------------------------------------------------------------------
(* A stopped daemon has passed everything on.                              *)

\* Only what was written after the channel was closed is dropped or left behind; what
\* was read from the channel has been sent or is in the hands of a runner; and when Run
\* is through with its flush, aggregators and batcher are empty.
SentInv ==
    /\ dropped \subseteq late
    /\ (closed => Collected \subseteq late)
    /\ taken \subseteq sent \union UNION {MsgsOf(loop[r]) : r \in Runners}
    /\ (job.by = "run" => MsgsOf(agg) = {} /\ (~job.flush => batch = <<>> /\ job.items = <<>>))

LEMMA InitSent == Init => SentInv
<1> SUFFICES ASSUME Init PROVE SentInv
  OBVIOUS
<1>1. job.by # "run"
  BY DEF Init, Idle
<1> QED
  BY <1>1 DEF Init, SentInv

\* Steps of the holder of the lock.
LEMMA HolderSent ==
    ASSUME TypeInv, BoundInv, ControlInv, OrderInv, SentInv, Holder
    PROVE  SentInv'
<1>1. UNCHANGED <<taken, sent, loop>>
  BY DEF Holder, ApplyAggregation, AppendItem, FlushBatch, Output, Unlock, outVars
<1>2. CASE ApplyAggregation
  <2>1. job.by # "run"
    BY <1>2, Types DEF ApplyAggregation, ControlInv
  <2>2. job'.by = job.by
    <3>1. \E todo, items : job' = [job EXCEPT !.todo = todo, !.items = items]
      <4>1. PassOn(issued + 1) \/ Aggregate(issued + 1)
        BY <1>2 DEF ApplyAggregation
      <4> QED
        BY <4>1 DEF PassOn, Aggregate
    <3> QED
      BY <3>1, OtherTypes
  <2>3. Collected' = Collected \union {issued + 1}
    BY <1>2, AggregationOrder
  <2>4. /\ dropped' = dropped /\ closed' = closed
        /\ late' = IF closed THEN late \union {issued + 1} ELSE late
    BY <1>2 DEF ApplyAggregation
  <2> QED
    BY <1>1, <2>1, <2>2, <2>3, <2>4 DEF SentInv
<1>3. CASE AppendItem
  <2>1. Collected' = Collected /\ UNCHANGED <<dropped, closed, late, agg>>
    BY <1>3, AppendOrder DEF AppendItem
  <2>2. job'.by = job.by /\ job'.flush = job.flush
    <3>1. \E items, out : job' = [job EXCEPT !.items = items, !.out = out]
      <4>1. CASE BatcherAppend(Head(job.items))
        BY <4>1 DEF BatcherAppend
      <4>2. CASE job' = [job EXCEPT !.items = Tail(job.items)]
        <5>1. job' = [job EXCEPT !.items = Tail(job.items), !.out = job.out]
          BY <4>2, Types
        <5> QED
          BY <5>1
      <4> QED
        BY <1>3, <4>1, <4>2 DEF AppendItem
    <3> QED
      BY <3>1, OtherTypes
  <2>3. job.by = "run" => job.flush
    BY <1>3 DEF AppendItem, SentInv
  <2> QED
    BY <1>1, <2>1, <2>2, <2>3 DEF SentInv
<1>4. CASE FlushBatch
  <2>1. Collected' = Collected /\ UNCHANGED <<dropped, closed, late, agg>> /\ batch' = <<>>
    BY <1>4, FlushBatchOrder DEF FlushBatch
  <2>2. job'.by = job.by /\ job'.items = <<>>
    BY <1>4, OtherTypes DEF FlushBatch
  <2> QED
    BY <1>1, <2>1, <2>2 DEF SentInv
<1>5. CASE Output
  <2>1. /\ Collected' \subseteq Collected /\ UNCHANGED <<closed, late, agg, batch>>
        /\ dropped' \subseteq dropped \union Collected /\ (~closed => dropped' = dropped)
    BY <1>5, OutputOrder DEF Output, batchVars
  <2>2. job'.by = job.by /\ job'.flush = job.flush /\ job'.items = job.items
    BY <1>5, OtherTypes DEF Output
  <2> QED
    BY <1>1, <2>1, <2>2 DEF SentInv
<1>6. CASE Unlock
  <2>1. job'.by # "run" /\ job'.items = <<>> /\ job'.out = <<>>
    BY <1>6 DEF Unlock, Idle
  <2>2. /\ UNCHANGED <<dropped, late, agg, batch>> /\ closed' = (closed \/ job.by = "run")
        /\ job.items = <<>> /\ job.out = <<>> /\ ~job.flush
    BY <1>6 DEF Unlock, Done, batchVars
  <2>3. Collected' = Collected
    BY <2>1, <2>2 DEF Collected
  <2>4. job.by = "run" => Collected = {}
    BY <2>2, MsgsEmpty DEF SentInv, Collected
  <2> QED
    BY <1>1, <2>1, <2>2, <2>3, <2>4 DEF SentInv
<1> QED
  BY <1>2, <1>3, <1>4, <1>5, <1>6 DEF Holder

\* Steps of a runner: what it reads it has in hand until it has sent it.
LEMMA RunnerSent ==
    ASSUME TypeInv, SentInv, NEW r \in Runners, OutputLoop(r)
    PROVE  SentInv'
<1>1. UNCHANGED <<dropped, late, closed, agg, batch, job>>
  BY DEF OutputLoop, Read, Send, LoopEnds, batchVars
<1>2. Collected' = Collected
  BY <1>1 DEF Collected
<1>3. taken' \subseteq sent' \union UNION {MsgsOf(loop'[q]) : q \in Runners}
  <2>1. CASE Read(r)
    <3>1. loop[r] = <<>> /\ loop' = [loop EXCEPT ![r] = Head(ch)] /\ sent' = sent
          /\ taken' = taken \union MsgsOf(Head(ch))
      BY <2>1 DEF Read
    <3>2. loop'[r] = Head(ch) /\ \A q \in Runners : q # r => loop'[q] = loop[q]
      BY <3>1, Types
    <3>3. ASSUME NEW q \in Runners, NEW m \in MsgsOf(loop[q])
          PROVE  m \in MsgsOf(loop'[q])
      BY <3>1, <3>2, <3>3, MsgsEmpty
    <3> QED
      BY <3>1, <3>2, <3>3 DEF SentInv
  <2>2. CASE Send(r)
    <3>1. loop' = [loop EXCEPT ![r] = <<>>] /\ sent' = sent \union MsgsOf(loop[r]) /\ taken' = taken
      BY <2>2 DEF Send
    <3>2. \A q \in Runners : q # r => loop'[q] = loop[q]
      BY <3>1, Types
    <3> QED
      BY <3>1, <3>2 DEF SentInv
  <2>3. CASE LoopEnds(r)
    BY <2>3 DEF LoopEnds, SentInv
  <2> QED
    BY <2>1, <2>2, <2>3 DEF OutputLoop
<1> QED
  BY <1>1, <1>2, <1>3 DEF SentInv

\* Every step keeps it.
LEMMA SentStep ==
    TypeInv /\ BoundInv /\ ControlInv /\ OrderInv /\ SentInv /\ [Next]_vars => SentInv'
<1> SUFFICES ASSUME TypeInv, BoundInv, ControlInv, OrderInv, SentInv, [Next]_vars PROVE SentInv'
  OBVIOUS
<1>1. ASSUME NEW w \in Writers, Write(w) PROVE SentInv'
  <2>1. job'.by # "run" /\ job.items = <<>> /\ job.out = <<>> /\ job'.items = <<>> /\ job'.out = <<>>
    BY <1>1, Constants DEF Write, Idle
  <2>2. UNCHANGED <<dropped, late, closed, agg, batch, taken, sent, loop>>
    BY <1>1 DEF Write, batchVars, outVars
  <2>3. Collected' = Collected
    BY <2>1, <2>2 DEF Collected
  <2> QED
    BY <2>1, <2>2, <2>3 DEF SentInv
<1>2. CASE Tick
  <2>1. Collected' = Collected /\ job'.by # "run"
    BY <1>2, FlushOrder, FlushTypes DEF Tick, outVars
  <2> QED
    BY <1>2, <2>1 DEF Tick, SentInv, outVars
<1>3. CASE Close
  <2>1. Collected' = Collected /\ MsgsOf(agg') = {}
    BY <1>3, FlushOrder DEF Close, outVars
  <2>2. job'.flush
    BY <1>3, FlushTypes DEF Close
  <2> QED
    BY <1>3, <2>1, <2>2 DEF Close, SentInv, outVars
<1>4. CASE Holder
  BY <1>4, HolderSent
<1>5. ASSUME UNCHANGED <<batchVars, job, dropped, late, taken, sent, loop>>, closed' => closed
      PROVE  SentInv'
  <2>1. Collected' = Collected
    BY <1>5 DEF Collected, batchVars
  <2> QED
    BY <1>5, <2>1 DEF SentInv, batchVars
<1>6. CASE BusyWrite \/ Rearm \/ Run \/ RunReturns \/ KernelStops \/ TickerEnds \/ Restart
  BY <1>5, <1>6 DEF BusyWrite, Rearm, Run, RunReturns, KernelStops, TickerEnds, Restart, outVars
<1>7. ASSUME NEW r \in Runners, OutputLoop(r) PROVE SentInv'
  BY <1>7, RunnerSent
<1>8. CASE UNCHANGED vars
  BY <1>5, <1>8 DEF vars, outVars
<1> QED
  BY <1>1, <1>2, <1>3, <1>4, <1>6, <1>7, <1>8 DEF Next

\* When the daemon has stopped there is nothing left in the channel and no runner has
\* anything in hand.
LEMMA StoppedSent ==
    ASSUME TypeInv, ControlInv, OrderInv, SentInv
    PROVE  StoppedMeansSent
<1> SUFFICES ASSUME stopped, NEW m \in 1..issued, m \notin late PROVE m \in sent
  BY DEF StoppedMeansSent
<1>1. closed /\ ch = <<>> /\ loops = {}
  BY DEF ControlInv
<1>2. \A r \in Runners : MsgsOf(loop[r]) = {}
  BY <1>1, MsgsEmpty DEF ControlInv
<1>3. m \notin dropped /\ m \notin Collected /\ m \notin ChanMsgs(ch)
  BY <1>1, ChanEmpty DEF SentInv
<1>4. m \in taken
  BY <1>3 DEF OrderInv, Accounted
<1> QED
  BY <1>2, <1>4 DEF SentInv

\* A daemon that has stopped has passed every message to its output that was written
\* before the channel was closed, for any number of writers, runners and restarts,
\* although writers go on while Run flushes and closes.
THEOREM DaemonSent == Spec => []StoppedMeansSent
<1> DEFINE Inv == TypeInv /\ BoundInv /\ ControlInv /\ OrderInv /\ SentInv
<1>1. Init => Inv
  BY InitTypes, InitBound, InitControl, InitOrder, InitSent
<1>2. Inv /\ [Next]_vars => Inv'
  BY TypesStep, BoundStep, ControlStep, OrderStep, SentStep
<1>3. Inv => StoppedMeansSent
  BY StoppedSent
<1> HIDE DEF Inv
<1> QED
  BY <1>1, <1>2, <1>3, PTL DEF Spec
=============================================================================
