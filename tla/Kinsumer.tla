------------------------------ MODULE Kinsumer ------------------------------
(***************************************************************************)
(* A group of kinsumers on one Kinesis stream (pkg/cloud/aws/kinesis,       *)
(* kinsumer.go and the client registration of metadata_repository.go).      *)
(* There is no leader: every client registers itself, counts the clients,   *)
(* lists the shards, and starts a reader for each shard that falls to its   *)
(* place in the count.                                                     *)
(*                                                                         *)
(* Client and shard ids are numbers, so that the order the code sorts them  *)
(* in is <.  A reader is what ShardReader shows of it: it acquires a shard  *)
(* nobody owns, finishes it, or gives it back when its context is done.     *)
(***************************************************************************)
EXTENDS Integers, FiniteSets

CONSTANTS
    Clients,         \* the ids of the clients that may join
    Shards,          \* the ids of all shards the stream ever has
    Parent,          \* ParentShardId of each shard, None for a first one
    AdjacentParent,  \* AdjacentParentShardId: the other parent of a merged shard
    None,
    Nobody,          \* the missing owningClientId of a shard
    KeepShardOrder,  \* the setting of that name
    MaxFaults        \* bound: crashes, failing calls, failing readers, lost registrations,
                     \* and reads that are not up to date

ASSUME KinsumerAssumption ==
    /\ Clients \subseteq Nat /\ Shards \subseteq Nat
    /\ IsFiniteSet(Clients) /\ IsFiniteSet(Shards)
    /\ None \notin Shards /\ Nobody \notin Clients
    /\ Parent \in [Shards -> Shards \union {None}]
    /\ AdjacentParent \in [Shards -> Shards \union {None}]
    /\ KeepShardOrder \in BOOLEAN /\ MaxFaults \in Nat

ParentsOf(s) == {Parent[s], AdjacentParent[s]} \ {None}
ChildrenOf(S) == {s \in Shards : ParentsOf(s) = S}

VARIABLES
    listed,    \* the shards ListShards returns
    closed,    \* the shards that were split or merged
    finished,  \* the shards whose checkpoint has a finishedAt
    consumed,  \* the shards that were finished at some time
    owner,     \* owningClientId of each shard
    clients,   \* the client records in the metadata table
    pc,        \* where Run of each client is
    found,     \* what the last RegisterClient returned: place and number of clients
    view,      \* the runtimeContext of each client
    known,     \* the finishedMap of each client
    reading,   \* the shards each client has a running reader for
    asked,     \* those a reader has found free, but not put its owner into yet
    stop,      \* "none", "set" (k.stop is the cancel function), "stopped" (before that),
               \* or "done": the context of the client's goroutines is done
    faults

streamVars == <<listed, closed, finished, consumed>>
readerVars == <<reading, asked>>
clientVars == <<found, view, known>>
vars == <<streamVars, owner, clients, pc, clientVars, readerVars, stop, faults>>

NoCount == [index |-> 0, total |-> 0]
NoView == [index |-> 0, total |-> 0, shards |-> {}]

Init ==
    /\ listed = ChildrenOf({}) /\ closed = {} /\ finished = {} /\ consumed = {}
    /\ owner = [s \in Shards |-> Nobody]
    /\ clients = {}
    /\ pc = [c \in Clients |-> "off"]
    /\ found = [c \in Clients |-> NoCount]
    /\ view = [c \in Clients |-> NoView]
    /\ known = [c \in Clients |-> {}]
    /\ reading = [c \in Clients |-> {}] /\ asked = [c \in Clients |-> {}]
    /\ stop = [c \in Clients |-> "none"]
    /\ faults = 0

Goto(c, label) == pc' = [pc EXCEPT ![c] = label]

Canceled(c) == stop[c] = "done"

\* Run is out of its loop: nobody reads any more what it knew.
Forget(c) ==
    /\ found' = [found EXCEPT ![c] = NoCount]
    /\ view' = [view EXCEPT ![c] = NoView]
    /\ known' = [known EXCEPT ![c] = {}]

ContextEnds(c) == stop' = [stop EXCEPT ![c] = "done"]

Fault == faults < MaxFaults /\ faults' = faults + 1

-----------------------------------------------------------------------------
(* The stream and the metadata table.                                      *)

\* A shard is split, or two are merged: they are closed, their children appear.
Reshard(S) ==
    /\ S # {} /\ S \subseteq listed \ closed /\ ChildrenOf(S) # {}
    /\ closed' = closed \union S /\ listed' = listed \union ChildrenOf(S)
    /\ UNCHANGED <<finished, consumed, owner, clients, pc, clientVars, readerVars, stop, faults>>

\* The records of a closed shard are past their retention.
Trim(s) ==
    /\ s \in closed \intersect listed
    /\ listed' = listed \ {s}
    /\ UNCHANGED <<closed, finished, consumed, owner, clients, pc, clientVars, readerVars, stop, faults>>

\* The ttl of a client record ends: the client is gone, or (a fault) it has spent all
\* the time on the call after the PutItem, or on waiting for its readers.
ClientExpires(c) ==
    /\ c \in clients /\ clients' = clients \ {c}
    /\ \/ pc[c] = "ended" /\ UNCHANGED faults
       \/ pc[c] \in {"query", "restart"} /\ Fault
    /\ UNCHANGED <<streamVars, owner, pc, clientVars, readerVars, stop>>

\* checkpointTimeout: the owner of a shard no longer has a reader for it.
OwnerExpires(s) ==
    /\ owner[s] # Nobody /\ s \notin reading[owner[s]]
    /\ owner' = [owner EXCEPT ![s] = Nobody]
    /\ UNCHANGED <<streamVars, clients, pc, clientVars, readerVars, stop, faults>>

-----------------------------------------------------------------------------
(* refreshShards.                                                          *)

\* Before Run has set its stop function.
Starting(c) == view[c].total = 0

\* Run starts, or its discoverTicker fires.
Refreshes(c) == pc[c] \in {"off", "run"} /\ ~Canceled(c)

\* RegisterClient: the PutItem of the own record.
Register(c) ==
    /\ Refreshes(c)
    /\ clients' = clients \union {c}
    /\ Goto(c, "query")
    /\ UNCHANGED <<streamVars, owner, clientVars, readerVars, stop, faults>>

\* The place of x in S when S is sorted, from 0 on.
Place(x, S) == Cardinality({y \in S : y < x})

\* RegisterClient: the consistent Query; the record may have expired in between.
CountClients(c) ==
    /\ pc[c] = "query" /\ ~Canceled(c)
    /\ IF c \in clients
       THEN /\ found' = [found EXCEPT ![c] = [index |-> Place(c, clients),
                                              total |-> Cardinality(clients)]]
            /\ Goto(c, "list") /\ UNCHANGED <<view, known>>
       ELSE Goto(c, "leave") /\ Forget(c)
    /\ UNCHANGED <<streamVars, owner, clients, readerVars, stop, faults>>

\* Mutant: the parent of a shard only has to be listed.
SelectAnyOrder(seen) ==
    {s \in listed \ seen : Parent[s] \in listed \union {None} \/ ~KeepShardOrder}

\* Mutant: a parent has to be finished, also one that is not listed any more.
SelectAfterFinished(seen) ==
    {s \in listed \ seen : Parent[s] \in seen \union {None} \/ ~KeepShardOrder}

\* getSortedShardIds: a parent that is not listed counts as none.
SelectShards(seen) ==
    {s \in listed \ seen :
        Parent[s] \notin listed \/ Parent[s] \in seen \/ ~KeepShardOrder}

\* refreshShards: place, number of clients or some shard is not the same as before.
Changed(c, new) == new # view[c]

\* Mutant: a Stop that came too early is known, but nothing is canceled.
SetStopOnly(c) == stop' = [stop EXCEPT ![c] = IF @ = "stopped" THEN @ ELSE "set"]

\* setStop: Stop may have been called already.
SetStop(c) == stop' = [stop EXCEPT ![c] = IF @ = "stopped" THEN "done" ELSE "set"]

\* What IsShardFinished reads for the shards, without WithConsistentRead: it may miss a
\* finishedAt, or show one that was overwritten since.
Reads(seen) == \/ seen = finished /\ UNCHANGED faults
               \/ seen # finished /\ Fault

\* listShardIds, and what refreshShards makes of the result.  (The shards are listed
\* before it is read which are finished; as a shard stays consumed this is one step.)
\* The first time Run sets its stop function and goes on in any case.
ListShards(c) ==
    /\ pc[c] = "list" /\ ~Canceled(c)
    /\ \E read \in SUBSET consumed :
          LET seen == known[c] \union (listed \intersect read)
              new == [index |-> found[c].index, total |-> found[c].total,
                      shards |-> SelectShards(seen)]
          IN  /\ Reads(read)
              /\ known' = [known EXCEPT ![c] = seen]
              /\ view' = [view EXCEPT ![c] = new]
              /\ Goto(c, IF Changed(c, new) THEN "restart" ELSE "run")
    /\ found' = [found EXCEPT ![c] = NoCount]
    /\ IF Starting(c) THEN SetStop(c) ELSE UNCHANGED stop
    /\ UNCHANGED <<streamVars, owner, clients, readerVars>>

\* A call of refreshShards fails, because of the context or for another reason.
RefreshFails(c) ==
    /\ \/ Refreshes(c) /\ Fault
       \/ pc[c] \in {"query", "list"} /\ IF Canceled(c) THEN UNCHANGED faults ELSE Fault
    /\ Goto(c, "leave") /\ Forget(c)
    /\ UNCHANGED <<streamVars, owner, clients, readerVars, stop>>

-----------------------------------------------------------------------------
(* Run and Stop.                                                           *)

\* Mutant: the stride starts at the first shard whatever the place.
AssignedFromStart(c) ==
    {s \in view[c].shards : Place(s, view[c].shards) % view[c].total = 0}

\* startConsumers: each totalClients-th shard from clientIndex on.
Assigned(c) ==
    {s \in view[c].shards : Place(s, view[c].shards) % view[c].total = view[c].index}

\* The old readers are gone (consumersWaitGroup), the new ones start.
StartConsumers(c) ==
    /\ pc[c] = "restart" /\ reading[c] = {}
    /\ reading' = [reading EXCEPT ![c] = Assigned(c)]
    /\ Goto(c, "run")
    /\ UNCHANGED <<streamVars, owner, clients, clientVars, asked, stop, faults>>

\* The select of the loop finds the context done.
Leave(c) ==
    /\ pc[c] = "run" /\ Canceled(c) /\ Goto(c, "leave") /\ Forget(c)
    /\ UNCHANGED <<streamVars, owner, clients, readerVars, stop, faults>>

\* cfn.Wait, then the deferred DeregisterClient, which may fail.
Deregister(c) ==
    /\ pc[c] = "leave" /\ reading[c] = {}
    /\ \/ clients' = clients \ {c} /\ UNCHANGED faults
       \/ c \in clients /\ Fault /\ UNCHANGED clients
    /\ Goto(c, "ended") /\ ContextEnds(c)
    /\ UNCHANGED <<streamVars, owner, clientVars, readerVars>>

Live(c) == pc[c] # "ended"

Stop(c) ==
    /\ Live(c) /\ stop[c] \in {"none", "set"}
    /\ stop' = [stop EXCEPT ![c] = IF @ = "set" THEN "done" ELSE "stopped"]
    /\ UNCHANGED <<streamVars, owner, clients, pc, clientVars, readerVars, faults>>

\* The context that was passed to Run is done.
Cancel(c) ==
    /\ Live(c) /\ pc[c] # "off" /\ ~Canceled(c)
    /\ ContextEnds(c)
    /\ UNCHANGED <<streamVars, owner, clients, pc, clientVars, readerVars, faults>>

Crash(c) ==
    /\ Live(c) /\ pc[c] # "off" /\ Fault
    /\ Goto(c, "ended") /\ Forget(c) /\ ContextEnds(c)
    /\ reading' = [reading EXCEPT ![c] = {}] /\ asked' = [asked EXCEPT ![c] = {}]
    /\ UNCHANGED <<streamVars, owner, clients>>

-----------------------------------------------------------------------------
(* The reader of a shard, see ShardReader.                                 *)

\* stopConsumers was called, or the context above is done.
ReaderCanceled(c) == Canceled(c) \/ pc[c] \in {"restart", "leave"}

\* The reader of s is not between the two calls of AcquireShard.
Idle(c, s) == s \in reading[c] \ asked[c]

ReaderEnds(c, s) == reading' = [reading EXCEPT ![c] = @ \ {s}] /\ UNCHANGED asked

\* AcquireShard, the consistent GetItem: the shard has no owner and no finishedAt.
GetShard(c, s) ==
    /\ Idle(c, s) /\ owner[s] = Nobody /\ s \notin finished /\ ~ReaderCanceled(c)
    /\ asked' = [asked EXCEPT ![c] = @ \union {s}]
    /\ UNCHANGED <<streamVars, owner, clients, pc, clientVars, reading, stop, faults>>

\* AcquireShard, the PutItem of the whole record, with a context that outlives the
\* reader's: its condition looks at the owner only, so that it may take back a finishedAt.
Acquire(c, s) ==
    /\ s \in asked[c]
    /\ IF owner[s] = Nobody
       THEN /\ owner' = [owner EXCEPT ![s] = c]
            /\ finished' = finished \ {s}
       ELSE UNCHANGED <<owner, finished>>
    /\ asked' = [asked EXCEPT ![c] = @ \ {s}]
    /\ UNCHANGED <<listed, closed, consumed, clients, pc, clientVars, reading, stop, faults>>

\* ErrShardAlreadyFinished
AlreadyFinished(c, s) ==
    /\ Idle(c, s) /\ owner[s] = Nobody /\ s \in finished
    /\ ReaderEnds(c, s)
    /\ UNCHANGED <<streamVars, owner, clients, pc, clientVars, stop, faults>>

\* The last record of a closed shard is handled, the checkpoint persisted and released.
Finish(c, s) ==
    /\ Idle(c, s) /\ owner[s] = c /\ s \in closed
    /\ finished' = finished \union {s} /\ consumed' = consumed \union {s}
    /\ owner' = [owner EXCEPT ![s] = Nobody]
    /\ ReaderEnds(c, s)
    /\ UNCHANGED <<listed, closed, clients, pc, clientVars, stop, faults>>

Release(c, s) ==
    /\ Idle(c, s) /\ ReaderCanceled(c)
    /\ owner' = IF owner[s] = c THEN [owner EXCEPT ![s] = Nobody] ELSE owner
    /\ ReaderEnds(c, s)
    /\ UNCHANGED <<streamVars, clients, pc, clientVars, stop, faults>>

\* A reader returns an error, which kills the coffin; its release may have failed.
ReaderFails(c, s) ==
    /\ s \in reading[c] /\ Fault
    /\ owner' \in {owner, IF owner[s] = c THEN [owner EXCEPT ![s] = Nobody] ELSE owner}
    /\ reading' = [reading EXCEPT ![c] = @ \ {s}] /\ asked' = [asked EXCEPT ![c] = @ \ {s}]
    /\ ContextEnds(c)
    /\ UNCHANGED <<streamVars, clients, pc, clientVars>>

-----------------------------------------------------------------------------
Run(c) ==
    \/ Register(c) \/ CountClients(c) \/ ListShards(c) \/ RefreshFails(c)
    \/ StartConsumers(c) \/ Leave(c) \/ Deregister(c)

Reader(c, s) ==
    \/ GetShard(c, s) \/ Acquire(c, s) \/ AlreadyFinished(c, s)
    \/ Finish(c, s) \/ Release(c, s) \/ ReaderFails(c, s)

Next ==
    \/ \E S \in SUBSET Shards : Reshard(S)
    \/ \E s \in Shards : Trim(s) \/ OwnerExpires(s)
    \/ \E c \in Clients : ClientExpires(c) \/ Run(c) \/ Stop(c) \/ Cancel(c) \/ Crash(c)
    \/ \E c \in Clients, s \in Shards : Reader(c, s)

\* Every client goes on, its ticker fires, and as long as some reader can do something
\* one of them does; records expire.
Fairness ==
    /\ \A c \in Clients : WF_vars(Live(c) /\ pc[c] # "off" /\ Run(c))
    /\ WF_vars(\E c \in Clients : \E s \in reading[c] : Reader(c, s))
    /\ WF_vars(\E c \in clients : ~Live(c) /\ ClientExpires(c))
    /\ WF_vars(\E s \in Shards : OwnerExpires(s))

Spec == Init /\ [][Next]_vars /\ Fairness

-----------------------------------------------------------------------------
(* Properties.                                                             *)

TypeOK ==
    /\ listed \subseteq Shards /\ closed \subseteq Shards
    /\ finished \subseteq consumed /\ consumed \subseteq closed
    /\ owner \in [Shards -> Clients \union {Nobody}]
    /\ clients \subseteq Clients
    /\ pc \in [Clients -> {"off", "query", "list", "restart", "run",
                           "leave", "ended"}]
    /\ found \in [Clients -> [index : Nat, total : Nat]]
    /\ view \in [Clients -> [index : Nat, total : Nat, shards : SUBSET Shards]]
    /\ known \in [Clients -> SUBSET consumed]
    /\ reading \in [Clients -> SUBSET Shards] /\ asked \in [Clients -> SUBSET Shards]
    /\ \A c \in Clients : asked[c] \subseteq reading[c]
    /\ stop \in [Clients -> {"none", "set", "stopped", "done"}]
    /\ faults \in Nat

\* KeepShardOrder: no client reads a shard whose parents are neither consumed nor
\* past their retention, however old the lists are that the clients work with.
ParentFirst ==
    KeepShardOrder =>
        \A s \in Shards : owner[s] # Nobody =>
            \A p \in ParentsOf(s) : p \in consumed \/ p \notin listed

\* The clients have counted each other, have the same list of shards and are at work.
Agree ==
    \A c, d \in clients :
        /\ view[c].index = Cardinality({e \in clients : e < c})
        /\ view[c].total = Cardinality(clients) /\ view[c].shards = view[d].shards
        /\ pc[c] = "run" /\ ~Canceled(c)

\* refreshShards and startConsumers: clients that agree divide what is left of the
\* shards, none is left out and none is read by two of them.
Partition ==
    Agree => \A c \in clients : \A s \in view[c].shards \ consumed :
                Cardinality({d \in clients : s \in reading[d]}) = 1

\* Some client has started, and nobody stops or cancels it.
Working == \E c \in Clients : pc[c] # "off" /\ stop[c] \in {"none", "set"}

\* The finishedAt of p was taken back, and no client reads p again: for those that have
\* p in their list nothing has changed.
Abandoned(p) == p \in (listed \intersect consumed) \ finished /\ \A c \in Clients : p \notin reading[c]

\* As long as there is a client at work every shard gets a reader in the end, and a
\* closed one is consumed, unless its records are gone before; only the children of an
\* abandoned shard may wait forever.
EventuallyServed ==
    <>[]Working => <>[](\A s \in listed \ consumed :
                            \/ owner[s] # Nobody /\ s \notin closed
                            \/ \E p \in ParentsOf(s) : Abandoned(p))

Stopping(c) == pc[c] # "off" /\ Live(c) /\ stop[c] \in {"stopped", "done"}

\* Stop ends Run, also when it comes before Run has registered its stop function, and
\* so does the end of the context: no client is stopping forever.
StopEndsRun == []<>(\A c \in Clients : ~Stopping(c))
=============================================================================
