----------------------------- MODULE QueuePaging -----------------------------
(***************************************************************************)
(* Whisparr's download queue is read page by page (WhisparrAdapter,        *)
(* fetchAllQueueRecords) while downloads are added, finish and change      *)
(* places.                                                                 *)
(***************************************************************************)
EXTENDS Integers, FiniteSets, Sequences, SequencesExt

CONSTANTS
  Downloads,
  Unusable,       \* downloads without a movie, which parseQueueEntry drops
  QueuePageSize,  \* DEFAULT_QUEUE_PAGE_SIZE
  MaxQueuePages,  \* MAX_QUEUE_PAGES
  MaxEvents,
  Null

PagingAssumption ==
  /\ IsFiniteSet(Downloads) /\ Unusable \subseteq Downloads
  /\ QueuePageSize \in Nat \ {0} /\ MaxQueuePages \in Nat \ {0} /\ MaxEvents \in Nat
  /\ Null \notin Nat

VARIABLES
  queue,   \* Whisparr's queue, in the order of its pages
  shape,   \* how this Whisparr answers: with the total, without, or as an array
  read,    \* a call of getQueueSnapshot
  shifted, \* history: since the call, a download left the queue or changed its place
  stayed,  \* history: the downloads in the queue since the call
  events

vars == <<queue, shape, read, shifted, stayed, events>>

Shapes == {"records with total", "records", "array"}

-----------------------------------------------------------------------------
NoRead == [pc |-> "idle", page |-> 1, records |-> <<>>]

Happens == events < MaxEvents /\ events' = events + 1

PageOf(n) ==
  LET end == IF n * QueuePageSize < Len(queue) THEN n * QueuePageSize ELSE Len(queue)
  IN SubSeq(queue, (n - 1) * QueuePageSize + 1, end)

\* extractQueuePage: an array has no total, nor has an answer that leaves it out.
TotalRecords == IF shape = "records with total" THEN Len(queue) ELSE Null

\* Fault: an answer without a total counts as the last one.
LastPageUnlessTotal(records, all, total) ==
  records = <<>> \/ total = Null \/ Len(all) >= total

\* The three ways out of the loop.
LastPage(records, all, total) ==
  \/ records = <<>>
  \/ total # Null /\ Len(all) >= total
  \/ total = Null /\ Len(records) < QueuePageSize

-----------------------------------------------------------------------------
Init ==
  /\ queue = <<>>
  /\ shape \in Shapes
  /\ read = NoRead
  /\ shifted = FALSE
  /\ stayed = {}
  /\ events = 0

GetQueueSnapshot ==
  /\ read.pc = "idle"
  /\ read' = [NoRead EXCEPT !.pc = "page"]
  /\ shifted' = FALSE
  /\ stayed' = ToSet(queue)
  /\ UNCHANGED <<queue, shape, events>>

\* One page is answered; the loop ends at the page limit whatever is left.
ReadQueuePage ==
  LET records == PageOf(read.page)
      all == read.records \o records
      over == LastPage(records, all, TotalRecords)
      limit == read.page = MaxQueuePages
  IN /\ read.pc = "page"
     /\ read' = [pc |-> IF over THEN "complete" ELSE IF limit THEN "cut off" ELSE "page",
                 page |-> IF over \/ limit THEN read.page ELSE read.page + 1,
                 records |-> all]
     /\ UNCHANGED <<queue, shape, shifted, stayed, events>>

\* Whisparr is not reached, answers with an error, or not with JSON of a known shape.
ReadFails ==
  /\ Happens
  /\ read.pc = "page"
  /\ read' = NoRead
  /\ UNCHANGED <<queue, shape, shifted, stayed>>

\* parseQueueEntry.
Snapshot == ToSet(read.records) \ Unusable

ReturnSnapshot ==
  /\ read.pc \in {"complete", "cut off"}
  /\ read' = NoRead
  /\ UNCHANGED <<queue, shape, shifted, stayed, events>>

\* A download is queued anywhere, for the order is by what is left of it...
Enqueue(d, n) ==
  /\ Happens
  /\ d \notin ToSet(queue)
  /\ queue' = InsertAt(queue, n, d)
  /\ UNCHANGED <<shape, read, shifted, stayed>>

\* ...ends...
Dequeue(n) ==
  /\ Happens
  /\ queue' = RemoveAt(queue, n)
  /\ shifted' = TRUE
  /\ stayed' = stayed \ {queue[n]}
  /\ UNCHANGED <<shape, read>>

\* ...or goes faster or slower than its neighbour.
Overtake(n) ==
  /\ Happens
  /\ n + 1 \in DOMAIN queue
  /\ queue' = [queue EXCEPT ![n] = queue[n + 1], ![n + 1] = queue[n]]
  /\ shifted' = TRUE
  /\ UNCHANGED <<shape, read, stayed>>

Next ==
  \/ GetQueueSnapshot
  \/ ReadQueuePage
  \/ ReadFails
  \/ ReturnSnapshot
  \/ \E d \in Downloads : \E n \in 1..(Len(queue) + 1) : Enqueue(d, n)
  \/ \E n \in DOMAIN queue : Dequeue(n) \/ Overtake(n)

-----------------------------------------------------------------------------
TypeOK ==
  /\ queue \in SeqOf(Downloads, Cardinality(Downloads)) /\ IsInjective(queue)
  /\ shape \in Shapes
  /\ read.pc \in {"idle", "page", "complete", "cut off"}
  /\ read.page \in 1..MaxQueuePages
  /\ read.records \in Seq(Downloads)
  /\ shifted \in BOOLEAN /\ stayed \subseteq Downloads

\* A download that is in the queue during the whole call is in the snapshot, even while
\* others are queued before it: it is missed only when one left the queue or changed
\* places meanwhile, or at the page limit.
StayingDownloadsRead ==
  read.pc = "complete" /\ ~shifted => stayed \ Unusable \subseteq Snapshot
=============================================================================
