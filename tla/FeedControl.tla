------------------------------ MODULE FeedControl ------------------------------
(***************************************************************************)
(* The list of a page that loads more as one scrolls, as the scenes page   *)
(* implements it (scenes-page.component.ts) and the other lists repeat it. *)
(* One request is in flight at a time.  feedVersion tells whether the list *)
(* was reset since a request was sent; only the comparison matters, so a   *)
(* request is "stale" or not.  loading and loadingMore follow from the     *)
(* request in flight; total is left out.                                   *)
(*                                                                         *)
(* The operators map a list to the list after a step.  A query is what the *)
(* request asks for: the selected filters at the time it is sent.          *)
(***************************************************************************)
EXTENDS Integers, Sequences

CONSTANT NoRequest

NewFeed == [page |-> 0, more |-> TRUE, items |-> <<>>, asked |-> NoRequest,
            reload |-> FALSE, error |-> "none"]

\* loadNextPage, up to the request.  A failed page is shown no more.
LoadNextPage(f, query) ==
  IF f.asked # NoRequest \/ ~f.more THEN f
  ELSE [f EXCEPT !.asked = [query |-> query, page |-> f.page + 1, stale |-> FALSE],
                 !.error = "none"]

\* Fault: the request in flight is taken for one of the new list.
ResetUnversioned(f, query) ==
  LoadNextPage([f EXCEPT !.page = 0, !.more = TRUE, !.items = <<>>, !.error = "none"], query)

\* resetFeedAndReload: the request in flight is left to end, and the list loaded then.
ResetFeedAndReload(f, query) ==
  IF f.asked = NoRequest THEN LoadNextPage(NewFeed, query)
  ELSE [NewFeed EXCEPT !.asked = [f.asked EXCEPT !.stale = TRUE], !.reload = TRUE]

\* finalize: whatever became of the request.
Finalize(f, query, intersecting) ==
  LET idle == [f EXCEPT !.asked = NoRequest]
  IN IF f.asked.stale
     THEN IF f.reload THEN LoadNextPage([idle EXCEPT !.reload = FALSE], query) ELSE idle
     ELSE IF intersecting THEN LoadNextPage(idle, query) ELSE idle

\* next, and then finalize.  The answer names the page that was asked for.
Answered(f, answer, more, query, intersecting) ==
  LET shown == [f EXCEPT !.page = f.asked.page, !.more = more,
                         !.items = IF f.asked.page = 1 THEN answer ELSE @ \o answer]
  IN Finalize(IF f.asked.stale THEN f ELSE shown, query, intersecting)

\* error, and then finalize: with the end of the list in view, a failed request is sent
\* again at once.
Failed(f, query, intersecting) ==
  LET failed == [f EXCEPT !.error = IF f.asked.page = 1 THEN "initial" ELSE "more"]
  IN Finalize(IF f.asked.stale THEN f ELSE failed, query, intersecting)

\* What may be in flight, and NoRequest is not.
RequestsFor(queries) == [query : queries, page : Nat, stale : BOOLEAN]

\* The end of the list is rendered with the items only.
SentinelRendered(f) == f.items # <<>>

FeedOK(f) ==
  /\ f.page \in Nat /\ f.more \in BOOLEAN /\ f.reload \in BOOLEAN
  /\ f.error \in {"none", "initial", "more"}
  /\ f.reload => f.asked # NoRequest
  /\ f.asked # NoRequest => (f.asked.stale <=> f.reload) /\ (f.reload \/ f.asked.page = f.page + 1)
  /\ f.page = 0 => f.items = <<>>
=============================================================================
