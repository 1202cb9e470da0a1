------------------------------- MODULE RunsPage -------------------------------
(***************************************************************************)
(* The page of the executions (scanner-components.tsx ScanRuns): the list  *)
(* and the drawer with one execution, both read by usePolling, and the     *)
(* button that cancels.  A request goes through the proxy to the API and   *)
(* may fail on the way (401 to 504); requests overtake each other, and     *)
(* nothing on the page orders their answers.  Messages about errors and    *)
(* the lengths of the intervals are left out.                              *)
(***************************************************************************)
EXTENDS Naturals, FiniteSets

CONSTANTS
    Executions,
    Initial,    \* the statuses the page may find
    None,
    Slots,      \* bound: a request the timers have in flight takes one of them
    MaxFailures \* bound: requests that fail

Statuses == {"queued", "running", "cancelled", "finished"}

\* The refreshes cancel() sends itself and waits for.
Mine == {"mine_list", "mine_detail"}

ASSUME PageAssumption ==
    /\ None \notin Executions /\ "list" \notin Executions
    /\ Initial \subseteq [Executions -> Statuses]
    /\ Slots \intersect Mine = {}
    /\ MaxFailures \in Nat

VARIABLES
    rows,       \* the executions as the API would answer
    list,       \* executions.data
    detail,     \* detailQuery.data
    selectedId,
    requests,   \* the GETs in flight
    cancelling, \* the flag of the button
    post,       \* what cancel() waits for
    failures

vars == <<rows, list, detail, selectedId, requests, cancelling, post, failures>>

Active == {"queued", "running"}
Rows == [Executions -> [status : Statuses, cancel : BOOLEAN]]
Paths == {"list"} \union Executions
Requests == [path : Paths, answer : Rows \union {None}]
Details == [id : Executions, row : [status : Statuses, cancel : BOOLEAN]]
Posts == [target : Executions, path : Executions \union {None},
          answer : {"none", "accepted", "refused", "refreshing"}]

ASSUME PostAssumption == None \notin Posts

TypeOK ==
    /\ rows \in Rows
    /\ list \in Rows \union {None}
    /\ detail \in Details \union {None}
    /\ selectedId \in Executions \union {None}
    /\ requests \in [Slots \union Mine -> Requests \union {None}]
    /\ cancelling \in BOOLEAN
    /\ post \in Posts \union {None}
    /\ failures \in 0..MaxFailures

Init ==
    /\ \E found \in Initial : rows = [e \in Executions |-> [status |-> found[e], cancel |-> FALSE]]
    /\ list = None
    /\ detail = None
    /\ selectedId = None
    /\ requests = [s \in Slots \union Mine |-> None]
    /\ cancelling = FALSE
    /\ post = None
    /\ failures = 0

\* `selected': the details that were last read, whichever execution they are of, or
\* the row of the list.
Drawer ==
    IF detail # None THEN detail
    ELSE IF selectedId # None THEN [id |-> selectedId, row |-> list[selectedId]]
    ELSE None

----------------------------------------------------------------------------
(* The service.                                                            *)

\* The worker looks at a request to cancel once: see ScanExecutions.
Following(row) ==
    IF row.status = "queued" THEN {"running"}
    ELSE {"finished"} \union (IF row.cancel THEN {"cancelled"} ELSE {})

Advance(e) ==
    /\ rows[e].status \in Active
    /\ \E next \in Following(rows[e]) : rows' = [rows EXCEPT ![e].status = next]
    /\ UNCHANGED <<list, detail, selectedId, requests, cancelling, post, failures>>

Serve(s) ==
    /\ requests[s] # None /\ requests[s].answer = None
    /\ requests' = [requests EXCEPT ![s].answer = rows]
    /\ UNCHANGED <<rows, list, detail, selectedId, cancelling, post, failures>>

AfterCancel(status) == IF status = "queued" THEN "cancelled" ELSE status

\* cancel_execution; 409 for what is settled.
ServeCancel ==
    /\ post # None /\ post.answer = "none"
    /\ LET e == post.target IN
        IF rows[e].status \in Active
        THEN /\ rows' = [rows EXCEPT ![e].cancel = TRUE,
                         ![e].status = AfterCancel(@)]
             /\ post' = [post EXCEPT !.answer = "accepted"]
        ELSE /\ post' = [post EXCEPT !.answer = "refused"]
             /\ UNCHANGED rows
    /\ UNCHANGED <<list, detail, selectedId, requests, cancelling, failures>>

----------------------------------------------------------------------------
(* usePolling.                                                             *)

Get(path) == [path |-> path, answer |-> None]
Free == {s \in Slots : requests[s] = None}

\* A timer fires.  Without a selection the details' path is empty: the request fails
\* and changes nothing but a message nobody shows.
Poll(path) ==
    /\ Free # {}
    /\ path \in {"list", selectedId} \ {None}
    /\ requests' = [requests EXCEPT ![CHOOSE s \in Free : TRUE] = Get(path)]
    /\ UNCHANGED <<rows, list, detail, selectedId, cancelling, post, failures>>

\* Variant: data that is there is not replaced.
FirstOnly(old, new) == IF old = None THEN new ELSE old

SetData(old, new) == new

\* setData with whatever has come; `path' is that of the render that sent the request.
Deliver(s) ==
    /\ requests[s] # None /\ requests[s].answer # None
    /\ requests' = [requests EXCEPT ![s] = None]
    /\ LET q == requests[s] IN
        IF q.path = "list"
        THEN list' = SetData(list, q.answer) /\ UNCHANGED detail
        ELSE /\ detail' = SetData(detail, [id |-> q.path, row |-> q.answer[q.path]])
             /\ UNCHANGED list
    /\ UNCHANGED <<rows, selectedId, cancelling, post, failures>>

\* Data stays as it was.
Fail(s) ==
    /\ requests[s] # None
    /\ failures < MaxFailures
    /\ failures' = failures + 1
    /\ requests' = [requests EXCEPT ![s] = None]
    /\ UNCHANGED <<rows, list, detail, selectedId, cancelling, post>>

----------------------------------------------------------------------------
(* The operator.                                                           *)

\* A click on a row, which an open drawer covers.
Select(e) ==
    /\ list # None
    /\ Drawer = None
    /\ selectedId' = e
    /\ UNCHANGED <<rows, list, detail, requests, cancelling, post, failures>>

Close ==
    /\ Drawer # None
    /\ selectedId # None
    /\ selectedId' = None
    /\ UNCHANGED <<rows, list, detail, requests, cancelling, post, failures>>

Cancel ==
    /\ Drawer # None
    /\ Drawer.row.status \in Active
    /\ ~cancelling /\ ~Drawer.row.cancel
    /\ cancelling' = TRUE
    /\ post' = [target |-> Drawer.id, path |-> selectedId, answer |-> "none"]
    /\ UNCHANGED <<rows, list, detail, selectedId, requests, failures>>

\* Both queries are refreshed, with the paths of the render that was clicked.
Cancelled ==
    /\ post # None /\ post.answer = "accepted"
    /\ post' = [post EXCEPT !.answer = "refreshing"]
    /\ requests' = [requests EXCEPT !["mine_list"] = Get("list"),
                                    !["mine_detail"] = IF post.path = None THEN None ELSE Get(post.path)]
    /\ UNCHANGED <<rows, list, detail, selectedId, cancelling, failures>>

\* Variant: the flag is reset after the refreshes only.
StaysBusy == UNCHANGED cancelling

\* finally
Release == cancelling' = FALSE

CancelFails ==
    /\ post # None
    /\ \/ post.answer = "refused" /\ UNCHANGED failures
       \/ /\ post.answer \in {"none", "accepted"}
          /\ failures < MaxFailures /\ failures' = failures + 1
    /\ post' = None
    /\ Release
    /\ UNCHANGED <<rows, list, detail, selectedId, requests>>

\* Promise.all: a refresh that fails ends too.
Refreshed ==
    /\ post # None /\ post.answer = "refreshing"
    /\ \A s \in Mine : requests[s] = None
    /\ post' = None
    /\ cancelling' = FALSE
    /\ UNCHANGED <<rows, list, detail, selectedId, requests, failures>>

----------------------------------------------------------------------------
Next ==
    \/ \E e \in Executions : Advance(e) \/ Select(e)
    \/ \E path \in Paths : Poll(path)
    \/ \E s \in Slots \union Mine : Serve(s) \/ Deliver(s) \/ Fail(s)
    \/ ServeCancel \/ Cancel \/ Cancelled \/ CancelFails \/ Refreshed
    \/ Close

Spec == Init /\ [][Next]_vars

\* Every request ends, since the proxy gives it thirty seconds, and the timers go on;
\* nothing makes the operator click or the worker work.
Fairness ==
    /\ \A path \in Paths : SF_vars(Poll(path))
    /\ \A s \in Slots \union Mine : WF_vars(Serve(s) \/ Deliver(s))
    /\ WF_vars(ServeCancel) /\ WF_vars(Cancelled \/ CancelFails) /\ WF_vars(Refreshed)

FairSpec == Spec /\ Fairness

----------------------------------------------------------------------------
(* Properties.                                                             *)

Still == <>[][FALSE]_rows

\* However answers overtake each other, the list is shown in the end as it is once
\* nothing changes any more.
ListSettles == Still => <>[](list = rows)

\* So is the execution that stays selected, whatever was selected before.
DrawerSettles ==
    \A e \in Executions :
        Still /\ <>[](selectedId = e) => <>[](Drawer = [id |-> e, row |-> rows[e]])

\* A button that cannot be clicked has a reason: cancel() waits, or the execution in the
\* drawer has been asked to end, however old the answer that says so.
ButtonTellsTruth ==
    Drawer # None /\ (cancelling \/ Drawer.row.cancel) => post # None \/ rows[Drawer.id].cancel

\* The button is given back, whatever becomes of the cancellation.
CancelEnds == cancelling ~> ~cancelling

\* The drawer shows the execution that is selected, and nothing when nothing is.
DrawerIsOfSelection ==
    /\ selectedId = None => Drawer = None
    /\ Drawer # None => Drawer.id = selectedId
=============================================================================
