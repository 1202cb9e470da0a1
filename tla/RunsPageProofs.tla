--------------------------- MODULE RunsPageProofs ---------------------------
(***************************************************************************)
(* The page of the executions, for any number of executions, of requests   *)
(* in flight and of failures: its data keeps its types, whatever overtakes *)
(* what, and no copy of an execution, however old, is ahead of the service *)
(* in saying that it is being cancelled.                                   *)
(***************************************************************************)
EXTENDS RunsPage, TLAPS

----------------------------------------------------------------------------
(* Types.                                                                  *)

\* A row is only open in the drawer, or selected, after the list was read.
Selected == selectedId # None => list # None

TypeInvariant == TypeOK /\ Selected

\* What the drawer shows is an execution and a row of it.
LEMMA DrawerIsTyped ==
    ASSUME TypeInvariant, Drawer # None
    PROVE  Drawer \in Details
<1>1. CASE detail # None
    BY <1>1 DEF Drawer, TypeInvariant, TypeOK
<1>2. CASE detail = None
  <2>1. selectedId \in Executions /\ list \in Rows
    BY <1>2 DEF Drawer, TypeInvariant, TypeOK, Selected
  <2>2. list[selectedId] \in [status : Statuses, cancel : BOOLEAN]
    BY <2>1 DEF Rows
  <2> QED
    BY <1>2, <2>1, <2>2 DEF Drawer, Details
<1> QED
    BY <1>1, <1>2

LEMMA RequestIsTyped ==
    ASSUME TypeOK, NEW s \in Slots \union Mine, NEW q \in Requests \union {None}
    PROVE  [requests EXCEPT ![s] = q] \in [Slots \union Mine -> Requests \union {None}]
BY DEF TypeOK

LEMMA GetIsTyped ==
    ASSUME NEW path \in Paths
    PROVE  Get(path) \in Requests
BY DEF Get, Requests

LEMMA TypesAtStart == Init => TypeInvariant
<1> SUFFICES ASSUME Init PROVE TypeInvariant
    OBVIOUS
<1>1. PICK found \in Initial :
          rows = [e \in Executions |-> [status |-> found[e], cancel |-> FALSE]]
    BY DEF Init
<1>2. found \in [Executions -> Statuses]
    BY PageAssumption
<1>3. rows \in Rows
    BY <1>1, <1>2 DEF Rows
<1>4. requests \in [Slots \union Mine -> Requests \union {None}]
    BY DEF Init
<1>5. failures \in 0..MaxFailures
    BY PageAssumption DEF Init
<1>6. list = None /\ detail = None /\ selectedId = None /\ cancelling = FALSE /\ post = None
    BY DEF Init
<1> QED
    BY <1>3, <1>4, <1>5, <1>6 DEF TypeInvariant, TypeOK, Selected

LEMMA TypesKept == TypeInvariant /\ [Next]_vars => TypeInvariant'
<1> SUFFICES ASSUME TypeInvariant, [Next]_vars PROVE TypeInvariant'
    OBVIOUS
<1> USE DEF TypeInvariant, Selected
<1>1. ASSUME NEW e \in Executions, Advance(e) PROVE TypeInvariant'
  <2>1. rows' \in Rows
    <3>1. rows \in Rows
      BY DEF TypeOK
    <3>2. rows[e] \in [status : Statuses, cancel : BOOLEAN]
      BY <3>1 DEF Rows
    <3>3. PICK next \in Following(rows[e]) : rows' = [rows EXCEPT ![e].status = next]
      BY <1>1 DEF Advance
    <3>6. next \in Statuses
      BY DEF Following, Statuses
    <3>4. rows' = [rows EXCEPT ![e] = [rows[e] EXCEPT !.status = next]]
      BY <3>1, <3>2, <3>3 DEF Rows
    <3>5. [rows[e] EXCEPT !.status = next] \in [status : Statuses, cancel : BOOLEAN]
      BY <3>2, <3>6
    <3> QED
      BY <3>1, <3>4, <3>5 DEF Rows
  <2> QED
    BY <1>1, <2>1 DEF Advance, TypeOK
<1>2. ASSUME NEW e \in Executions, Select(e) PROVE TypeInvariant'
    BY <1>2 DEF Select, TypeOK
<1>3. ASSUME NEW path \in Paths, Poll(path) PROVE TypeInvariant'
  <2>1. (CHOOSE s \in Free : TRUE) \in Slots
    BY <1>3 DEF Poll, Free
  <2>2. requests' \in [Slots \union Mine -> Requests \union {None}]
    BY <1>3, <2>1, RequestIsTyped, GetIsTyped DEF Poll
  <2> QED
    BY <1>3, <2>2 DEF Poll, TypeOK
<1>4. ASSUME NEW s \in Slots \union Mine, Serve(s) PROVE TypeInvariant'
  <2>1. requests[s] \in Requests /\ rows \in Rows
    BY <1>4 DEF Serve, TypeOK
  <2>2. [requests[s] EXCEPT !.answer = rows] \in Requests
    BY <2>1 DEF Requests
  <2>3. requests' = [requests EXCEPT ![s] = [requests[s] EXCEPT !.answer = rows]]
    BY <1>4 DEF Serve, TypeOK
  <2>4. requests' \in [Slots \union Mine -> Requests \union {None}]
    BY <2>2, <2>3, RequestIsTyped
  <2> QED
    BY <1>4, <2>4 DEF Serve, TypeOK
<1>5. ASSUME NEW s \in Slots \union Mine, Deliver(s) PROVE TypeInvariant'
  <2> DEFINE q == requests[s]
  <2>1. q \in Requests /\ q.answer # None
    BY <1>5 DEF Deliver, TypeOK
  <2>2. q.path \in Paths /\ q.answer \in Rows
    BY <2>1 DEF Requests
  <2>3. requests' \in [Slots \union Mine -> Requests \union {None}]
    BY <1>5, RequestIsTyped DEF Deliver
  <2>4. CASE q.path = "list"
    <3>1. list' = q.answer /\ detail' = detail
      BY <1>5, <2>4 DEF Deliver, SetData
    <3>2. list' \in Rows /\ list' # None
      BY <2>1, <2>2, <3>1
    <3> QED
      BY <1>5, <2>3, <3>1, <3>2 DEF Deliver, TypeOK
  <2>5. CASE q.path # "list"
    <3>1. detail' = [id |-> q.path, row |-> q.answer[q.path]] /\ list' = list
      BY <1>5, <2>5 DEF Deliver, SetData
    <3>2. q.path \in Executions
      BY <2>2, <2>5 DEF Paths
    <3>3. q.answer[q.path] \in [status : Statuses, cancel : BOOLEAN]
      BY <2>2, <3>2 DEF Rows
    <3>4. detail' \in Details
      BY <3>1, <3>2, <3>3 DEF Details
    <3> QED
      BY <1>5, <2>3, <3>1, <3>4 DEF Deliver, TypeOK
  <2> QED
    BY <2>4, <2>5
<1>6. ASSUME NEW s \in Slots \union Mine, Fail(s) PROVE TypeInvariant'
  <2>1. requests' \in [Slots \union Mine -> Requests \union {None}]
    BY <1>6, RequestIsTyped DEF Fail
  <2>2. failures' \in 0..MaxFailures
    BY <1>6, PageAssumption DEF Fail, TypeOK
  <2> QED
    BY <1>6, <2>1, <2>2 DEF Fail, TypeOK
<1>7. CASE ServeCancel
  <2>1. post \in Posts /\ post.target \in Executions
    BY <1>7 DEF ServeCancel, TypeOK, Posts
  <2> DEFINE e == post.target
  <2>2. CASE rows[e].status \in Active
    <3>1. rows \in Rows /\ rows[e] \in [status : Statuses, cancel : BOOLEAN]
      BY <2>1 DEF TypeOK, Rows
    <3> DEFINE next == AfterCancel(rows[e].status)
    <3>2. next \in Statuses
      BY <3>1 DEF AfterCancel, Statuses
    <3>3. rows' = [rows EXCEPT ![e] = [status |-> next, cancel |-> TRUE]]
      BY <1>7, <2>1, <2>2, <3>1 DEF ServeCancel, Rows
    <3>4. rows' \in Rows
      BY <2>1, <3>1, <3>2, <3>3 DEF Rows
    <3>5. post' \in Posts
      BY <1>7, <2>1, <2>2 DEF ServeCancel, Posts
    <3> QED
      BY <1>7, <3>4, <3>5 DEF ServeCancel, TypeOK
  <2>3. CASE rows[e].status \notin Active
    <3>1. post' \in Posts /\ rows' = rows
      BY <1>7, <2>1, <2>3 DEF ServeCancel, Posts
    <3> QED
      BY <1>7, <3>1 DEF ServeCancel, TypeOK
  <2> QED
    BY <2>2, <2>3
<1>8. CASE Cancel
  <2>1. Drawer \in Details
    BY <1>8, DrawerIsTyped DEF Cancel
  <2>2. post' \in Posts
    BY <1>8, <2>1 DEF Cancel, Details, Posts, TypeOK
  <2> QED
    BY <1>8, <2>2 DEF Cancel, TypeOK
<1>9. CASE Cancelled
  <2>1. post \in Posts
    BY <1>9 DEF Cancelled, TypeOK
  <2>2. post' \in Posts
    BY <1>9, <2>1 DEF Cancelled, Posts
  <2> DEFINE first == [requests EXCEPT !["mine_list"] = Get("list")]
             mine == IF post.path = None THEN None ELSE Get(post.path)
  <2>3. mine \in Requests \union {None} /\ Get("list") \in Requests
    BY <2>1, GetIsTyped DEF Posts, Paths
  <2>4. first \in [Slots \union Mine -> Requests \union {None}]
    BY <2>3 DEF Mine, TypeOK
  <2>5. requests' = [first EXCEPT !["mine_detail"] = mine]
    BY <1>9 DEF Cancelled
  <2>6. requests' \in [Slots \union Mine -> Requests \union {None}]
    <3> HIDE DEF first, mine
    <3> QED
      BY <2>3, <2>4, <2>5 DEF Mine
  <2> QED
    BY <1>9, <2>2, <2>6 DEF Cancelled, TypeOK
<1>10. CASE CancelFails
  <2>1. failures' \in 0..MaxFailures
    <3>1. failures' = failures \/ (failures < MaxFailures /\ failures' = failures + 1)
      BY <1>10 DEF CancelFails
    <3>2. failures \in 0..MaxFailures
      BY DEF TypeOK
    <3> QED
      BY <3>1, <3>2, PageAssumption
  <2>2. post' = None /\ cancelling' = FALSE /\ UNCHANGED <<rows, list, detail, selectedId, requests>>
    BY <1>10 DEF CancelFails, Release
  <2> QED
    BY <2>1, <2>2 DEF TypeOK
<1>11. CASE Refreshed
    BY <1>11 DEF Refreshed, TypeOK
<1>12. CASE Close
    BY <1>12 DEF Close, TypeOK
<1>13. CASE UNCHANGED vars
    BY <1>13 DEF vars, TypeOK
<1> QED
    BY <1>1, <1>2, <1>3, <1>4, <1>5, <1>6, <1>7, <1>8, <1>9, <1>10, <1>11, <1>12, <1>13 DEF Next

LEMMA TypesAlways == Spec => []TypeInvariant
BY TypesAtStart, TypesKept, PTL DEF Spec

\* For any number of executions, of timers' requests and of failures, the data of the page and
\* of the service keep their types.
THEOREM TypeCorrect == Spec => []TypeOK
<1>1. TypeInvariant => TypeOK
    BY DEF TypeInvariant
<1> QED
    BY <1>1, TypesAlways, PTL

----------------------------------------------------------------------------
(* The button.                                                             *)

\* A copy of the rows is not ahead of the service.
Behind(copy) == \A e \in Executions : copy[e].cancel => rows[e].cancel

NothingAhead ==
    /\ list # None => Behind(list)
    /\ detail # None /\ detail.row.cancel => rows[detail.id].cancel
    /\ \A s \in Slots \union Mine :
          requests[s] # None /\ requests[s].answer # None => Behind(requests[s].answer)

WaitsWhileBusy == cancelling => post # None

\* A request to cancel is never taken back.
LEMMA RequestStays ==
    ASSUME TypeInvariant, [Next]_vars, NEW d \in Executions, rows[d].cancel
    PROVE  rows'[d].cancel
<1> rows \in Rows /\ rows[d] \in [status : Statuses, cancel : BOOLEAN]
    BY DEF TypeInvariant, TypeOK, Rows
<1>1. ASSUME NEW e \in Executions, Advance(e) PROVE rows'[d].cancel
  <2>1. PICK next \in Following(rows[e]) : rows' = [rows EXCEPT ![e].status = next]
    BY <1>1 DEF Advance
  <2>2. CASE d = e
    <3>1. rows'[d] = [rows[d] EXCEPT !.status = next]
      BY <2>1, <2>2 DEF Rows
    <3> QED
      BY <3>1
  <2>3. CASE d # e
    BY <2>1, <2>3 DEF Rows
  <2> QED
    BY <2>2, <2>3
<1>2. CASE ServeCancel
  <2>1. rows' = rows \/ rows' = [rows EXCEPT ![post.target].cancel = TRUE,
                                            ![post.target].status = AfterCancel(@)]
    BY <1>2 DEF ServeCancel
  <2>2. CASE rows' # rows /\ d = post.target
    <3>1. rows'[d].cancel = TRUE
      BY <2>1, <2>2 DEF Rows
    <3> QED
      BY <3>1
  <2>3. CASE rows' # rows /\ d # post.target
    BY <2>1, <2>3 DEF Rows
  <2> QED
    BY <2>2, <2>3
<1>3. CASE UNCHANGED rows
    BY <1>3
<1> QED
    BY <1>1, <1>2, <1>3 DEF Next, vars, Select, Poll, Serve, Deliver, Fail, Cancel, Cancelled,
           CancelFails, Refreshed, Close

LEMMA BehindStays ==
    ASSUME TypeInvariant, [Next]_vars, NEW copy, Behind(copy)
    PROVE  \A e \in Executions : copy[e].cancel => rows'[e].cancel
BY RequestStays DEF Behind

\* Requests that are sent are not answered yet.
LEMMA AnswersAreOld ==
    ASSUME TypeInvariant, [Next]_vars, NEW s \in Slots \union Mine,
           requests'[s] # None, requests'[s].answer # None
    PROVE  \/ requests[s] # None /\ requests'[s].answer = requests[s].answer
           \/ requests'[s].answer = rows
<1> requests \in [Slots \union Mine -> Requests \union {None}]
    BY DEF TypeInvariant, TypeOK
<1>1. ASSUME NEW path \in Paths, Poll(path)
      PROVE  requests[s] # None /\ requests'[s].answer = requests[s].answer
  <2> DEFINE free == CHOOSE t \in Free : TRUE
  <2>1. requests' = [requests EXCEPT ![free] = Get(path)]
    BY <1>1 DEF Poll
  <2> HIDE DEF free
  <2>2. s # free
    BY <2>1 DEF Get
  <2> QED
    BY <2>1, <2>2
<1>2. ASSUME NEW t \in Slots \union Mine, Serve(t)
      PROVE  \/ requests[s] # None /\ requests'[s].answer = requests[s].answer
             \/ requests'[s].answer = rows
  <2>1. requests[t] \in Requests
    BY <1>2 DEF Serve
  <2>2. requests' = [requests EXCEPT ![t] = [requests[t] EXCEPT !.answer = rows]]
    BY <1>2 DEF Serve
  <2>3. CASE s = t
    BY <2>1, <2>2, <2>3 DEF Requests
  <2>4. CASE s # t
    BY <2>2, <2>4
  <2> QED
    BY <2>3, <2>4
<1>3. ASSUME NEW t \in Slots \union Mine, Deliver(t) \/ Fail(t)
      PROVE  requests[s] # None /\ requests'[s].answer = requests[s].answer
    BY <1>3 DEF Deliver, Fail
<1>4. CASE Cancelled
  <2> DEFINE first == [requests EXCEPT !["mine_list"] = Get("list")]
             mine == IF post.path = None THEN None ELSE Get(post.path)
  <2>1. requests' = [first EXCEPT !["mine_detail"] = mine]
    BY <1>4 DEF Cancelled
  <2>2. mine = None \/ mine.answer = None
    BY DEF Get
  <2>3. Get("list").answer = None
    BY DEF Get
  <2>4. first[s] = requests[s] \/ first[s] = Get("list")
    OBVIOUS
  <2>5. requests'[s] = first[s] \/ requests'[s] = mine
    <3> HIDE DEF first, mine
    <3>1. DOMAIN first = Slots \union Mine
      BY DEF first
    <3> QED
      BY <2>1, <3>1
  <2> HIDE DEF first, mine
  <2> QED
    BY <2>2, <2>3, <2>4, <2>5
<1>5. CASE UNCHANGED requests
    BY <1>5
<1> QED
    BY <1>1, <1>2, <1>3, <1>4, <1>5 DEF Next, vars, Advance, Select, ServeCancel, Cancel,
           CancelFails, Refreshed, Close

\* What the list and the drawer are set to was answered before.
LEMMA AheadStep == TypeInvariant /\ NothingAhead /\ [Next]_vars => NothingAhead'
<1> SUFFICES ASSUME TypeInvariant, NothingAhead, [Next]_vars PROVE NothingAhead'
    OBVIOUS
<1>1. ASSUME NEW s \in Slots \union Mine, requests'[s] # None, requests'[s].answer # None
      PROVE  \A e \in Executions : requests'[s].answer[e].cancel => rows'[e].cancel
  <2>1. Behind(rows)
    BY DEF Behind
  <2>2. Behind(requests'[s].answer)
    BY <1>1, <2>1, AnswersAreOld DEF NothingAhead
  <2> QED
    BY <2>2, BehindStays
<1>2. CASE UNCHANGED <<list, detail>>
  <2>1. list # None => \A e \in Executions : list[e].cancel => rows'[e].cancel
    BY BehindStays DEF NothingAhead
  <2>2. detail # None /\ detail.row.cancel => rows'[detail.id].cancel
    BY RequestStays DEF NothingAhead, TypeInvariant, TypeOK, Details
  <2> QED
    BY <1>1, <1>2, <2>1, <2>2 DEF NothingAhead, Behind
<1>3. ASSUME NEW s \in Slots \union Mine, Deliver(s) PROVE NothingAhead'
  <2> DEFINE q == requests[s]
  <2>1. q \in Requests /\ q.answer # None /\ q.path \in Paths
    BY <1>3 DEF Deliver, TypeInvariant, TypeOK, Requests
  <2>2. \A e \in Executions : q.answer[e].cancel => rows'[e].cancel
    BY <1>3, <2>1, BehindStays DEF Deliver, NothingAhead
  <2>3. CASE q.path = "list"
    <3>1. list' = q.answer /\ detail' = detail
      BY <1>3, <2>3 DEF Deliver, SetData
    <3>2. detail # None /\ detail.row.cancel => rows'[detail.id].cancel
      BY RequestStays DEF NothingAhead, TypeInvariant, TypeOK, Details
    <3> QED
      BY <1>1, <2>2, <3>1, <3>2 DEF NothingAhead, Behind
  <2>4. CASE q.path # "list"
    <3>1. detail' = [id |-> q.path, row |-> q.answer[q.path]] /\ list' = list
      BY <1>3, <2>4 DEF Deliver, SetData
    <3>2. q.path \in Executions
      BY <2>1, <2>4 DEF Paths
    <3>3. list # None => \A e \in Executions : list[e].cancel => rows'[e].cancel
      BY BehindStays DEF NothingAhead
    <3>4. detail'.row.cancel => rows'[detail'.id].cancel
      BY <2>2, <3>1, <3>2
    <3> QED
      BY <1>1, <3>1, <3>3, <3>4 DEF NothingAhead, Behind
  <2> QED
    BY <2>3, <2>4
<1> QED
    BY <1>2, <1>3 DEF Next, vars, Advance, Select, Poll, Serve, Fail, ServeCancel, Cancel,
           Cancelled, CancelFails, Refreshed, Close

LEMMA BusyStep == TypeInvariant /\ WaitsWhileBusy /\ [Next]_vars => WaitsWhileBusy'
<1> SUFFICES ASSUME TypeInvariant, WaitsWhileBusy, [Next]_vars PROVE WaitsWhileBusy'
    OBVIOUS
<1>1. CASE ServeCancel \/ Cancelled
  <2>1. post \in Posts /\ cancelling' = cancelling
    BY <1>1 DEF ServeCancel, Cancelled, TypeInvariant, TypeOK
  <2>2. post' \in Posts
    BY <1>1, <2>1 DEF ServeCancel, Cancelled, Posts
  <2> QED
    BY <2>2, PostAssumption DEF WaitsWhileBusy
<1>2. CASE Cancel
  <2>1. Drawer \in Details
    BY <1>2, DrawerIsTyped DEF Cancel
  <2>2. post' \in Posts
    BY <1>2, <2>1 DEF Cancel, Details, Posts, TypeInvariant, TypeOK
  <2> QED
    BY <2>2, PostAssumption DEF WaitsWhileBusy
<1>3. CASE CancelFails \/ Refreshed
    BY <1>3 DEF CancelFails, Release, Refreshed, WaitsWhileBusy
<1>4. CASE UNCHANGED <<cancelling, post>>
    BY <1>4 DEF WaitsWhileBusy
<1> QED
    BY <1>1, <1>2, <1>3, <1>4 DEF Next, vars, Advance, Select, Poll, Serve, Deliver, Fail, Close

\* However answers overtake each other and whichever fail: a button that cannot be clicked
\* belongs to a cancel() that waits or to an execution that has been asked to end.
THEOREM ButtonIsTrue == Spec => []ButtonTellsTruth
<1>1. Init => NothingAhead /\ WaitsWhileBusy
    BY DEF Init, NothingAhead, WaitsWhileBusy
<1>2. TypeInvariant /\ NothingAhead /\ WaitsWhileBusy => ButtonTellsTruth
  <2> SUFFICES ASSUME TypeInvariant, NothingAhead, WaitsWhileBusy, Drawer # None,
                      cancelling \/ Drawer.row.cancel
               PROVE  post # None \/ rows[Drawer.id].cancel
    BY DEF ButtonTellsTruth
  <2>1. CASE cancelling
    BY <2>1 DEF WaitsWhileBusy
  <2>2. CASE Drawer.row.cancel /\ detail # None
    BY <2>2 DEF Drawer, NothingAhead
  <2>3. CASE Drawer.row.cancel /\ detail = None
    <3>1. Drawer = [id |-> selectedId, row |-> list[selectedId]] /\ selectedId # None
      BY <2>3 DEF Drawer
    <3>2. list # None /\ selectedId \in Executions
      BY <3>1 DEF TypeInvariant, TypeOK, Selected
    <3> QED
      BY <2>3, <3>1, <3>2 DEF NothingAhead, Behind
  <2> QED
    BY <2>1, <2>2, <2>3
<1> QED
    BY <1>1, <1>2, TypesAlways, AheadStep, BusyStep, PTL DEF Spec
=============================================================================
