------------------------------ MODULE SourceViewer ------------------------------
(***************************************************************************)
(* The loopback viewer of retained sources                                 *)
(* (src/src/ao_lore/source_viewer/server.py).  A launch code starts one    *)
(* session; in it evidence is resolved to an open handle, and pages, texts *)
(* and originals are opened by handle, while an approval is in force.      *)
(*                                                                         *)
(* Requests run in threads, at most as many as there are slots.  What a    *)
(* request does under the lock is one step; between two steps others log   *)
(* out, time passes, and the approval ends.                                *)
(***************************************************************************)
EXTENDS Integers, Sequences, FiniteSets, Functions

CONSTANTS
    Slot,           \* BoundedLoopbackServer.slots
    LaunchLife,     \* lives of the launch code, the session and a handle
    SessionLife,
    HandleLife,
    MaxHandles,     \* handles that may be open at once
    MaxFailed,      \* failed logins after which no login succeeds
    MaxIssued,      \* bound: handles issued
    MaxNow,         \* bound: the clock
    None            \* no value

VARIABLES
    approved,       \* the approval is there, unexpired, and binds what is there
    launched,       \* launch_used
    failed,         \* failed_logins, as far as it matters
    session,        \* the deadline of the session
    handles,        \* the deadline of each handle
    issued,         \* how many handles there ever were
    requests,       \* the request of each slot
    now             \* the timer

state == <<approved, launched, failed, session, handles, issued>>
vars == <<state, requests, now>>

ASSUME ViewerConstants ==
    {LaunchLife, SessionLife, HandleLife, MaxHandles, MaxFailed, MaxIssued, MaxNow} \subseteq Nat

-----------------------------------------------------------------------------
(* Values. *)

\* What a request does, step by step, once its route is known.  Every route but the
\* login begins with authenticate; "read" reads the source, and renders or projects it.
Live == <<"check", "authorize">>
Script ==
    [login |-> <<"authorize", "login">>,
     cards |-> Live \o Live \o <<"authorize">>,
     resolve |-> Live \o Live \o <<"authorize", "authorize", "read">> \o Live \o <<"issue">>,
     page |-> Live \o Live \o <<"open", "authorize", "read">> \o Live,
     original |-> Live \o Live \o Live \o <<"open", "authorize", "read">>,
     logout |-> Live \o <<"logout">>]
Routes == DOMAIN Script
Opening == {"page", "original"}
Displaying == {"resolve", "page"}
Steps == {"check", "authorize", "login", "open", "read", "issue", "logout"}

ASSUME NoneIsNoValue == None \notin Nat \cup Routes

\* A request: the steps it has before it answers, the handle it opens, and whether
\* the approval or the session had ended when what it shows was read.
Free == [route |-> None, todo |-> <<>>, handle |-> None, late |-> FALSE]

SessionLive == session # None /\ now < session

\* _purge: the sessions, then the handles.
PurgedSession == IF SessionLive THEN session ELSE None
PurgedHandles ==
    IF SessionLive THEN Restrict(handles, {h \in DOMAIN handles : now < handles[h]}) ELSE <<>>

-----------------------------------------------------------------------------
(* Steps of a request. *)

Init ==
    /\ approved = TRUE /\ launched = FALSE /\ failed = 0
    /\ session = None /\ handles = <<>> /\ issued = 0
    /\ requests = [t \in Slot |-> Free] /\ now = 0

\* Fault: the handle of a page is not read from its path.
ArriveUnbound(t, route, h) ==
    /\ requests[t] = Free
    /\ requests' = [requests EXCEPT ![t] = [Free EXCEPT !.route = route, !.todo = Script[route]]]
    /\ UNCHANGED <<state, now>>

\* A connection gets a slot; a handle is one that was issued, whoever presents it.
Arrive(t, route, h) ==
    /\ requests[t] = Free
    /\ h # None <=> route \in Opening
    /\ requests' = [requests EXCEPT
           ![t] = [Free EXCEPT !.route = route, !.todo = Script[route], !.handle = h]]
    /\ UNCHANGED <<state, now>>

AtStep(t, step) == requests[t].todo # <<>> /\ Head(requests[t].todo) = step
Proceed(t) == requests' = [requests EXCEPT ![t].todo = Tail(@)]
\* ViewerError, or any other exception: the slot is released.
Refuse(t) == requests' = [requests EXCEPT ![t] = Free]

Purge == session' = PurgedSession /\ handles' = PurgedHandles

\* Fault: the purge is taken for the check.
CheckPurges(t) ==
    /\ AtStep(t, "check")
    /\ Purge /\ Proceed(t)
    /\ UNCHANGED <<approved, launched, failed, issued, now>>

\* authenticate and _session_live.
Check(t) ==
    /\ AtStep(t, "check")
    /\ Purge
    /\ IF SessionLive THEN Proceed(t) ELSE Refuse(t)
    /\ UNCHANGED <<approved, launched, failed, issued, now>>

\* store.authorize, outside the lock.
Authorize(t) ==
    /\ AtStep(t, "authorize")
    /\ IF approved THEN Proceed(t) ELSE Refuse(t)
    /\ UNCHANGED <<state, now>>

Login(t, good) ==
    /\ AtStep(t, "login")
    /\ IF good /\ ~ launched /\ now < LaunchLife /\ failed < MaxFailed
       THEN /\ session' = now + SessionLife /\ launched' = TRUE
            /\ Proceed(t) /\ UNCHANGED failed
       ELSE /\ failed' = IF failed < MaxFailed THEN failed + 1 ELSE failed
            /\ Refuse(t) /\ UNCHANGED <<session, launched>>
    /\ UNCHANGED <<approved, handles, issued, now>>

\* The source has changed, its format is bad, rendering fails or takes too long; or
\* it is there.
Read(t) ==
    /\ AtStep(t, "read")
    /\ \/ Refuse(t)
       \/ requests' = [requests EXCEPT ![t].todo = Tail(@),
                                       ![t].late = ~ (approved /\ SessionLive)]
    /\ UNCHANGED <<state, now>>

Open(t) ==
    /\ AtStep(t, "open")
    /\ Purge
    /\ IF requests[t].handle \in DOMAIN PurgedHandles THEN Proceed(t) ELSE Refuse(t)
    /\ UNCHANGED <<approved, launched, failed, issued, now>>

Earlier(a, b) == IF a < b THEN a ELSE b

\* Fault: the handle does not ask for the session.
IssueUnbound(t) ==
    /\ AtStep(t, "issue")
    /\ session' = PurgedSession
    /\ IF Cardinality(DOMAIN PurgedHandles) < MaxHandles
       THEN /\ handles' = [h \in DOMAIN PurgedHandles \cup {issued + 1} |->
                               IF h = issued + 1 THEN now + HandleLife ELSE handles[h]]
            /\ issued' = issued + 1 /\ Proceed(t)
       ELSE handles' = PurgedHandles /\ UNCHANGED issued /\ Refuse(t)
    /\ UNCHANGED <<approved, launched, failed, now>>

\* A session that has ended since the check is a KeyError here, answered as any
\* other exception.
Issue(t) ==
    /\ AtStep(t, "issue")
    /\ session' = PurgedSession
    /\ IF SessionLive /\ Cardinality(DOMAIN PurgedHandles) < MaxHandles
       THEN /\ handles' = [h \in DOMAIN PurgedHandles \cup {issued + 1} |->
                               IF h = issued + 1 THEN Earlier(now + HandleLife, session)
                                                 ELSE handles[h]]
            /\ issued' = issued + 1 /\ Proceed(t)
       ELSE handles' = PurgedHandles /\ UNCHANGED issued /\ Refuse(t)
    /\ UNCHANGED <<approved, launched, failed, now>>

Logout(t) ==
    /\ AtStep(t, "logout")
    /\ session' = None /\ handles' = <<>>
    /\ Proceed(t)
    /\ UNCHANGED <<approved, launched, failed, issued, now>>

\* Fault: only a slot that authenticated is released.
RespondLoggedIn(t) ==
    /\ requests[t] # Free /\ requests[t].todo = <<>> /\ SessionLive
    /\ Refuse(t)
    /\ UNCHANGED <<state, now>>

\* The answer is written, or the client is gone; the slot is released.
Respond(t) ==
    /\ requests[t] # Free /\ requests[t].todo = <<>>
    /\ Refuse(t)
    /\ UNCHANGED <<state, now>>

RequestStep(t) ==
    \/ Check(t) \/ Authorize(t) \/ Read(t) \/ Open(t) \/ Issue(t) \/ Logout(t) \/ Respond(t)
    \/ \E good \in BOOLEAN : Login(t, good)

-----------------------------------------------------------------------------
\* The approval expires, its file is removed or the registry moves on.
EndApproval ==
    /\ approved /\ approved' = FALSE
    /\ UNCHANGED <<launched, failed, session, handles, issued, requests, now>>
Tick ==
    /\ now < MaxNow /\ now' = now + 1
    /\ UNCHANGED <<state, requests>>

Next ==
    \/ \E t \in Slot, route \in Routes, h \in 1 .. issued \cup {None} :
          /\ route = "resolve" => issued < MaxIssued
          /\ Arrive(t, route, h)
    \/ \E t \in Slot : RequestStep(t)
    \/ EndApproval \/ Tick

Spec == Init /\ [][Next]_vars

\* A thread goes on: sockets and the renderer have timeouts, and no thread holds the
\* lock while it waits for anything.
FairSpec == Spec /\ \A t \in Slot : WF_vars(RequestStep(t))

-----------------------------------------------------------------------------
(* Properties. *)

\* The shared state and the requests have the shapes described above, and a request
\* that opens a handle has one.
TypeOK ==
    /\ approved \in BOOLEAN /\ launched \in BOOLEAN /\ failed \in 0 .. MaxFailed
    /\ session \in 0 .. MaxNow + SessionLife \cup {None}
    /\ issued \in Nat /\ now \in 0 .. MaxNow
    /\ DOMAIN handles \subseteq 1 .. issued
    /\ \A h \in DOMAIN handles : handles[h] \in 0 .. MaxNow + HandleLife
    /\ requests \in [Slot -> [route : Routes \cup {None}, todo : Seq(Steps),
                              handle : 1 .. issued \cup {None}, late : BOOLEAN]]
    /\ \A t \in Slot : requests[t].route \in Opening => requests[t].handle # None

\* A handle never outlives its session, not even one that a request issues while
\* another logs out or the session expires; and there are never too many.
HandlesEndWithSession ==
    /\ \A h \in DOMAIN handles : session # None /\ handles[h] <= session
    /\ Cardinality(DOMAIN handles) <= MaxHandles

\* What is read and rendered after the approval or the session has ended is not
\* shown, however long the rendering took.
ShownWhileApproved ==
    \A t \in Slot :
        requests[t].route \in Displaying /\ requests[t].todo = <<>> => ~ requests[t].late

\* Every request that got a slot leaves it.
RequestsEnd == \A t \in Slot : requests[t] # Free ~> requests[t] = Free
=============================================================================
