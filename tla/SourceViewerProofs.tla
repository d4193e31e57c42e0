-------------------------- MODULE SourceViewerProofs --------------------------
(***************************************************************************)
(* What SourceViewer promises for any number of slots, handles and         *)
(* requests, and any lives of launch codes, sessions and handles.          *)
(***************************************************************************)
EXTENDS SourceViewer, FiniteSetTheorems, TLAPS

-----------------------------------------------------------------------------
(* Constants and scripts. *)

\* The numbers among the constants.
LEMMA LivesAreNat ==
    /\ LaunchLife \in Nat /\ SessionLife \in Nat /\ HandleLife \in Nat
    /\ MaxHandles \in Nat /\ MaxFailed \in Nat /\ MaxNow \in Nat
  BY ViewerConstants

\* The routes of the server.
LEMMA RouteNames == Routes = {"login", "cards", "resolve", "page", "original", "logout"}
  BY DEF Routes, Script

\* Every route is a sequence of steps.
LEMMA ScriptsAreSteps == \A r \in Routes : Script[r] \in Seq(Steps)
  <1> SUFFICES ASSUME NEW r \in Routes PROVE Script[r] \in Seq(Steps)
    OBVIOUS
  <1>1. Live \in Seq(Steps)
    BY DEF Live, Steps
  <1>2. /\ <<"authorize", "login">> \in Seq(Steps) /\ <<"authorize">> \in Seq(Steps)
        /\ <<"authorize", "authorize", "read">> \in Seq(Steps)
        /\ <<"open", "authorize", "read">> \in Seq(Steps)
        /\ <<"issue">> \in Seq(Steps) /\ <<"logout">> \in Seq(Steps)
    BY DEF Steps
  <1>3. \A s \in Seq(Steps), v \in Seq(Steps) : s \o v \in Seq(Steps)
    OBVIOUS
  <1>4. /\ Script["login"] = <<"authorize", "login">>
        /\ Script["cards"] = Live \o Live \o <<"authorize">>
        /\ Script["resolve"] =
              Live \o Live \o <<"authorize", "authorize", "read">> \o Live \o <<"issue">>
        /\ Script["page"] = Live \o Live \o <<"open", "authorize", "read">> \o Live
        /\ Script["original"] = Live \o Live \o Live \o <<"open", "authorize", "read">>
        /\ Script["logout"] = Live \o <<"logout">>
    BY DEF Script
  <1>5. Live \o Live \in Seq(Steps)
    BY <1>1, <1>3
  <1>6. /\ Live \o Live \o <<"authorize", "authorize", "read">> \in Seq(Steps)
        /\ Live \o Live \o <<"open", "authorize", "read">> \in Seq(Steps)
        /\ Live \o Live \o Live \in Seq(Steps)
    BY <1>1, <1>2, <1>3, <1>5
  <1>7. /\ Script["cards"] \in Seq(Steps) /\ Script["page"] \in Seq(Steps)
        /\ Script["original"] \in Seq(Steps) /\ Script["logout"] \in Seq(Steps)
    BY <1>1, <1>2, <1>3, <1>4, <1>5, <1>6
  <1>8. Live \o Live \o <<"authorize", "authorize", "read">> \o Live \in Seq(Steps)
    BY <1>1, <1>3, <1>6
  <1>9. Script["resolve"] \in Seq(Steps) /\ Script["login"] \in Seq(Steps)
    BY <1>2, <1>3, <1>4, <1>8
  <1> QED BY <1>7, <1>9, RouteNames

-----------------------------------------------------------------------------
(* Types. *)

\* A purge leaves handles that were there, and a live session as it was.
LEMMA PurgeTyped ==
  ASSUME TypeOK
  PROVE  /\ PurgedSession \in 0 .. MaxNow + SessionLife \cup {None}
         /\ DOMAIN PurgedHandles \subseteq DOMAIN handles
         /\ \A h \in DOMAIN PurgedHandles : PurgedHandles[h] = handles[h]
  BY DEF TypeOK, PurgedSession, PurgedHandles, Restrict

\* A request that proceeds or is refused is one.
LEMMA StepTyped ==
  ASSUME TypeOK, NEW t \in Slot, issued' \in Nat, issued <= issued',
         \/ Refuse(t) \/ (requests[t].todo # <<>> /\ Proceed(t)) \/ UNCHANGED requests
  PROVE  /\ requests' \in [Slot -> [route : Routes \cup {None}, todo : Seq(Steps),
                                    handle : 1 .. issued' \cup {None}, late : BOOLEAN]]
         /\ \A u \in Slot : requests'[u].route \in Opening => requests'[u].handle # None
  <1>1. \A u \in Slot : requests[u] \in [route : Routes \cup {None}, todo : Seq(Steps),
                                         handle : 1 .. issued' \cup {None}, late : BOOLEAN]
    BY LivesAreNat DEF TypeOK
  <1>2. CASE Refuse(t)
    <2>1. Free \in [route : Routes \cup {None}, todo : Seq(Steps),
                    handle : 1 .. issued' \cup {None}, late : BOOLEAN]
      BY DEF Free
    <2>2. Free.route \notin Opening
      BY NoneIsNoValue, RouteNames DEF Free, Opening
    <2> QED BY <1>1, <1>2, <2>1, <2>2 DEF Refuse, TypeOK
  <1>3. CASE requests[t].todo # <<>> /\ Proceed(t)
    <2>1. Tail(requests[t].todo) \in Seq(Steps)
      BY <1>1, <1>3
    <2> QED BY <1>1, <1>3, <2>1 DEF Proceed, TypeOK
  <1>4. CASE UNCHANGED requests
    BY <1>1, <1>4 DEF TypeOK
  <1> QED BY <1>2, <1>3, <1>4

\* The server starts typed.
THEOREM InitTyped == Init => TypeOK
  <1> SUFFICES ASSUME Init PROVE TypeOK
    OBVIOUS
  <1>1. /\ requests \in [Slot -> [route : Routes \cup {None}, todo : Seq(Steps),
                                  handle : 1 .. issued \cup {None}, late : BOOLEAN]]
        /\ \A t \in Slot : requests[t].route \notin Opening
    BY NoneIsNoValue, RouteNames DEF Init, Free, Opening
  <1>2. DOMAIN handles = {}
    BY DEF Init
  <1>3. approved \in BOOLEAN /\ launched \in BOOLEAN
    BY DEF Init
  <1>4. /\ failed \in 0 .. MaxFailed /\ issued \in Nat /\ now \in 0 .. MaxNow
        /\ session \in 0 .. MaxNow + SessionLife \cup {None}
    BY LivesAreNat DEF Init
  <1> QED BY <1>1, <1>2, <1>3, <1>4 DEF TypeOK

\* Every step keeps the types.
THEOREM NextTyped == TypeOK /\ [Next]_vars => TypeOK'
  <1> SUFFICES ASSUME TypeOK, [Next]_vars PROVE TypeOK'
    OBVIOUS
  <1>1. ASSUME NEW t \in Slot, NEW route \in Routes, NEW h \in 1 .. issued \cup {None},
               Arrive(t, route, h)
        PROVE  TypeOK'
    <2>1. [Free EXCEPT !.route = route, !.todo = Script[route], !.handle = h]
             \in [route : Routes \cup {None}, todo : Seq(Steps),
                  handle : 1 .. issued \cup {None}, late : BOOLEAN]
      BY ScriptsAreSteps DEF Free
    <2>2. [Free EXCEPT !.route = route, !.todo = Script[route], !.handle = h].route \in Opening
             => h # None
      BY <1>1 DEF Arrive, Free
    <2> QED BY <1>1, <2>1, <2>2 DEF Arrive, TypeOK, state, Free
  <1>2. ASSUME NEW t \in Slot, Check(t) \/ Open(t) \/ Logout(t) PROVE TypeOK'
    <2>1. /\ session' \in 0 .. MaxNow + SessionLife \cup {None}
          /\ DOMAIN handles' \subseteq DOMAIN handles
          /\ \A h \in DOMAIN handles' : handles'[h] = handles[h]
      BY <1>2, PurgeTyped DEF Check, Open, Logout, Purge
    <2>2. UNCHANGED <<approved, launched, failed, issued, now>>
      BY <1>2 DEF Check, Open, Logout
    <2>3. issued \in Nat /\ issued' \in Nat /\ issued <= issued'
      BY <2>2 DEF TypeOK
    <2>4. Refuse(t) \/ (requests[t].todo # <<>> /\ Proceed(t))
      BY <1>2 DEF Check, Open, Logout, AtStep
    <2> QED BY <2>1, <2>2, <2>3, <2>4, StepTyped DEF TypeOK
  <1>3. ASSUME NEW t \in Slot, Authorize(t) \/ Respond(t) PROVE TypeOK'
    <2>1. UNCHANGED <<state, now>>
      BY <1>3 DEF Authorize, Respond
    <2>2. issued \in Nat /\ issued' \in Nat /\ issued <= issued'
      BY <2>1 DEF TypeOK, state
    <2>3. Refuse(t) \/ (requests[t].todo # <<>> /\ Proceed(t))
      BY <1>3 DEF Authorize, Respond, AtStep
    <2> QED BY <2>1, <2>2, <2>3, StepTyped DEF TypeOK, state
  <1>4. ASSUME NEW t \in Slot, Read(t) PROVE TypeOK'
    <2>1. UNCHANGED <<state, now>> /\ requests[t].todo # <<>>
      BY <1>4 DEF Read, AtStep
    <2>2. CASE Refuse(t)
      <3>1. issued \in Nat /\ issued' \in Nat /\ issued <= issued'
        BY <2>1 DEF TypeOK, state
      <3> QED BY <2>1, <2>2, <3>1, StepTyped DEF TypeOK, state
    <2>3. CASE requests' = [requests EXCEPT ![t].todo = Tail(@),
                                            ![t].late = ~ (approved /\ SessionLive)]
      <3>1. Tail(requests[t].todo) \in Seq(Steps)
        BY <2>1 DEF TypeOK
      <3>2. (~ (approved /\ SessionLive)) \in BOOLEAN
        OBVIOUS
      <3> DEFINE late == ~ (approved /\ SessionLive)
      <3>3. /\ late \in BOOLEAN
            /\ requests' = [requests EXCEPT ![t].todo = Tail(@), ![t].late = late]
        BY <2>3, <3>2
      <3> HIDE DEF late
      <3> QED BY <2>1, <3>1, <3>3 DEF TypeOK, state
    <2> QED BY <1>4, <2>2, <2>3 DEF Read
  <1>5. ASSUME NEW t \in Slot, Issue(t) PROVE TypeOK'
    <2>1. UNCHANGED <<approved, launched, failed, now>> /\ session' = PurgedSession
      BY <1>5 DEF Issue
    <2>2. Refuse(t) \/ (requests[t].todo # <<>> /\ Proceed(t))
      BY <1>5 DEF Issue, AtStep
    <2>3. CASE UNCHANGED issued /\ handles' = PurgedHandles
      <3>1. issued \in Nat /\ issued' \in Nat /\ issued <= issued'
        BY <2>3 DEF TypeOK
      <3> QED BY <2>1, <2>2, <2>3, <3>1, PurgeTyped, StepTyped DEF TypeOK
    <2>4. CASE /\ SessionLive /\ issued' = issued + 1
               /\ handles' = [h \in DOMAIN PurgedHandles \cup {issued + 1} |->
                               IF h = issued + 1 THEN Earlier(now + HandleLife, session)
                                                 ELSE handles[h]]
      <3>1. issued \in Nat /\ issued' \in Nat /\ issued <= issued'
        BY <2>4 DEF TypeOK
      <3>2. Earlier(now + HandleLife, session) \in 0 .. MaxNow + HandleLife
        BY <2>4, LivesAreNat, NoneIsNoValue DEF TypeOK, Earlier, SessionLive
      <3>3. DOMAIN handles' \subseteq 1 .. issued'
        BY <2>4, PurgeTyped DEF TypeOK
      <3>4. \A h \in DOMAIN handles' : handles'[h] \in 0 .. MaxNow + HandleLife
        BY <2>4, <3>2, PurgeTyped DEF TypeOK
      <3> QED BY <2>1, <2>2, <3>1, <3>3, <3>4, PurgeTyped, StepTyped DEF TypeOK
    <2> QED BY <1>5, <2>3, <2>4 DEF Issue
  <1>6. ASSUME NEW t \in Slot, NEW good \in BOOLEAN, Login(t, good) PROVE TypeOK'
    <2>1. /\ UNCHANGED <<approved, handles, issued, now>>
          /\ Refuse(t) \/ (requests[t].todo # <<>> /\ Proceed(t))
      BY <1>6 DEF Login, AtStep
    <2>2. issued \in Nat /\ issued' \in Nat /\ issued <= issued'
      BY <2>1 DEF TypeOK
    <2>3. CASE session' = now + SessionLife /\ launched' = TRUE /\ UNCHANGED failed
      <3>1. session' \in 0 .. MaxNow + SessionLife
        BY <2>3, LivesAreNat DEF TypeOK
      <3>2. launched' \in BOOLEAN
        BY <2>3
      <3> QED BY <2>1, <2>2, <2>3, <3>1, <3>2, StepTyped DEF TypeOK
    <2>4. CASE /\ failed' = IF failed < MaxFailed THEN failed + 1 ELSE failed
               /\ UNCHANGED <<session, launched>>
      <3>1. failed' \in 0 .. MaxFailed
        BY <2>4, LivesAreNat DEF TypeOK
      <3> QED BY <2>1, <2>2, <2>4, <3>1, StepTyped DEF TypeOK
    <2> QED BY <1>6, <2>3, <2>4 DEF Login
  <1>7. CASE EndApproval
    <2>1. approved' \in BOOLEAN
      BY <1>7 DEF EndApproval
    <2> QED BY <1>7, <2>1 DEF EndApproval, TypeOK
  <1>8. CASE Tick
    BY <1>8, LivesAreNat DEF Tick, state, TypeOK
  <1>9. CASE UNCHANGED vars
    BY <1>9 DEF vars, state, TypeOK
  <1> QED
    BY <1>1, <1>2, <1>3, <1>4, <1>5, <1>6, <1>7, <1>8, <1>9 DEF Next, RequestStep

\* The shared state and the requests keep their shapes, and a request that opens a
\* handle has one (server.py, the routes).
THEOREM TypeCorrect == Spec => []TypeOK
  BY InitTyped, NextTyped, PTL DEF Spec

-----------------------------------------------------------------------------
(* Handles. *)

\* There is a session only after the launch code was used, so that a login, which
\* replaces the deadline of the session, meets no handle.
SessionIsLaunched == session # None => launched

Bounded == TypeOK /\ HandlesEndWithSession /\ SessionIsLaunched

\* The handles that a purge leaves end with the session it leaves.
LEMMA PurgeBounded ==
  ASSUME Bounded
  PROVE  /\ \A h \in DOMAIN PurgedHandles :
               PurgedSession # None /\ PurgedHandles[h] <= PurgedSession
         /\ IsFiniteSet(DOMAIN PurgedHandles)
         /\ Cardinality(DOMAIN PurgedHandles) <= MaxHandles
         /\ PurgedSession # None => launched
  <1>1. \A h \in DOMAIN PurgedHandles :
           PurgedSession # None /\ PurgedHandles[h] <= PurgedSession
    BY DEF Bounded, HandlesEndWithSession, PurgedHandles, PurgedSession, SessionLive, Restrict
  <1>2. IsFiniteSet(DOMAIN handles)
    <2>1. IsFiniteSet(1 .. issued)
      BY FS_Interval DEF Bounded, TypeOK
    <2> QED BY <2>1, FS_Subset DEF Bounded, TypeOK
  <1>3. /\ IsFiniteSet(DOMAIN PurgedHandles)
        /\ Cardinality(DOMAIN PurgedHandles) <= Cardinality(DOMAIN handles)
    BY <1>2, PurgeTyped, FS_Subset DEF Bounded
  <1>4. /\ Cardinality(DOMAIN PurgedHandles) \in Nat /\ Cardinality(DOMAIN handles) \in Nat
        /\ Cardinality(DOMAIN handles) <= MaxHandles
    BY <1>2, <1>3, FS_CardinalityType DEF Bounded, HandlesEndWithSession
  <1>5. Cardinality(DOMAIN PurgedHandles) <= MaxHandles
    BY <1>3, <1>4, LivesAreNat
  <1>6. PurgedSession # None => launched
    BY DEF Bounded, SessionIsLaunched, PurgedSession, SessionLive
  <1> QED BY <1>1, <1>3, <1>5, <1>6

\* A server that starts has no handle.
THEOREM InitBounded == Init => Bounded
  <1> SUFFICES ASSUME Init PROVE Bounded
    OBVIOUS
  <1>1. DOMAIN handles = {} /\ session = None
    BY DEF Init
  <1>2. Cardinality(DOMAIN handles) <= MaxHandles
    BY <1>1, FS_EmptySet, LivesAreNat
  <1> QED BY <1>1, <1>2, InitTyped DEF Bounded, HandlesEndWithSession, SessionIsLaunched

\* Every step keeps the handles within their session.
THEOREM NextBounded == Bounded /\ [Next]_vars => Bounded'
  <1> SUFFICES ASSUME Bounded, [Next]_vars PROVE Bounded'
    OBVIOUS
  <1>1. TypeOK'
    BY NextTyped DEF Bounded
  <1> SUFFICES HandlesEndWithSession' /\ SessionIsLaunched'
    BY <1>1 DEF Bounded
  <1>2. CASE UNCHANGED <<session, handles, launched>>
    BY <1>2 DEF Bounded, HandlesEndWithSession, SessionIsLaunched
  <1>3. CASE Purge /\ UNCHANGED launched
    BY <1>3, PurgeBounded DEF Purge, HandlesEndWithSession, SessionIsLaunched
  <1>4. ASSUME NEW t \in Slot, Logout(t)
        PROVE  HandlesEndWithSession' /\ SessionIsLaunched'
    <2>1. DOMAIN handles' = {} /\ session' = None
      BY <1>4 DEF Logout
    <2>2. Cardinality(DOMAIN handles') <= MaxHandles
      BY <2>1, FS_EmptySet, LivesAreNat
    <2> QED BY <2>1, <2>2 DEF HandlesEndWithSession, SessionIsLaunched
  <1>5. ASSUME NEW t \in Slot, NEW good \in BOOLEAN, Login(t, good)
        PROVE  HandlesEndWithSession' /\ SessionIsLaunched'
    <2>1. CASE UNCHANGED <<session, launched>>
      BY <1>2, <1>5, <2>1 DEF Login
    <2>2. CASE ~ launched /\ launched' = TRUE
      <3>1. DOMAIN handles = {}
        BY <2>2 DEF Bounded, HandlesEndWithSession, SessionIsLaunched
      <3>2. Cardinality(DOMAIN handles') <= MaxHandles
        BY <1>5 DEF Login, Bounded, HandlesEndWithSession
      <3> QED BY <1>5, <2>2, <3>1, <3>2 DEF Login, HandlesEndWithSession, SessionIsLaunched
    <2> QED BY <1>5, <2>1, <2>2 DEF Login
  <1>6. ASSUME NEW t \in Slot, Issue(t)
        PROVE  HandlesEndWithSession' /\ SessionIsLaunched'
    <2>1. CASE handles' = PurgedHandles
      BY <1>3, <1>6, <2>1 DEF Issue, Purge
    <2>2. CASE /\ SessionLive /\ Cardinality(DOMAIN PurgedHandles) < MaxHandles
               /\ handles' = [h \in DOMAIN PurgedHandles \cup {issued + 1} |->
                               IF h = issued + 1 THEN Earlier(now + HandleLife, session)
                                                 ELSE handles[h]]
      <3>1. session' = session /\ session \in Nat /\ launched' = launched
        BY <1>6, <2>2 DEF Issue, PurgedSession, SessionLive, Bounded, TypeOK
      <3>2. DOMAIN handles' = DOMAIN PurgedHandles \cup {issued + 1}
        BY <2>2
      <3>3. issued + 1 \notin DOMAIN PurgedHandles
        BY PurgeTyped DEF Bounded, TypeOK
      <3>4. Cardinality(DOMAIN handles') = Cardinality(DOMAIN PurgedHandles) + 1
        BY <3>2, <3>3, PurgeBounded, FS_AddElement
      <3>5. Cardinality(DOMAIN PurgedHandles) \in Nat
        BY PurgeBounded, FS_CardinalityType
      <3>6. Cardinality(DOMAIN handles') <= MaxHandles
        BY <2>2, <3>4, <3>5, LivesAreNat
      <3>7. Earlier(now + HandleLife, session) <= session
        BY <3>1, LivesAreNat DEF Earlier, Bounded, TypeOK
      <3>8. \A h \in DOMAIN PurgedHandles : handles[h] <= session
        BY PurgeTyped DEF Bounded, HandlesEndWithSession
      <3>9. \A h \in DOMAIN handles' : handles'[h] <= session
        BY <2>2, <3>7, <3>8
      <3>10. session # None
        BY <3>1, NoneIsNoValue
      <3> QED
        BY <3>1, <3>6, <3>9, <3>10 DEF Bounded, HandlesEndWithSession, SessionIsLaunched
    <2> QED BY <1>6, <2>1, <2>2 DEF Issue
  <1>7. ASSUME NEW t \in Slot, RequestStep(t)
        PROVE  HandlesEndWithSession' /\ SessionIsLaunched'
    <2>1. CASE Check(t) \/ Open(t)
      BY <1>3, <2>1 DEF Check, Open
    <2>2. CASE Authorize(t) \/ Read(t) \/ Respond(t)
      BY <1>2, <2>2 DEF Authorize, Read, Respond, state
    <2> QED BY <1>4, <1>5, <1>6, <1>7, <2>1, <2>2 DEF RequestStep
  <1>8. CASE EndApproval \/ Tick \/ UNCHANGED vars
    BY <1>2, <1>8 DEF EndApproval, Tick, vars, state
  <1>9. ASSUME NEW t \in Slot, NEW route \in Routes, NEW h \in 1 .. issued \cup {None},
               Arrive(t, route, h)
        PROVE  HandlesEndWithSession' /\ SessionIsLaunched'
    BY <1>2, <1>9 DEF Arrive, state
  <1> QED BY <1>7, <1>8, <1>9 DEF Next

\* A handle never outlives its session, whatever other threads do while it is issued
\* (_issue_handle, logout, _purge), and there are never too many.
THEOREM HandlesEnd == Spec => []HandlesEndWithSession
  <1>1. Bounded => HandlesEndWithSession
    BY DEF Bounded
  <1> QED BY <1>1, InitBounded, NextBounded, PTL DEF Spec

-----------------------------------------------------------------------------
(* What is shown. *)

Has(s, step) == \E i \in DOMAIN s : s[i] = step

\* A reading is followed by a check and an authorization, and follows a check.
Rechecked(s) ==
    \A i \in DOMAIN s : s[i] = "read" =>
        /\ \E j \in DOMAIN s : j > i /\ s[j] = "check"
        /\ \E j \in DOMAIN s : j > i /\ s[j] = "authorize"
Entered(s) == \A i \in DOMAIN s : s[i] = "read" => \E j \in DOMAIN s : j < i /\ s[j] = "check"

\* There was a session and it has ended: it does not come back.
Ended == ~ SessionLive /\ launched

\* What is still to be done by a request that displays something, when there is an
\* approval, a session was there, or one has ended: it will be refused if what it has
\* read was read too late.
WillBeRefused(r, approval, ended) ==
    r.late => (~ approval /\ Has(r.todo, "authorize")) \/ (ended /\ Has(r.todo, "check"))
Careful(r, approval, begun, ended) ==
    r.route \in Displaying =>
        /\ Rechecked(r.todo) /\ (begun \/ Entered(r.todo))
        /\ WillBeRefused(r, approval, ended)

Watched == Bounded /\ \A t \in Slot : Careful(requests[t], approved, launched, Ended)

\* What a sequence is without its first element.
LEMMA TailOf ==
  ASSUME NEW s \in Seq(Steps), s # <<>>
  PROVE  /\ Tail(s) \in Seq(Steps) /\ DOMAIN Tail(s) = 1 .. Len(s) - 1
         /\ \A i \in DOMAIN Tail(s) : i + 1 \in DOMAIN s /\ Tail(s)[i] = s[i + 1]
         /\ \A i \in DOMAIN s : i = 1 \/ (i - 1 \in DOMAIN Tail(s) /\ Tail(s)[i - 1] = s[i])
         /\ Head(s) = s[1] /\ 1 \in DOMAIN s /\ DOMAIN s = 1 .. Len(s) /\ Len(s) \in Nat
  OBVIOUS

\* What is left behind a step.
LEMMA TailKeeps ==
  ASSUME NEW s \in Seq(Steps), s # <<>>
  PROVE  /\ Rechecked(s) => Rechecked(Tail(s))
         /\ Entered(s) /\ Head(s) # "check" => Entered(Tail(s))
         /\ \A step \in Steps : Has(s, step) /\ Head(s) # step => Has(Tail(s), step)
         /\ Rechecked(s) /\ Head(s) = "read" => Has(Tail(s), "check") /\ Has(Tail(s), "authorize")
         /\ Entered(s) => Head(s) # "read"
  <1>1. ASSUME Rechecked(s), NEW i \in DOMAIN Tail(s), Tail(s)[i] = "read", NEW step \in Steps,
               \E j \in DOMAIN s : j > i + 1 /\ s[j] = step
        PROVE  \E j \in DOMAIN Tail(s) : j > i /\ Tail(s)[j] = step
    <2>1. PICK j \in DOMAIN s : j > i + 1 /\ s[j] = step
      BY <1>1
    <2>2. j - 1 \in DOMAIN Tail(s) /\ Tail(s)[j - 1] = step /\ j - 1 > i
      BY <2>1, TailOf
    <2> QED BY <2>2
  <1>2. Rechecked(s) => Rechecked(Tail(s))
    <2> SUFFICES ASSUME Rechecked(s), NEW i \in DOMAIN Tail(s), Tail(s)[i] = "read"
                 PROVE  /\ \E j \in DOMAIN Tail(s) : j > i /\ Tail(s)[j] = "check"
                        /\ \E j \in DOMAIN Tail(s) : j > i /\ Tail(s)[j] = "authorize"
      BY DEF Rechecked
    <2>1. /\ \E j \in DOMAIN s : j > i + 1 /\ s[j] = "check"
          /\ \E j \in DOMAIN s : j > i + 1 /\ s[j] = "authorize"
      BY TailOf DEF Rechecked
    <2> QED BY <1>1, <2>1 DEF Steps
  <1>3. Entered(s) /\ Head(s) # "check" => Entered(Tail(s))
    <2> SUFFICES ASSUME Entered(s), Head(s) # "check", NEW i \in DOMAIN Tail(s),
                        Tail(s)[i] = "read"
                 PROVE  \E j \in DOMAIN Tail(s) : j < i /\ Tail(s)[j] = "check"
      BY DEF Entered
    <2>1. PICK j \in DOMAIN s : j < i + 1 /\ s[j] = "check"
      BY TailOf DEF Entered
    <2>2. j - 1 \in DOMAIN Tail(s) /\ Tail(s)[j - 1] = "check" /\ j - 1 < i
      BY <2>1, TailOf
    <2> QED BY <2>2
  <1>4. ASSUME NEW step \in Steps, Has(s, step), Head(s) # step PROVE Has(Tail(s), step)
    <2>1. PICK j \in DOMAIN s : s[j] = step
      BY <1>4 DEF Has
    <2>2. j - 1 \in DOMAIN Tail(s) /\ Tail(s)[j - 1] = step
      BY <1>4, <2>1, TailOf
    <2> QED BY <2>2 DEF Has
  <1>5. ASSUME Rechecked(s), Head(s) = "read"
        PROVE  Has(Tail(s), "check") /\ Has(Tail(s), "authorize")
    <2>1. PICK j \in DOMAIN s : j > 1 /\ s[j] = "check"
      BY <1>5, TailOf DEF Rechecked
    <2>2. PICK k \in DOMAIN s : k > 1 /\ s[k] = "authorize"
      BY <1>5, TailOf DEF Rechecked
    <2>3. /\ j - 1 \in DOMAIN Tail(s) /\ Tail(s)[j - 1] = "check"
          /\ k - 1 \in DOMAIN Tail(s) /\ Tail(s)[k - 1] = "authorize"
      BY <2>1, <2>2, TailOf
    <2> QED BY <2>3 DEF Has
  <1>6. Entered(s) => Head(s) # "read"
    BY TailOf DEF Entered
  <1> QED BY <1>2, <1>3, <1>4, <1>5, <1>6

\* What two sequences are one behind the other.
LEMMA Concatenated ==
  ASSUME NEW a \in Seq(Steps), NEW b \in Seq(Steps)
  PROVE  /\ a \o b \in Seq(Steps) /\ Len(a \o b) = Len(a) + Len(b)
         /\ Len(a) \in Nat /\ Len(b) \in Nat /\ DOMAIN (a \o b) = 1 .. Len(a) + Len(b)
         /\ \A i \in 1 .. Len(a) : (a \o b)[i] = a[i]
         /\ \A i \in Len(a) + 1 .. Len(a) + Len(b) : (a \o b)[i] = b[i - Len(a)]
  OBVIOUS

\* The routes that display something check again behind their reading.
LEMMA ScriptsRecheck ==
    \A r \in Displaying : Rechecked(Script[r]) /\ Entered(Script[r])
  <1>1. Live \in Seq(Steps) /\ Len(Live) = 2 /\ Live[1] = "check" /\ Live[2] = "authorize"
    BY DEF Live, Steps
  <1>2. ASSUME NEW x \in Seq(Steps), NEW y \in Seq(Steps), x # <<>>, x[1] = "check",
               \A i \in DOMAIN y : y[i] # "read"
        PROVE  Rechecked(x \o Live \o y) /\ Entered(x \o Live \o y)
    <2> DEFINE xl == x \o Live
               s == xl \o y
               n == Len(x)
    <2>0. /\ xl \in Seq(Steps) /\ Len(xl) = n + 2 /\ n \in Nat \ {0}
          /\ xl[1] = "check" /\ xl[n + 1] = "check" /\ xl[n + 2] = "authorize"
      <3>1. xl \in Seq(Steps) /\ Len(xl) = n + 2 /\ n \in Nat \ {0}
        <4>1. xl \in Seq(Steps) /\ Len(xl) = n + Len(Live) /\ n \in Nat
          BY <1>1, Concatenated
        <4>2. n # 0
          BY <1>2
        <4> QED BY <1>1, <4>1, <4>2
      <3>2. xl[1] = x[1]
        BY <3>1, Concatenated, <1>1
      <3>3. xl[n + 1] = Live[n + 1 - n] /\ xl[n + 2] = Live[n + 2 - n]
        BY <3>1, Concatenated, <1>1
      <3> QED BY <3>1, <3>2, <3>3, <1>1, <1>2
    <2> HIDE DEF xl, n
    <2>1. /\ n \in Nat \ {0} /\ s \in Seq(Steps) /\ Len(s) = n + 2 + Len(y)
          /\ Len(y) \in Nat /\ DOMAIN s = 1 .. n + 2 + Len(y)
      <3>1. /\ s \in Seq(Steps) /\ Len(s) = Len(xl) + Len(y) /\ Len(y) \in Nat
            /\ DOMAIN s = 1 .. Len(xl) + Len(y)
        BY <2>0, Concatenated
      <3> HIDE DEF s
      <3> QED BY <2>0, <3>1
    <2>2. /\ s[1] = "check" /\ s[n + 1] = "check" /\ s[n + 2] = "authorize"
          /\ \A i \in n + 3 .. n + 2 + Len(y) : s[i] = y[i - (n + 2)]
      BY <2>0, Concatenated
    <2>3. \A i \in DOMAIN s : s[i] = "read" => i > 1 /\ i <= n
      <3> SUFFICES ASSUME NEW i \in DOMAIN s, s[i] = "read" PROVE i > 1 /\ i <= n
        OBVIOUS
      <3>1. i # 1 /\ i # n + 1 /\ i # n + 2
        BY <2>2
      <3>2. i \notin n + 3 .. n + 2 + Len(y)
        <4> SUFFICES ASSUME i \in n + 3 .. n + 2 + Len(y) PROVE FALSE
          OBVIOUS
        <4>1. i - (n + 2) \in DOMAIN y
          BY <1>2, <2>1
        <4> QED BY <1>2, <2>2, <4>1
      <3> HIDE DEF s
      <3> QED BY <2>1, <3>1, <3>2
    <2>4. 1 \in DOMAIN s /\ n + 1 \in DOMAIN s /\ n + 2 \in DOMAIN s
      BY <2>1
    <2> HIDE DEF s
    <2>5. Rechecked(s)
      <3> SUFFICES ASSUME NEW i \in DOMAIN s, s[i] = "read"
                   PROVE  /\ \E j \in DOMAIN s : j > i /\ s[j] = "check"
                          /\ \E j \in DOMAIN s : j > i /\ s[j] = "authorize"
        BY DEF Rechecked
      <3>1. n + 1 > i /\ n + 2 > i
        BY <2>1, <2>3
      <3> QED BY <2>2, <2>4, <3>1
    <2>6. Entered(s)
      BY <2>2, <2>3, <2>4 DEF Entered
    <2> QED BY <2>5, <2>6 DEF s, xl
  <1> DEFINE Fetch == <<"authorize", "authorize", "read">>
             Turn == <<"open", "authorize", "read">>
  <1>3. Fetch \in Seq(Steps) /\ Turn \in Seq(Steps) /\ <<"issue">> \in Seq(Steps)
        /\ <<>> \in Seq(Steps) /\ \A i \in DOMAIN <<"issue">> : <<"issue">>[i] # "read"
    BY DEF Steps
  <1>4. Script["resolve"] = Live \o Live \o Fetch \o Live \o <<"issue">>
        /\ Script["page"] = Live \o Live \o Turn \o Live
    BY DEF Script
  <1> HIDE DEF Fetch, Turn
  <1>5. /\ Live \o Live \in Seq(Steps) /\ Live \o Live # <<>> /\ (Live \o Live)[1] = "check"
        /\ Len(Live \o Live) = 4
    <2>1. /\ Live \o Live \in Seq(Steps) /\ Len(Live \o Live) = Len(Live) + Len(Live)
          /\ \A i \in 1 .. Len(Live) : (Live \o Live)[i] = Live[i]
      BY <1>1, Concatenated
    <2>2. Len(Live \o Live) = 4
      BY <1>1, <2>1
    <2>3. (Live \o Live)[1] = Live[1]
      BY <1>1, <2>1
    <2> QED BY <1>1, <2>1, <2>2, <2>3
  <1>6. ASSUME NEW z \in Seq(Steps)
        PROVE  /\ Live \o Live \o z \in Seq(Steps) /\ Live \o Live \o z # <<>>
               /\ (Live \o Live \o z)[1] = "check"
    <2> DEFINE L == Live \o Live
    <2>1. L \in Seq(Steps) /\ L # <<>> /\ L[1] = "check" /\ Len(L) = 4
      BY <1>5
    <2> HIDE DEF L
    <2>2. L \o z \in Seq(Steps) /\ L \o z # <<>> /\ (L \o z)[1] = "check"
      BY <2>1, Concatenated
    <2> QED BY <2>2 DEF L
  <1>7. Rechecked(Script["resolve"]) /\ Entered(Script["resolve"])
    BY <1>2, <1>3, <1>4, <1>6
  <1>8. Script["page"] = Live \o Live \o Turn \o Live \o <<>>
    <2>1. Live \o Live \o Turn \o Live \in Seq(Steps)
      BY <1>1, <1>3, <1>6
    <2> QED BY <1>4, <2>1
  <1>9. Rechecked(Script["page"]) /\ Entered(Script["page"])
    <2>1. \A i \in DOMAIN <<>> : <<>>[i] # "read"
      OBVIOUS
    <2> QED BY <1>2, <1>3, <1>6, <1>8, <2>1
  <1> QED BY <1>7, <1>9 DEF Displaying

\* What has ended stays ended, and an approval does too.
LEMMA EndsStay ==
  ASSUME Bounded, [Next]_vars
  PROVE  /\ Ended => Ended'
         /\ ~ approved => ~ approved'
         /\ launched => launched'
  <1>1. CASE UNCHANGED <<session, launched, now, approved>>
    BY <1>1 DEF Ended, SessionLive
  <1>2. CASE /\ session' \in {PurgedSession, None}
             /\ UNCHANGED <<launched, now, approved>>
    BY <1>2 DEF Ended, SessionLive, PurgedSession
  <1>3. ASSUME NEW t \in Slot, NEW good \in BOOLEAN, Login(t, good)
        PROVE  (Ended => Ended') /\ (~ approved => ~ approved') /\ (launched => launched')
    BY <1>3 DEF Login, Ended, SessionLive
  <1>4. CASE EndApproval
    BY <1>4 DEF EndApproval, Ended, SessionLive
  <1>5. CASE Tick
    BY <1>5, LivesAreNat DEF Tick, state, Ended, SessionLive, Bounded, TypeOK
  <1>6. ASSUME NEW t \in Slot, RequestStep(t)
        PROVE  (Ended => Ended') /\ (~ approved => ~ approved') /\ (launched => launched')
    <2>1. CASE Check(t) \/ Open(t) \/ Issue(t) \/ Logout(t)
      BY <1>2, <2>1 DEF Check, Open, Issue, Logout, Purge
    <2>2. CASE Authorize(t) \/ Read(t) \/ Respond(t)
      BY <1>1, <2>2 DEF Authorize, Read, Respond, state
    <2> QED BY <1>3, <1>6, <2>1, <2>2 DEF RequestStep
  <1>7. CASE UNCHANGED vars \/ \E t \in Slot, route \in Routes, h \in 1 .. issued \cup {None} :
                                  Arrive(t, route, h)
    BY <1>1, <1>7 DEF vars, state, Arrive
  <1> QED BY <1>4, <1>5, <1>6, <1>7 DEF Next

\* A server that starts has no request.
THEOREM InitWatched == Init => Watched
  <1> SUFFICES ASSUME Init PROVE Watched
    OBVIOUS
  <1>1. ASSUME NEW t \in Slot PROVE Careful(requests[t], approved, launched, Ended)
    BY NoneIsNoValue, RouteNames DEF Init, Free, Careful, Displaying
  <1> QED BY <1>1, InitBounded DEF Watched

\* A request that no step touches stays careful.
LEMMA OthersStayCareful ==
  ASSUME Bounded, [Next]_vars, NEW r, Careful(r, approved, launched, Ended)
  PROVE  Careful(r, approved', launched', Ended')
  BY EndsStay DEF Careful, WillBeRefused

\* So does one that proceeds, unless it reads: it has not met what will refuse it, and
\* when it passes a check there is a session.
LEMMA ProceedingStaysCareful ==
  ASSUME Watched, [Next]_vars, NEW t \in Slot, Proceed(t), requests[t].todo # <<>>,
         Head(requests[t].todo) = "check" => SessionLive,
         Head(requests[t].todo) = "authorize" => approved
  PROVE  \A u \in Slot : Careful(requests'[u], approved', launched', Ended')
  <1> DEFINE r == requests[t]
             q == [r EXCEPT !.todo = Tail(r.todo)]
  <1>1. /\ r \in [route : Routes \cup {None}, todo : Seq(Steps),
                  handle : 1 .. issued \cup {None}, late : BOOLEAN]
        /\ Careful(r, approved, launched, Ended) /\ Bounded
    BY DEF Watched, Bounded, TypeOK
  <1>2. requests' = [requests EXCEPT ![t] = q]
    BY DEF Proceed
  <1>3. q.todo = Tail(r.todo) /\ q.late = r.late /\ q.route = r.route
    BY <1>1
  <1>4. Careful(q, approved, launched, Ended)
    <2> SUFFICES ASSUME q.route \in Displaying
                 PROVE  /\ Rechecked(q.todo) /\ (launched \/ Entered(q.todo))
                        /\ WillBeRefused(q, approved, Ended)
      BY DEF Careful
    <2>1. Rechecked(r.todo) /\ (launched \/ Entered(r.todo)) /\ WillBeRefused(r, approved, Ended)
      BY <1>1, <1>3 DEF Careful
    <2>2. r.todo \in Seq(Steps) /\ r.todo # <<>>
      BY <1>1
    <2>3. Rechecked(q.todo)
      BY <1>3, <2>1, <2>2, TailKeeps
    <2>4. launched \/ Entered(q.todo)
      <3>1. SessionLive => launched
        BY <1>1 DEF Bounded, SessionIsLaunched, SessionLive
      <3> QED BY <1>3, <2>1, <2>2, <3>1, TailKeeps
    <2>5. WillBeRefused(q, approved, Ended)
      <3> SUFFICES ASSUME r.late
                   PROVE  \/ ~ approved /\ Has(q.todo, "authorize")
                          \/ Ended /\ Has(q.todo, "check")
        BY <1>3 DEF WillBeRefused
      <3>1. CASE ~ approved /\ Has(r.todo, "authorize")
        BY <1>3, <2>2, <3>1, TailKeeps DEF Steps
      <3>2. CASE Ended /\ Has(r.todo, "check")
        BY <1>3, <2>2, <3>2, TailKeeps DEF Steps, Ended
      <3> QED BY <2>1, <3>1, <3>2 DEF WillBeRefused
    <2> QED BY <2>3, <2>4, <2>5
  <1> HIDE DEF r, q
  <1>5. ASSUME NEW u \in Slot PROVE Careful(requests'[u], approved', launched', Ended')
    <2>1. CASE u = t
      <3>1. requests'[u] = q
        BY <1>2, <2>1 DEF Watched, Bounded, TypeOK
      <3>2. Careful(q, approved', launched', Ended')
        BY <1>1, <1>4, OthersStayCareful
      <3> QED BY <3>1, <3>2
    <2>2. CASE u # t
      <3>1. requests'[u] = requests[u]
        BY <1>2, <2>2 DEF Watched, Bounded, TypeOK
      <3> QED BY <1>1, <3>1, OthersStayCareful DEF Watched
    <2> QED BY <2>1, <2>2
  <1> QED BY <1>5

\* A request that takes the place of another must be careful itself.
LEMMA ReplacingStaysCareful ==
  ASSUME Watched, [Next]_vars, NEW t \in Slot, NEW q,
         requests' = [requests EXCEPT ![t] = q],
         Careful(q, approved', launched', Ended')
  PROVE  \A u \in Slot : Careful(requests'[u], approved', launched', Ended')
  <1> SUFFICES ASSUME NEW u \in Slot
               PROVE  Careful(requests'[u], approved', launched', Ended')
    OBVIOUS
  <1>1. CASE u = t
    BY <1>1 DEF Watched, Bounded, TypeOK
  <1>2. CASE u # t
    <2>1. requests'[u] = requests[u]
      BY <1>2 DEF Watched, Bounded, TypeOK
    <2> QED BY <2>1, OthersStayCareful DEF Watched
  <1> QED BY <1>1, <1>2

\* A free slot displays nothing.
LEMMA RefusingStaysCareful ==
  ASSUME Watched, [Next]_vars, NEW t \in Slot, Refuse(t)
  PROVE  \A u \in Slot : Careful(requests'[u], approved', launched', Ended')
  <1>1. Free.route \notin Displaying
    BY NoneIsNoValue, RouteNames DEF Free, Displaying
  <1>2. Careful(Free, approved', launched', Ended')
    BY <1>1 DEF Careful
  <1> QED BY <1>2, ReplacingStaysCareful DEF Refuse

\* Every step keeps every request careful.
THEOREM NextWatched == Watched /\ [Next]_vars => Watched'
  <1> SUFFICES ASSUME Watched, [Next]_vars PROVE Watched'
    OBVIOUS
  <1>1. Bounded'
    BY NextBounded DEF Watched
  <1> SUFFICES \A u \in Slot : Careful(requests'[u], approved', launched', Ended')
    BY <1>1 DEF Watched
  <1>2. CASE UNCHANGED requests
    BY <1>2, OthersStayCareful DEF Watched
  <1>3. ASSUME NEW t \in Slot, NEW route \in Routes, NEW h \in 1 .. issued \cup {None},
               Arrive(t, route, h)
        PROVE  \A u \in Slot : Careful(requests'[u], approved', launched', Ended')
    <2> DEFINE q == [Free EXCEPT !.route = route, !.todo = Script[route], !.handle = h]
    <2>1. q.route = route /\ q.todo = Script[route] /\ q.late = FALSE
      BY DEF Free
    <2>2. requests' = [requests EXCEPT ![t] = q]
      BY <1>3 DEF Arrive
    <2> HIDE DEF q
    <2>3. Careful(q, approved', launched', Ended')
      BY <2>1, ScriptsRecheck DEF Careful, WillBeRefused
    <2> QED BY <2>2, <2>3, ReplacingStaysCareful
  <1>4. ASSUME NEW t \in Slot, Read(t)
        PROVE  \A u \in Slot : Careful(requests'[u], approved', launched', Ended')
    <2>1. CASE Refuse(t)
      BY <2>1, RefusingStaysCareful
    <2>2. CASE requests' = [requests EXCEPT ![t].todo = Tail(@),
                                            ![t].late = ~ (approved /\ SessionLive)]
      <3> DEFINE r == requests[t]
                 late == ~ (approved /\ SessionLive)
                 q == [r EXCEPT !.todo = Tail(r.todo), !.late = late]
      <3>1. /\ r \in [route : Routes \cup {None}, todo : Seq(Steps),
                      handle : 1 .. issued \cup {None}, late : BOOLEAN]
            /\ Careful(r, approved, launched, Ended)
            /\ r.todo # <<>> /\ Head(r.todo) = "read"
        BY <1>4 DEF Watched, Bounded, TypeOK, Read, AtStep
      <3>2. /\ requests' = [requests EXCEPT ![t] = q]
            /\ q.route = r.route /\ q.todo = Tail(r.todo) /\ q.late = late
        BY <2>2, <3>1
      <3>3. UNCHANGED <<approved, launched, session, now>>
        BY <1>4 DEF Read, state
      <3>4. approved' = approved /\ launched' = launched /\ Ended' = Ended
        BY <3>3 DEF Ended, SessionLive
      <3> HIDE DEF r, q
      <3>5. Careful(q, approved, launched, Ended)
        <4> SUFFICES ASSUME r.route \in Displaying
                     PROVE  /\ Rechecked(q.todo) /\ (launched \/ Entered(q.todo))
                            /\ WillBeRefused(q, approved, Ended)
          BY <3>2 DEF Careful
        <4>1. Rechecked(r.todo) /\ (launched \/ Entered(r.todo))
          BY <3>1 DEF Careful
        <4>2. /\ Rechecked(q.todo) /\ launched
              /\ Has(q.todo, "check") /\ Has(q.todo, "authorize")
          BY <3>1, <3>2, <4>1, TailKeeps
        <4>3. late => ~ approved \/ Ended
          BY <4>2 DEF Ended
        <4> QED BY <3>2, <4>2, <4>3 DEF WillBeRefused
      <3> QED BY <3>2, <3>4, <3>5, ReplacingStaysCareful
    <2> QED BY <1>4, <2>1, <2>2 DEF Read
  <1>5. ASSUME NEW t \in Slot, RequestStep(t), ~ Read(t)
        PROVE  \A u \in Slot : Careful(requests'[u], approved', launched', Ended')
    <2>1. \/ Refuse(t)
          \/ /\ Proceed(t) /\ requests[t].todo # <<>>
             /\ Head(requests[t].todo) = "check" => SessionLive
             /\ Head(requests[t].todo) = "authorize" => approved
      BY <1>5 DEF RequestStep, Check, Authorize, Open, Issue, Logout, Respond, Login, AtStep
    <2>2. CASE Refuse(t)
      BY <2>2, RefusingStaysCareful
    <2> QED BY <2>1, <2>2, ProceedingStaysCareful
  <1>6. CASE EndApproval \/ Tick \/ UNCHANGED vars
    BY <1>2, <1>6 DEF EndApproval, Tick, vars
  <1> QED BY <1>3, <1>4, <1>5, <1>6 DEF Next

\* A page or a text that was read after the approval or the session had ended is not
\* shown, however long it took to render and whatever other threads did meanwhile.
THEOREM Shown == Spec => []ShownWhileApproved
  <1>1. Watched => ShownWhileApproved
    <2> SUFFICES ASSUME Watched, NEW t \in Slot, requests[t].route \in Displaying,
                        requests[t].todo = <<>>
                 PROVE  ~ requests[t].late
      BY DEF ShownWhileApproved
    <2>1. WillBeRefused(requests[t], approved, Ended)
      BY DEF Watched, Careful
    <2>2. \A step \in Steps : ~ Has(requests[t].todo, step)
      BY DEF Has
    <2> QED BY <2>1, <2>2 DEF WillBeRefused, Steps
  <1> QED BY <1>1, InitWatched, NextWatched, PTL DEF Spec

=============================================================================
