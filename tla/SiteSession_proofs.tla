-------------------------- MODULE SiteSession_proofs --------------------------
(***************************************************************************)
(* A logout is final, every key written has a lifetime and no hard cap     *)
(* slides, for every number of requests in flight and all lifetimes.       *)
(***************************************************************************)
EXTENDS SiteSession, TLAPS

\* Only the login creates the session key, and it is over once there is a
\* cookie to log out with.
LogoutInv ==
  /\ login \in {"session", "jar", "anchor", "done"}
  /\ out => ~site /\ login = "done"

LEMMA LogoutInit == Init => LogoutInv
  BY DEF Init, LogoutInv

\* The steps of a request, whatever it is doing, leave the session key alone.
LEMMA ServeKeepsSession ==
  ASSUME NEW c \in Handlers, Serve(c)
  PROVE  UNCHANGED <<site, login, out>>
  <1>1. CASE \E e \in Endpoints : Arrive(c, e)
    BY <1>1 DEF Arrive, data
  <1>2. CASE Refresh(c)
    BY <1>2 DEF Refresh, data
  <1>3. CASE LoadAnchor(c) \/ DropJar(c) \/ LoadJar(c) \/ TouchJar(c)
    BY <1>3 DEF LoadAnchor, DropJar, LoadJar, TouchJar, data
  <1>4. CASE ReadSchool(c) \/ StoreSnapshot(c)
    BY <1>4 DEF ReadSchool, StoreSnapshot, data
  <1>5. CASE Reauth(c) \/ ReauthParksJar(c) \/ ReauthParksAnchor(c)
    BY <1>5 DEF Reauth, ReauthParksJar, ReauthParksAnchor, data
  <1>6. CASE HandlerDies(c)
    BY <1>6 DEF HandlerDies, data
  <1> QED
    BY <1>1, <1>2, <1>3, <1>4, <1>5, <1>6 DEF Serve

LEMMA LogoutStep == LogoutInv /\ [Next]_vars => LogoutInv'
  <1> SUFFICES ASSUME LogoutInv, [Next]_vars PROVE LogoutInv'
    OBVIOUS
  <1>1. CASE LoginStep
    <2>1. ~out
      BY <1>1 DEF LoginStep, CreateSiteSession, LoginParksJar, LoginDone, LogoutInv
    <2> QED
      BY <1>1, <2>1 DEF LoginStep, CreateSiteSession, LoginParksJar, LoginDone, LogoutInv
  <1>2. CASE RunFanoutAndStore
    BY <1>2 DEF RunFanoutAndStore, FanoutParksJar, FanoutParksAnchor, FanoutGivesUp,
                data, LogoutInv
  <1>3. CASE \E c \in Handlers : Serve(c)
    BY <1>3, ServeKeepsSession DEF LogoutInv
  <1>4. CASE Logout
    BY <1>4 DEF Logout, LogoutInv
  <1>5. CASE SiteLapses
    BY <1>5 DEF SiteLapses, LogoutInv
  <1>6. CASE StudentQuiet \/ Tick \/ \E f \in Families : SnapshotLapses(f)
    BY <1>6 DEF StudentQuiet, Tick, SnapshotLapses, data, LogoutInv
  <1>7. CASE UNCHANGED vars
    BY <1>7 DEF vars, data, LogoutInv
  <1> QED
    BY <1>1, <1>2, <1>3, <1>4, <1>5, <1>6, <1>7 DEF Next

\* A session that was logged out never resolves again: no refresh, jar, re-login
\* or background fan-out that was in flight brings its key back.
THEOREM SessionLogoutIsFinal == Spec => []LogoutIsFinal
  <1>1. LogoutInv => LogoutIsFinal
    BY DEF LogoutInv, LogoutIsFinal
  <1> QED
    BY <1>1, LogoutInit, LogoutStep, PTL DEF Spec

-----------------------------------------------------------------------------
(* Lifetimes: what keeps sliding under the hard cap, and nothing without end. *)

Handling == [pc : {"idle", "refresh", "anchor", "drop", "jar", "touch", "school", "store",
                   "sso2", "park", "cap"},
             e : Endpoints]

\* Every jar, anchor and snapshot has a lifetime; the fan-out parks the families
\* that the login does not; only a submit parks a jar, and only a sync a snapshot.
LifetimesInv ==
  /\ site \in BOOLEAN /\ out \in BOOLEAN /\ quiet \in BOOLEAN
  /\ jar \in [Families -> 0..Sliding] /\ anchor \in [Families -> 0..Hard]
  /\ snap \in [Families -> {"none", "ttl"}]
  /\ login \in {"session", "jar", "anchor", "done"}
  /\ fanout \in [left : SUBSET (Families \ {"selcrs"}), pc : {"jar", "anchor"}]
  /\ h \in [Handlers -> Handling]
  /\ \A c \in Handlers :
       /\ h[c].pc \in {"sso2", "park", "cap"} => h[c].e.op = "park"
       /\ h[c].pc = "store" => h[c].e.keeps

\* The families are what the endpoints and the fan-out say.
LEMMA FamiliesKnown ==
  /\ \A e \in Endpoints : e.family \in Families /\ e.op \in {"load", "park", "resolve"}
  /\ Idle \in Handling
  /\ LifetimesInv /\ fanout.left # {} => FanoutFamily \in Families
  <1>1. \A e \in Endpoints : e.family \in Families
    BY DEF Endpoints
  <1>2. \A e \in Endpoints : e.op \in {"load", "park", "resolve"}
    BY DEF Endpoints, SelectionsSync, GradesSync, GetStage, PostWritePreview,
           GetPaymentStatus, GetEnrollmentCert, GetRegistrationChecklist,
           GetPaymentReceipt, PostWriteSubmit, GetMe, Live
  <1>3. GetMe \in Endpoints
    BY SessionAssumption DEF Endpoints, GetMe
  <1>4. Idle \in Handling
    BY <1>3 DEF Idle, Handling
  <1>5. LifetimesInv /\ fanout.left # {} => FanoutFamily \in Families
    <2>1. LifetimesInv => fanout.left \subseteq Families \ {"selcrs"}
      BY DEF LifetimesInv
    <2>2. Families \ {"selcrs"} \subseteq {"regweb", "stusco"}
      BY SessionAssumption
    <2> QED
      BY <2>1, <2>2 DEF FanoutFamily
  <1> QED
    BY <1>1, <1>2, <1>4, <1>5

LEMMA LifetimesInit == Init => LifetimesInv
  <1> SUFFICES ASSUME Init PROVE LifetimesInv
    OBVIOUS
  <1>1. Idle \in Handling /\ Idle.pc = "idle"
    BY FamiliesKnown DEF Idle
  <1>2. 0 \in 0..Sliding /\ 0 \in 0..Hard
    BY SessionAssumption
  <1>3. h \in [Handlers -> Handling] /\ \A c \in Handlers : h[c].pc = "idle"
    BY <1>1 DEF Init
  <1>4. /\ jar \in [Families -> 0..Sliding] /\ anchor \in [Families -> 0..Hard]
        /\ snap \in [Families -> {"none", "ttl"}]
    BY <1>2 DEF Init
  <1>5. fanout \in [left : SUBSET (Families \ {"selcrs"}), pc : {"jar", "anchor"}]
    BY DEF Init
  <1> QED
    BY <1>3, <1>4, <1>5 DEF Init, LifetimesInv

LEMMA ServeKeepsLifetimes ==
  ASSUME LifetimesInv, NEW c \in Handlers, Serve(c)
  PROVE  LifetimesInv'
  <1>1. /\ h[c] \in Handling /\ h[c].e.family \in Families
        /\ h[c].e.op \in {"load", "park", "resolve"}
        /\ Idle \in Handling /\ Idle.pc = "idle"
    BY FamiliesKnown DEF LifetimesInv, Handling, Idle
  <1>2. Sliding \in 0..Sliding /\ Hard \in 0..Hard /\ 0 \in 0..Sliding
    BY SessionAssumption
  <1>3. ASSUME Leave(c), UNCHANGED <<site, anchor, login, fanout, out, quiet>>,
               jar' \in [Families -> 0..Sliding], snap' \in [Families -> {"none", "ttl"}]
        PROVE  LifetimesInv'
    BY <1>1, <1>3 DEF LifetimesInv, Leave
  <1>4. ASSUME NEW pc \in {"anchor", "drop", "jar", "touch", "school", "store",
                           "sso2", "park", "cap"},
               Goto(c, pc), UNCHANGED <<site, anchor, snap, login, fanout, out, quiet>>,
               jar' \in [Families -> 0..Sliding],
               pc \in {"sso2", "park", "cap"} => h[c].e.op = "park",
               pc = "store" => h[c].e.keeps
        PROVE  LifetimesInv'
    BY <1>1, <1>4 DEF LifetimesInv, Goto, Handling
  <1>5. jar \in [Families -> 0..Sliding] /\ snap \in [Families -> {"none", "ttl"}]
    BY DEF LifetimesInv
  <1>6. CASE \E e \in Endpoints : Arrive(c, e)
    BY <1>6 DEF Arrive, data, LifetimesInv, Handling
  <1>7. CASE Refresh(c)
    BY <1>1, <1>3, <1>4, <1>5, <1>7 DEF Refresh, Resolved, data
  <1>8. CASE LoadAnchor(c) \/ DropJar(c) \/ LoadJar(c)
    BY <1>1, <1>2, <1>3, <1>4, <1>5, <1>8 DEF LoadAnchor, DropJar, LoadJar, data
  <1>9. CASE TouchJar(c)
    BY <1>1, <1>2, <1>4, <1>5, <1>9 DEF TouchJar
  <1>10. CASE ReadSchool(c) \/ StoreSnapshot(c)
    BY <1>1, <1>3, <1>4, <1>5, <1>10 DEF ReadSchool, StoreSnapshot, data
  <1>11. CASE Reauth(c)
    <2>1. h[c].e.op = "park"
      BY <1>11 DEF Reauth, LifetimesInv
    <2> QED
      BY <1>3, <1>4, <1>5, <1>11, <2>1 DEF Reauth, data
  <1>12. CASE ReauthParksJar(c)
    <2>1. h[c].e.op = "park"
      BY <1>12 DEF ReauthParksJar, LifetimesInv
    <2> QED
      BY <1>1, <1>2, <1>4, <1>5, <1>12, <2>1 DEF ReauthParksJar, ParkJar
  <1>13. CASE ReauthParksAnchor(c)
    BY <1>1, <1>2, <1>13 DEF ReauthParksAnchor, ParkAnchor, Leave, LifetimesInv
  <1>14. CASE HandlerDies(c)
    BY <1>3, <1>5, <1>14 DEF HandlerDies, data
  <1> QED
    BY <1>6, <1>7, <1>8, <1>9, <1>10, <1>11, <1>12, <1>13, <1>14 DEF Serve

LEMMA LifetimesStep == LifetimesInv /\ [Next]_vars => LifetimesInv'
  <1> SUFFICES ASSUME LifetimesInv, [Next]_vars PROVE LifetimesInv'
    OBVIOUS
  <1>1. Sliding \in 0..Sliding /\ Hard \in 0..Hard /\ 0 \in 0..Sliding /\ 0 \in 0..Hard
    BY SessionAssumption
  <1>2. CASE LoginStep
    <2>1. "selcrs" \in Families
      BY SessionAssumption
    <2>2. CASE CreateSiteSession
      BY <2>2 DEF CreateSiteSession, LifetimesInv
    <2>3. CASE LoginParksJar
      BY <1>1, <2>1, <2>3 DEF LoginParksJar, ParkJar, LifetimesInv
    <2>4. CASE LoginDone
      BY <1>1, <2>1, <2>4 DEF LoginDone, ParkAnchor, LifetimesInv
    <2> QED
      BY <1>2, <2>2, <2>3, <2>4 DEF LoginStep
  <1>3. CASE RunFanoutAndStore
    <2>1. FanoutFamily \in Families
      BY <1>3, FamiliesKnown
         DEF RunFanoutAndStore, FanoutParksJar, FanoutParksAnchor, FanoutGivesUp
    <2>2. CASE FanoutParksJar
      BY <1>1, <2>1, <2>2 DEF FanoutParksJar, ParkJar, LifetimesInv
    <2>3. CASE FanoutParksAnchor
      BY <1>1, <2>1, <2>3 DEF FanoutParksAnchor, ParkAnchor, LifetimesInv
    <2>4. CASE FanoutGivesUp
      BY <2>4 DEF FanoutGivesUp, data, LifetimesInv
    <2> QED
      BY <1>3, <2>2, <2>3, <2>4 DEF RunFanoutAndStore
  <1>4. CASE \E c \in Handlers : Serve(c)
    BY <1>4, ServeKeepsLifetimes
  <1>5. CASE Logout
    BY <1>1, <1>5 DEF Logout, LifetimesInv
  <1>6. CASE SiteLapses \/ StudentQuiet
    BY <1>6 DEF SiteLapses, StudentQuiet, data, LifetimesInv
  <1>7. CASE \E f \in Families : SnapshotLapses(f)
    BY <1>7 DEF SnapshotLapses, LifetimesInv
  <1>8. CASE Tick
    <2>1. \A f \in Families : jar[f] \in 0..Sliding /\ anchor[f] \in 0..Hard
      BY DEF LifetimesInv
    <2>2. \A f \in Families : Less(jar[f]) \in 0..Sliding /\ Less(anchor[f]) \in 0..Hard
      BY <2>1, SessionAssumption DEF Less
    <2> QED
      BY <1>8, <2>2 DEF Tick, LifetimesInv
  <1>9. CASE UNCHANGED vars
    BY <1>9 DEF vars, data, LifetimesInv
  <1> QED
    BY <1>2, <1>3, <1>4, <1>5, <1>6, <1>7, <1>8, <1>9 DEF Next

\* Every key of a session but the session key itself is written with a lifetime,
\* whoever writes it and whenever, also after the logout: a jar's is the sliding
\* one at most, an anchor's the hard one, and no snapshot is kept for ever.
THEOREM SessionKeysHaveLifetimes == Spec => []LifetimesInv
  BY LifetimesInit, LifetimesStep, PTL DEF Spec

\* A password was verified and the hard cap is about to be set.
Verified ==
  login = "anchor" \/ fanout.left # {} \/ \E c \in Handlers : h[c].e.op = "park"

\* The hard cap does not slide: a cap that stands only runs down, and one that is
\* gone comes back only where a password was verified.  So a jar that pages keep
\* touching is handed out for no longer than Hard ticks after a verification.
CapsRunDown ==
  \A f \in Families :
    \/ anchor'[f] \in {anchor[f], Less(anchor[f]), 0}
    \/ anchor[f] = 0 /\ anchor'[f] = Hard /\ Verified

\* No page, sync, fan-out or clock extends the hard cap of a jar (auth/sessions.py).
THEOREM SessionCapsDoNotSlide == Spec => [][CapsRunDown]_vars
  <1>1. LifetimesInv /\ [Next]_vars => [CapsRunDown]_vars
    <2> SUFFICES ASSUME LifetimesInv, Next, NEW f \in Families
                 PROVE  \/ anchor'[f] \in {anchor[f], Less(anchor[f]), 0}
                        \/ anchor[f] = 0 /\ anchor'[f] = Hard /\ Verified
      BY DEF CapsRunDown
    <2>1. anchor \in [Families -> 0..Hard]
      BY DEF LifetimesInv
    <2>2. CASE LoginStep
      BY <2>1, <2>2 DEF LoginStep, CreateSiteSession, LoginParksJar, LoginDone, ParkAnchor, Verified
    <2>3. CASE RunFanoutAndStore
      BY <2>1, <2>3 DEF RunFanoutAndStore, FanoutParksJar, FanoutParksAnchor, FanoutGivesUp,
                        data, ParkAnchor, Verified
    <2>4. ASSUME NEW c \in Handlers, Serve(c)
          PROVE  anchor' = anchor \/ ReauthParksAnchor(c)
      BY <2>4 DEF Serve, Arrive, Refresh, LoadAnchor, DropJar, LoadJar, TouchJar, ReadSchool,
                  StoreSnapshot, Reauth, ReauthParksJar, HandlerDies, data
    <2>5. ASSUME NEW c \in Handlers, ReauthParksAnchor(c)
          PROVE  \/ anchor'[f] = anchor[f]
                 \/ anchor[f] = 0 /\ anchor'[f] = Hard /\ Verified
      <3>1. h[c].e.op = "park"
        BY <2>5 DEF ReauthParksAnchor, LifetimesInv
      <3> QED
        BY <2>1, <2>5, <3>1 DEF ReauthParksAnchor, ParkAnchor, Verified
    <2>6. CASE Logout \/ SiteLapses \/ StudentQuiet
      BY <2>6 DEF Logout, SiteLapses, StudentQuiet, data
    <2>7. CASE Tick \/ \E g \in Families : SnapshotLapses(g)
      BY <2>7 DEF Tick, SnapshotLapses
    <2> QED
      BY <2>2, <2>3, <2>4, <2>5, <2>6, <2>7 DEF Next
  <1> QED
    BY <1>1, SessionKeysHaveLifetimes, PTL DEF Spec

=============================================================================
