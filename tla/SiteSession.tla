------------------------------ MODULE SiteSession ------------------------------
(***************************************************************************)
(* One site session in Redis: the session key, the school jars parked      *)
(* under its id, each with a hard-cap anchor, and the snapshots synced     *)
(* with them.  Login, the background fan-out it starts, the endpoints that *)
(* call the school with a jar, the re-login of a submit and the logout     *)
(* interleave between single Redis commands.  Every key is named by the    *)
(* session id, so sessions do not share state and one is enough.           *)
(*                                                                         *)
(* Jar and anchor lifetimes are counted in ticks, since the point is which *)
(* lapses first.  The week of a session key or a snapshot only has to end. *)
(***************************************************************************)
EXTENDS Naturals

CONSTANTS
  Handlers,  \* requests of this session being served at the same time
  Families,  \* jar families in use, out of "selcrs", "regweb", "stusco"
  Sliding,   \* SELCRS_SESSION_TTL_SLIDING, in ticks
  Hard       \* SELCRS_SESSION_TTL_HARD, in ticks

ASSUME SessionAssumption ==
  /\ "selcrs" \in Families
  /\ Families \subseteq {"selcrs", "regweb", "stusco"}
  /\ Sliding \in Nat \ {0} /\ Hard \in Nat \ {0}

VARIABLES
  site,    \* site_session:{id} exists
  jar,     \* ticks until the jar of the family expires; 0 = no jar
  anchor,  \* ticks until its hard-cap anchor expires; 0 = none
  snap,    \* the snapshot synced with it: "none", "ttl", or "kept" for ever
  login,   \* where the login is; the cookie is known once it is "done"
  fanout,  \* the background fan-out: families left to park, and its step
  h,       \* the handlers
  out,     \* the student logged out
  quiet    \* the student submits no batch any more

data == <<site, jar, anchor, snap>>
vars == <<data, login, fanout, h, out, quiet>>

-----------------------------------------------------------------------------
(* The endpoints of a session, by what they do with its keys.  Several of   *)
(* them are the same in this respect.                                       *)

SelectionsSync == [op |-> "load", family |-> "selcrs", keeps |-> TRUE]
GradesSync     == [op |-> "load", family |-> "stusco", keeps |-> TRUE]

\* A jar and a live page, nothing kept.
Live(f) == [op |-> "load", family |-> f, keeps |-> FALSE]

GetStage         == Live("selcrs")
PostWritePreview == Live("selcrs")

GetPaymentStatus         == Live("regweb")
GetEnrollmentCert        == Live("regweb")
GetRegistrationChecklist == Live("regweb")
GetPaymentReceipt        == Live("regweb")

\* The password is verified by the school again and a fresh jar is parked.
PostWriteSubmit == [op |-> "park", family |-> "selcrs", keeps |-> FALSE]

\* The session is only resolved.
GetMe == [op |-> "resolve", family |-> "selcrs", keeps |-> FALSE]

Endpoints ==
  {e \in {SelectionsSync, GradesSync, GetStage, PostWritePreview,
          GetPaymentStatus, GetEnrollmentCert, GetRegistrationChecklist,
          GetPaymentReceipt, PostWriteSubmit, GetMe} : e.family \in Families}

Idle == [pc |-> "idle", e |-> GetMe]

Init ==
  /\ site = FALSE
  /\ jar = [f \in Families |-> 0]
  /\ anchor = [f \in Families |-> 0]
  /\ snap = [f \in Families |-> "none"]
  /\ login = "session"
  /\ fanout = [left |-> {}, pc |-> "jar"]
  /\ h = [c \in Handlers |-> Idle]
  /\ out = FALSE /\ quiet = FALSE

Goto(c, pc) == h' = [h EXCEPT ![c].pc = pc]

Leave(c) == h' = [h EXCEPT ![c] = Idle]

\* SET EX on the jar; SET NX EX on the anchor.
ParkJar(f) == jar' = [jar EXCEPT ![f] = Sliding]

ParkAnchor(f) == anchor' = [anchor EXCEPT ![f] = IF @ = 0 THEN Hard ELSE @]

-----------------------------------------------------------------------------
(* Login and fan-out.                                                       *)

CreateSiteSession ==
  /\ login = "session"
  /\ site' = TRUE /\ login' = "jar"
  /\ UNCHANGED <<jar, anchor, snap, fanout, h, out, quiet>>

LoginParksJar ==
  /\ login = "jar"
  /\ ParkJar("selcrs") /\ login' = "anchor"
  /\ UNCHANGED <<site, anchor, snap, fanout, h, out, quiet>>

\* The response carries the cookie; the fan-out is scheduled if enabled.
LoginDone ==
  /\ login = "anchor"
  /\ ParkAnchor("selcrs") /\ login' = "done"
  /\ \E left \in {{}, Families \ {"selcrs"}} : fanout' = [left |-> left, pc |-> "jar"]
  /\ UNCHANGED <<site, jar, snap, h, out, quiet>>

\* regweb is parked before stusco.
FanoutFamily ==
  IF "regweb" \in fanout.left THEN "regweb" ELSE "stusco"

FanoutParksJar ==
  /\ fanout.left # {} /\ fanout.pc = "jar"
  /\ ParkJar(FanoutFamily)
  /\ fanout' = [fanout EXCEPT !.pc = "anchor"]
  /\ UNCHANGED <<site, anchor, snap, login, h, out, quiet>>

FanoutParksAnchor ==
  /\ fanout.left # {} /\ fanout.pc = "anchor"
  /\ ParkAnchor(FanoutFamily)
  /\ fanout' = [left |-> fanout.left \ {FanoutFamily}, pc |-> "jar"]
  /\ UNCHANGED <<site, jar, snap, login, h, out, quiet>>

\* A leg without a jar is skipped; an exception or a restart ends the task.
FanoutGivesUp ==
  /\ fanout.left # {}
  /\ \/ fanout.pc = "jar" /\ fanout' = [fanout EXCEPT !.left = @ \ {FanoutFamily}]
     \/ fanout' = [left |-> {}, pc |-> "jar"]
  /\ UNCHANGED <<data, login, h, out, quiet>>

-----------------------------------------------------------------------------
(* Serving a request.                                                       *)

\* The cookie's session resolves, or the request is refused with a 401.
Arrive(c, e) ==
  /\ login = "done" /\ site /\ h[c].pc = "idle"
  /\ e.op = "park" => ~quiet
  /\ h' = [h EXCEPT ![c] = [pc |-> "refresh", e |-> e]]
  /\ UNCHANGED <<data, login, fanout, out, quiet>>

Resolved(c) ==
  CASE h[c].e.op = "resolve" -> Leave(c)
    [] h[c].e.op = "park"    -> Goto(c, "sso2")
    [] h[c].e.op = "load"    -> Goto(c, "anchor")

\* Wrong variant of Refresh: the key is written again instead.
RefreshRewrites(c) ==
  /\ h[c].pc = "refresh"
  /\ site' = TRUE
  /\ Resolved(c)
  /\ UNCHANGED <<jar, anchor, snap, login, fanout, out, quiet>>

\* EXPIRE on the session key: a key deleted meanwhile stays deleted.
Refresh(c) ==
  /\ h[c].pc = "refresh"
  /\ Resolved(c)
  /\ UNCHANGED <<data, login, fanout, out, quiet>>

LoadAnchor(c) ==
  /\ h[c].pc = "anchor"
  /\ Goto(c, IF anchor[h[c].e.family] = 0 THEN "drop" ELSE "jar")
  /\ UNCHANGED <<data, login, fanout, out, quiet>>

\* The jar is dropped, whatever was parked since the anchor was read.
DropJar(c) ==
  /\ h[c].pc = "drop"
  /\ jar' = [jar EXCEPT ![h[c].e.family] = 0]
  /\ Leave(c)
  /\ UNCHANGED <<site, anchor, snap, login, fanout, out, quiet>>

LoadJar(c) ==
  /\ h[c].pc = "jar"
  /\ IF jar[h[c].e.family] = 0 THEN Leave(c) ELSE Goto(c, "touch")
  /\ UNCHANGED <<data, login, fanout, out, quiet>>

\* Wrong variant of TouchJar: the anchor slides with the jar.
TouchJarAndAnchor(c) ==
  /\ h[c].pc = "touch"
  /\ jar' = [jar EXCEPT ![h[c].e.family] = IF @ = 0 THEN 0 ELSE Sliding]
  /\ anchor' = [anchor EXCEPT ![h[c].e.family] = IF @ = 0 THEN 0 ELSE Hard]
  /\ Goto(c, "school")
  /\ UNCHANGED <<site, snap, login, fanout, out, quiet>>

TouchJar(c) ==
  /\ h[c].pc = "touch"
  /\ jar' = [jar EXCEPT ![h[c].e.family] = IF @ = 0 THEN 0 ELSE Sliding]
  /\ Goto(c, "school")
  /\ UNCHANGED <<site, anchor, snap, login, fanout, out, quiet>>

\* Breaker open, bounce to the login page or drift: refused, nothing written.
\* A coherent page goes into the snapshot when the endpoint keeps one.
ReadSchool(c) ==
  /\ h[c].pc = "school"
  /\ \/ Leave(c)
     \/ h[c].e.keeps /\ Goto(c, "store")
  /\ UNCHANGED <<data, login, fanout, out, quiet>>

\* Wrong variant of StoreSnapshot: without EX.
StoreSnapshotForever(c) ==
  /\ h[c].pc = "store"
  /\ snap' = [snap EXCEPT ![h[c].e.family] = "kept"]
  /\ Leave(c)
  /\ UNCHANGED <<site, jar, anchor, login, fanout, out, quiet>>

StoreSnapshot(c) ==
  /\ h[c].pc = "store"
  /\ snap' = [snap EXCEPT ![h[c].e.family] = "ttl"]
  /\ Leave(c)
  /\ UNCHANGED <<site, jar, anchor, login, fanout, out, quiet>>

\* The submit's own login: refused in one of many ways, or the jar is parked.
Reauth(c) ==
  /\ h[c].pc = "sso2"
  /\ Leave(c) \/ Goto(c, "park")
  /\ UNCHANGED <<data, login, fanout, out, quiet>>

ReauthParksJar(c) ==
  /\ h[c].pc = "park"
  /\ ParkJar(h[c].e.family)
  /\ Goto(c, "cap")
  /\ UNCHANGED <<site, anchor, snap, login, fanout, out, quiet>>

ReauthParksAnchor(c) ==
  /\ h[c].pc = "cap"
  /\ ParkAnchor(h[c].e.family)
  /\ Leave(c)
  /\ UNCHANGED <<site, jar, snap, login, fanout, out, quiet>>

HandlerDies(c) ==
  /\ h[c].pc # "idle"
  /\ Leave(c)
  /\ UNCHANGED <<data, login, fanout, out, quiet>>

-----------------------------------------------------------------------------
(* The end of a session.                                                    *)

\* One DELETE of all the keys of the session.
Logout ==
  /\ login = "done" /\ ~out
  /\ site' = FALSE
  /\ jar' = [f \in Families |-> 0]
  /\ anchor' = [f \in Families |-> 0]
  /\ snap' = [f \in Families |-> "none"]
  /\ out' = TRUE
  /\ UNCHANGED <<login, fanout, h, quiet>>

\* A week without a request.
SiteLapses ==
  /\ site /\ login = "done" /\ fanout.left = {} /\ \A c \in Handlers : h[c] = Idle
  /\ site' = FALSE
  /\ UNCHANGED <<jar, anchor, snap, login, fanout, h, out, quiet>>

SnapshotLapses(f) ==
  /\ snap[f] = "ttl"
  /\ snap' = [snap EXCEPT ![f] = "none"]
  /\ UNCHANGED <<site, jar, anchor, login, fanout, h, out, quiet>>

Less(n) == IF n = 0 THEN 0 ELSE n - 1

Tick ==
  /\ jar' = [f \in Families |-> Less(jar[f])]
  /\ anchor' = [f \in Families |-> Less(anchor[f])]
  /\ UNCHANGED <<site, snap, login, fanout, h, out, quiet>>

StudentQuiet ==
  /\ ~quiet /\ quiet' = TRUE
  /\ UNCHANGED <<data, login, fanout, h, out>>

-----------------------------------------------------------------------------
LoginStep == CreateSiteSession \/ LoginParksJar \/ LoginDone

RunFanoutAndStore == FanoutParksJar \/ FanoutParksAnchor \/ FanoutGivesUp

Serve(c) ==
  \/ \E e \in Endpoints : Arrive(c, e)
  \/ Refresh(c) \/ LoadAnchor(c) \/ DropJar(c) \/ LoadJar(c) \/ TouchJar(c)
  \/ ReadSchool(c) \/ StoreSnapshot(c)
  \/ Reauth(c) \/ ReauthParksJar(c) \/ ReauthParksAnchor(c)
  \/ HandlerDies(c)

Next ==
  \/ LoginStep \/ RunFanoutAndStore
  \/ \E c \in Handlers : Serve(c)
  \/ Logout \/ SiteLapses \/ StudentQuiet
  \/ \E f \in Families : SnapshotLapses(f)
  \/ Tick

Spec == Init /\ [][Next]_vars

\* Only the clock has to run.
FairSpec ==
  /\ Spec /\ WF_vars(Tick)
  /\ \A f \in Families : WF_vars(SnapshotLapses(f))

-----------------------------------------------------------------------------
(* Properties.                                                              *)

Loadable(f) == jar[f] > 0 /\ anchor[f] > 0

Empty == ~site /\ \A f \in Families : jar[f] = 0 /\ anchor[f] = 0 /\ snap[f] = "none"

\* A session that was logged out never resolves again, although requests that
\* had resolved it are still refreshing its keys.
LogoutIsFinal == out => ~site

\* Sliding cannot outlive the hard cap: without a new password verification
\* every jar stops being handed out, however often pages keep touching it.
SlidingCannotOutliveHard ==
  <>quiet => \A f \in Families : <>[]~Loadable(f)

\* What requests and the fan-out in flight write after a logout is gone in
\* the end: every key written carries a lifetime.
ResidueExpires == <>out => <>[]Empty

=============================================================================
