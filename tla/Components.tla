------------------------------ MODULE Components ------------------------------
(***************************************************************************)
(* The components around the write path, composed.  Their modules share no *)
(* variable: what one component does to another is an input of the other's *)
(* own module (the verdict of the breaker, the rows the engine writes, the *)
(* table an ingest leaves).  So interleaving them would tell nothing that  *)
(* one alone does not, and a behaviour is one of one component, chosen at  *)
(* the start, while the others rest.                                       *)
(***************************************************************************)
EXTENDS SchoolBreaker, LoginThrottle, SchoolCaches, RecordSync, AuditArchive,
        CatalogListing, IngestCadence, JobViews, CalendarExport, SubmitReply

VARIABLE focus  \* the component that moves

Focus == {"breaker", "throttle", "caches", "sync", "archive", "listing",
          "cadence", "views", "calendar", "reply"}

componentVars ==
  <<vars, throttleVars, cacheVars, syncVars, archiveVars, listingVars,
    cadenceVars, viewsVars, calendar, answer, focus>>

\* Where a component may start in several ways, it does so only under the focus.
ComponentsInit ==
  /\ focus \in Focus
  /\ SyncInit /\ (focus # "sync" => record = "grades" /\ page = CHOOSE p \in Pages : TRUE)
  /\ ListingInit /\ (focus # "listing" => table = {})
  /\ ViewsInit /\ (focus # "views" => payload = [j \in Jobs |-> CHOOSE p \in Payloads : TRUE])
  /\ Init /\ ThrottleInit /\ CacheInit /\ ArchiveInit /\ CadenceInit
  /\ CalendarInit /\ ReplyInit

Rests(name, vs) == focus # name => UNCHANGED vs

OthersRest ==
  /\ UNCHANGED focus
  /\ Rests("breaker", vars)
  /\ Rests("throttle", throttleVars) /\ Rests("caches", cacheVars)
  /\ Rests("sync", syncVars) /\ Rests("archive", archiveVars)
  /\ Rests("listing", listingVars) /\ Rests("cadence", cadenceVars)
  /\ Rests("views", viewsVars) /\ Rests("calendar", calendar)
  /\ Rests("reply", answer)

ComponentsNext ==
  \/ focus = "breaker" /\ Next /\ OthersRest
  \/ focus = "throttle" /\ ThrottleNext /\ OthersRest
  \/ focus = "caches" /\ CacheNext /\ OthersRest
  \/ focus = "sync" /\ SyncNext /\ OthersRest
  \/ focus = "archive" /\ ArchiveNext /\ OthersRest
  \/ focus = "listing" /\ ListingNext /\ OthersRest
  \/ focus = "cadence" /\ CadenceNext /\ OthersRest
  \/ focus = "views" /\ ViewsNext /\ OthersRest
  \/ focus = "calendar" /\ CalendarNext /\ OthersRest
  \/ focus = "reply" /\ ReplyNext /\ OthersRest

\* The fairness of SchoolBreaker.
ComponentsSpec ==
  /\ ComponentsInit /\ [][ComponentsNext]_componentVars
  /\ WF_componentVars(focus = "breaker" /\ Tick /\ OthersRest)
  /\ \A c \in Callers : WF_componentVars(focus = "breaker" /\ Handle(c) /\ OthersRest)

\* Each component's variables stay in their types.
ComponentsTypeOK ==
  /\ focus = "breaker" => TypeOK
  /\ focus = "throttle" => ThrottleTypeOK
  /\ focus = "caches" => CacheTypeOK
  /\ focus = "sync" => SyncTypeOK
  /\ focus = "archive" => ArchiveTypeOK
  /\ focus = "listing" => ListingTypeOK
  /\ focus = "cadence" => CadenceTypeOK
  /\ focus = "views" => ViewsTypeOK
  /\ focus = "calendar" => CalendarTypeOK
  /\ focus = "reply" => ReplyTypeOK

=============================================================================
