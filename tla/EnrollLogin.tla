----------------------------- MODULE EnrollLogin -----------------------------
(***************************************************************************)
(* The background fan-out of a login: two legs log in to the two stu_enroll *)
(* families at once, each a page, captcha images read by OCR, posted forms  *)
(* and a chain of handoffs and redirects, all under one deadline and        *)
(* through the school gate of the API process, which other handlers use     *)
(* too.  What the legs bought is parked, and the breaker is fed.            *)
(*                                                                         *)
(* A page is what the code tells apart: a redirect, a handoff form, the     *)
(* wrong-code page, anything else.  A code read from an image is fresh      *)
(* until the school issues another image or judges the code.                *)
(***************************************************************************)
EXTENDS SchoolGate

CONSTANTS
  Regweb, Sco,   \* the two legs, among Tasks
  LoginAttempts, \* MAX_LOGIN_ATTEMPTS
  Fetches,       \* MAX_CAPTCHA_FETCHES_PER_ATTEMPT
  Hops,          \* DEFAULT_MAX_HOPS
  Redirects      \* DEFAULT_MAX_REDIRECTS

Legs == {Regweb, Sco}

ASSUME EnrollAssumption ==
  /\ Legs \subseteq Tasks /\ Regweb # Sco
  /\ LoginAttempts \in Nat \ {0} /\ Fetches \in Nat \ {0}
  /\ Hops \in Nat /\ Redirects \in Nat

VARIABLES
  leg,     \* locals of _leg and interactive_login, per leg
  result,  \* the results map of the fan-out; "none" is a missing entry
  fan,     \* where _run_fanout_and_store is
  parked,  \* families whose jar is stored
  fed,     \* what the breaker was told of each leg
  fresh,   \* tasks holding a code of the image the school issued last
  landed   \* ghost: legs that came to the end of their chain

enroll == <<leg, result, fan, parked, fed, landed>>
enrollVars == <<net, enroll, fresh>>

NoLeg == [pc |-> "gone", image |-> FALSE, attempt |-> 0, fetch |-> 0, hops |-> 0, redirects |-> 0]

EnrollInit ==
  /\ GateInit
  /\ leg = [l \in Legs |-> NoLeg]
  /\ result = [l \in Legs |-> "none"]
  /\ fan = "idle" /\ parked = {} /\ fed = [l \in Legs |-> "none"]
  /\ fresh = {} /\ landed = {}

-----------------------------------------------------------------------------
(* A leg ends, or goes on to its next request unless it was cancelled.      *)

\* The leg asks the school and is at `next`; a cancelled one ends at that await,
\* with no entry in the results map.
Proceed(l, next) ==
  /\ IF fan = "run"
       THEN net' = Ask(net, l, FALSE) /\ leg' = [leg EXCEPT ![l] = next]
       ELSE /\ net' = [net EXCEPT !.call[l] = NoRequest]
            /\ leg' = [leg EXCEPT ![l] = NoLeg]
  /\ UNCHANGED <<result, landed>>

EndLeg(l, outcome) ==
  /\ result' = [result EXCEPT ![l] = outcome]
  /\ leg' = [leg EXCEPT ![l] = NoLeg]
  /\ net' = [net EXCEPT !.call[l] = NoRequest]
  /\ landed' = IF outcome = "available" THEN landed \cup {l} ELSE landed

Answered(l, pc) == leg[l].pc = pc /\ net.call[l].stage = "answered"

NextFetch(l) == Proceed(l, [leg[l] EXCEPT !.pc = "captcha", !.fetch = @ + 1])

\* Wrong variant of NextAttempt: the code in hand is posted again.
NextAttemptSameCode(l) ==
  Proceed(l, [leg[l] EXCEPT !.attempt = @ + 1, !.pc = "post"])

\* A fresh image for every attempt, when the login page has one at all.
NextAttempt(l) ==
  Proceed(l, [leg[l] EXCEPT !.attempt = @ + 1,
                            !.pc = IF leg[l].image THEN "captcha" ELSE "post",
                            !.fetch = IF leg[l].image THEN 1 ELSE 0])

-----------------------------------------------------------------------------
(* interactive_login and walk_chain.                                        *)

\* The login page: without form or password field the school is unavailable.
LegPage(l) ==
  /\ Answered(l, "page")
  /\ \/ EndLeg(l, "school_unavailable")
     \/ \E image \in BOOLEAN :
          Proceed(l, [leg[l] EXCEPT !.image = image, !.attempt = 1,
                                    !.pc = IF image THEN "captcha" ELSE "post",
                                    !.fetch = IF image THEN 1 ELSE 0])
  /\ UNCHANGED <<fan, parked, fed, fresh>>

\* fetch_validcode: not an image, or the bytes go to the OCR thread.
LegImage(l) ==
  /\ Answered(l, "captcha")
  /\ \/ EndLeg(l, "school_unavailable")
     \/ /\ leg' = [leg EXCEPT ![l].pc = "ocr"]
        /\ net' = [net EXCEPT !.call[l] = NoRequest]
        /\ UNCHANGED <<result, landed>>
  /\ UNCHANGED <<fan, parked, fed, fresh>>

\* The thread returns: four digits are posted, and so is whatever the last fetch
\* of the attempt gave; or it raises.
LegOcr(l) ==
  /\ leg[l].pc = "ocr"
  /\ \/ Proceed(l, [leg[l] EXCEPT !.pc = "post", !.fetch = 0]) /\ fresh' = fresh \cup {l}
     \/ leg[l].fetch < Fetches /\ NextFetch(l) /\ UNCHANGED fresh
     \/ EndLeg(l, "unexpected") /\ UNCHANGED fresh
  /\ UNCHANGED <<fan, parked, fed>>

\* Wrong variant of Walk: handoffs are followed as long as they come.
WalkOn(l, page) ==
  \/ /\ page = "redirect" /\ leg[l].redirects < Redirects
     /\ Proceed(l, [NoLeg EXCEPT !.pc = "walk", !.redirects = leg[l].redirects + 1,
                                 !.hops = leg[l].hops])
  \/ /\ page = "handoff"
     /\ Proceed(l, [NoLeg EXCEPT !.pc = "walk", !.redirects = leg[l].redirects,
                                 !.hops = leg[l].hops + 1])
  \/ /\ page = "redirect" => leg[l].redirects = Redirects
     /\ page # "handoff"
     /\ EndLeg(l, "available")

\* One turn of the chain walker on a page: follow, forward, or land.
Walk(l, page) ==
  \/ /\ page = "redirect" /\ leg[l].redirects < Redirects
     /\ Proceed(l, [NoLeg EXCEPT !.pc = "walk", !.redirects = leg[l].redirects + 1,
                                 !.hops = leg[l].hops])
  \/ /\ page = "handoff" /\ leg[l].hops < Hops
     /\ Proceed(l, [NoLeg EXCEPT !.pc = "walk", !.redirects = leg[l].redirects,
                                 !.hops = leg[l].hops + 1])
  \/ /\ page = "redirect" => leg[l].redirects = Redirects
     /\ page = "handoff" => leg[l].hops = Hops
     /\ EndLeg(l, "available")

\* The answer to the posted form.  Only the wrong-code page costs an attempt;
\* anything else, known or not, goes to the walker.
LegPost(l) ==
  /\ Answered(l, "post")
  /\ fresh' = fresh \ {l}
  /\ \/ IF leg[l].attempt < LoginAttempts
          THEN NextAttempt(l)
          ELSE EndLeg(l, "captcha_budget")
     \/ \E page \in {"redirect", "handoff", "other"} : Walk(l, page)
  /\ UNCHANGED <<fan, parked, fed>>

LegWalk(l) ==
  /\ Answered(l, "walk")
  /\ \E page \in {"redirect", "handoff", "other"} : Walk(l, page)
  /\ UNCHANGED <<fan, parked, fed, fresh>>

\* SelcrsUnavailable, or an exception nobody expected: this leg only.
LegFails(l) ==
  /\ \/ net.call[l].stage = "unavailable" /\ EndLeg(l, "school_unavailable")
     \/ net.call[l].stage = "broken" /\ EndLeg(l, "unexpected")
  /\ fresh' = fresh \ {l}
  /\ UNCHANGED <<fan, parked, fed>>

Leg(l) == LegPage(l) \/ LegImage(l) \/ LegOcr(l) \/ LegPost(l) \/ LegWalk(l) \/ LegFails(l)

\* A captcha request that reaches the school makes it issue another image, also
\* when the answer is lost and the request is sent again.
LegOnTheWire(l) ==
  /\ OnTheWire(l)
  /\ fresh' = IF leg[l].pc = "captcha" THEN fresh \ {l} ELSE fresh
  /\ UNCHANGED enroll

-----------------------------------------------------------------------------
(* fanout_subsystem_logins and _run_fanout_and_store.                       *)

\* The site login succeeded and the feature is on.
FanStarts ==
  /\ fan = "idle"
  /\ fan' = "run"
  /\ leg' = [l \in Legs |-> [NoLeg EXCEPT !.pc = "page"]]
  /\ net' = Ask(Ask(net, Regweb, FALSE), Sco, FALSE)
  /\ UNCHANGED <<result, parked, fed, fresh, landed>>

\* move_on_after: the timer may fire whenever a leg is still under way.
Deadline ==
  /\ fan = "run"
  /\ \E l \in Legs : leg[l].pc # "gone"
  /\ fan' = "closing"
  /\ UNCHANGED <<net, leg, result, parked, fed, fresh, landed>>

\* Cancellation reaches a leg that awaits the school; one whose OCR thread runs
\* is waited for, one whose answer is there already resumes first.
CutOff(l) ==
  /\ fan = "closing"
  /\ net.call[l].stage \in Waiting \cup Inside
  /\ net' = Cancel(net, l)
  /\ leg' = [leg EXCEPT ![l] = NoLeg]
  /\ fresh' = fresh \ {l}
  /\ UNCHANGED <<result, fan, parked, fed, landed>>

\* Wrong variant of Join: a fan-out that was cut off reports nothing but that.
JoinAllOrNothing ==
  /\ fan \in {"run", "closing"}
  /\ \A l \in Legs : leg[l].pc = "gone"
  /\ result' = [l \in Legs |->
       IF fan = "closing" \/ result[l] = "none" THEN "timeout" ELSE result[l]]
  /\ fan' = "park_regweb"
  /\ UNCHANGED <<net, leg, parked, fed, fresh, landed>>

\* Both legs are over; one missing from the results was cut off.
Join ==
  /\ fan \in {"run", "closing"}
  /\ \A l \in Legs : leg[l].pc = "gone"
  /\ result' = [l \in Legs |-> IF result[l] = "none" THEN "timeout" ELSE result[l]]
  /\ fan' = "park_regweb"
  /\ UNCHANGED <<net, leg, parked, fed, fresh, landed>>

Park(here, l, next) ==
  /\ fan = here /\ fan' = next
  /\ parked' = IF result[l] = "available" THEN parked \cup {l} ELSE parked
  /\ UNCHANGED <<net, leg, result, fed, fresh, landed>>

\* Failures on our side say nothing about the school.
Verdict(outcome) ==
  CASE outcome = "available" -> "classified"
    [] outcome = "school_unavailable" -> "unknown"
    [] OTHER -> "none"

Feed(here, l, next) ==
  /\ fan = here /\ fan' = next
  /\ fed' = [fed EXCEPT ![l] = Verdict(result[l])]
  /\ UNCHANGED <<net, leg, result, parked, fresh, landed>>

Store ==
  \/ Park("park_regweb", Regweb, "park_sco") \/ Park("park_sco", Sco, "feed_regweb")
  \/ Feed("feed_regweb", Regweb, "feed_sco") \/ Feed("feed_sco", Sco, "end")

\* Redis fails a command: logged, and the rest is left out.
StoreFails ==
  /\ fan \in {"park_regweb", "park_sco", "feed_regweb", "feed_sco"}
  /\ fan' = "failed"
  /\ UNCHANGED <<net, leg, result, parked, fed, fresh, landed>>

FanOutStep == FanStarts \/ Deadline \/ (\E l \in Legs : CutOff(l)) \/ Join \/ Store \/ StoreFails

-----------------------------------------------------------------------------
(* Properties.                                                              *)

LegState == [pc : {"gone", "page", "captcha", "ocr", "post", "walk"}, image : BOOLEAN,
             attempt : 0..LoginAttempts, fetch : 0..Fetches, hops : 0..Hops,
             redirects : 0..Redirects]

EnrollTypeOK ==
  /\ leg \in [Legs -> LegState]
  /\ result \in [Legs -> {"none", "available", "captcha_budget", "school_unavailable",
                           "timeout", "unexpected"}]
  /\ fan \in {"idle", "run", "closing", "park_regweb", "park_sco", "feed_regweb",
              "feed_sco", "end", "failed"}
  /\ parked \subseteq Legs /\ landed \subseteq Legs /\ fresh \subseteq Tasks
  /\ fed \in [Legs -> {"none", "classified", "unknown"}]

\* One leg's failure costs only that leg: what a leg had bought when the other was
\* cut off, broke or found the school down is parked, and nothing else is.  And the
\* breaker hears of the school only: a spent captcha budget, a deadline or an error
\* of ours neither clears a streak nor feeds it.
FinishedLegKept ==
  /\ fan = "end" => parked = landed
  /\ \A l \in Legs : /\ fed[l] = "classified" => l \in landed
                    /\ fed[l] = "unknown" => result[l] = "school_unavailable"

=============================================================================
