----------------------------- MODULE SubmitReply -----------------------------
(***************************************************************************)
(* parse_submit_response: what the school's page says of each operation of *)
(* a batch.  A page is a sequence of pieces, table rows and lines, each    *)
(* about some courses and in some words; the page of a rejected batch has  *)
(* a failure section, from its header to the next link.                    *)
(*                                                                         *)
(* The code finds a course by looking for its code as a substring, so a    *)
(* piece about a longer code that contains it is found as well.            *)
(***************************************************************************)
EXTENDS Naturals, Sequences, SequencesExt

CONSTANTS
  CourseCodes,
  Within,   \* pairs of different codes, the first a substring of the second
  Pieces,   \* what a page is made of: kind, codes, words
  MaxPieces \* bound: pieces of a page

ASSUME ReplyAssumption == MaxPieces \in Nat /\ Within \subseteq CourseCodes \X CourseCodes

VARIABLE answer  \* the page of the last reply, its batch and the outcomes

Kinds == {"row", "line", "header", "link", "bounce"}

\* Vocabulary: "done" is a success marker, "refused" a failure marker only,
\* "repeated" a failure marker that is duplicate-like, "listed" is duplicate-like
\* only, and "undone" (a failure marker) contains a success marker.
Words == {"done", "refused", "repeated", "listed", "undone"}

Success(words) == words \cap {"done", "undone"} # {}
Failure(words) == words \cap {"refused", "repeated", "undone"} # {}
DuplicateLike(words) == words \cap {"repeated", "listed"} # {}

Parsed(outcome, from, again) == [outcome |-> outcome, from |-> from, duplicate_like |-> again]

\* Wrong variant of ClassifyFragment: success words are looked for first.
ClassifyFragmentHopefully(at, words) ==
  IF Success(words) THEN Parsed("success", at, FALSE)
  ELSE IF Failure(words) THEN Parsed("failed", at, DuplicateLike(words))
  ELSE Parsed("parse_failed", at, FALSE)

\* A fragment that says both says nothing.
ClassifyFragment(at, words) ==
  IF Success(words) = Failure(words) THEN Parsed("parse_failed", at, FALSE)
  ELSE IF Failure(words) THEN Parsed("failed", at, DuplicateLike(words))
  ELSE Parsed("success", at, FALSE)

\* `code in text`
Mentions(piece, code) ==
  code \in piece.codes \/ \E longer \in piece.codes : <<code, longer>> \in Within

First(S) == CHOOSE i \in S : \A j \in S : i <= j

\* The first row that mentions the code, else the first line; 0 for none.
FragmentForCode(html, S, code) ==
  LET found == {i \in S : Mentions(html[i], code)}
      inRow == {i \in found : html[i].kind = "row"}
  IN IF found = {} THEN 0 ELSE First(IF inRow # {} THEN inRow ELSE found)

Headers(html) == {i \in DOMAIN html : html[i].kind = "header"}

\* Where the failure section is: from the first header to the first link after it.
FailureSection(html) ==
  {i \in DOMAIN html :
     /\ i >= First(Headers(html))
     /\ \A k \in First(Headers(html))..i : html[k].kind # "link"}

ParseOp(html, code) ==
  IF Headers(html) # {}
    THEN LET at == FragmentForCode(html, FailureSection(html), code)
         IN Parsed("failed", at, at # 0 /\ DuplicateLike(html[at].words))
    ELSE LET at == FragmentForCode(html, DOMAIN html, code)
         IN IF at = 0 THEN Parsed("parse_failed", 0, FALSE)
            ELSE ClassifyFragment(at, html[at].words)

Bounced(html) == \E i \in DOMAIN html : html[i].kind = "bounce"

ParseSubmitResponse(html, batch) ==
  IF Bounced(html) THEN [code \in {} |-> 0] ELSE [code \in batch |-> ParseOp(html, code)]

NoReply == [html |-> <<>>, batch |-> {}, parsed |-> [code \in {} |-> 0]]

ReplyInit == answer = NoReply

HtmlsOf(n) == UNION {[1..k -> Pieces] : k \in 0..n}

SchoolReplies ==
  /\ answer = NoReply
  /\ \E html \in HtmlsOf(MaxPieces), batch \in (SUBSET CourseCodes) \ {{}} :
       answer' = [html |-> html, batch |-> batch, parsed |-> ParseSubmitResponse(html, batch)]

OutcomesTaken == answer # NoReply /\ answer' = NoReply

ReplyNext == SchoolReplies \/ OutcomesTaken

ReplySpec == ReplyInit /\ [][ReplyNext]_answer

-----------------------------------------------------------------------------
(* Properties.                                                              *)

ReplyTypeOK ==
  /\ DOMAIN answer.parsed \in {{}, answer.batch}
  /\ \A code \in DOMAIN answer.parsed :
       /\ answer.parsed[code].outcome \in {"success", "failed", "parse_failed"}
       /\ answer.parsed[code].from \in 0..Len(answer.html)
       /\ answer.parsed[code].duplicate_like \in BOOLEAN

\* The pieces of a page that are really about a course.
About(code) == {i \in DOMAIN answer.html : code \in answer.html[i].codes}

\* The page names no longer code with this one inside.
Unmistakable(code) ==
  \A i \in DOMAIN answer.html : \A longer \in answer.html[i].codes : <<code, longer>> \notin Within

\* As long as its code is not part of another code on the page, an operation is
\* judged by what the school said of its own course: it is a success only if a
\* piece about it says so and that piece says nothing against, on a page that
\* rejects nothing; the message kept is never another course's; and an operation
\* the page passes over in silence is a success in no case.
ReplyIsOwn ==
  \A code \in DOMAIN answer.parsed :
    Unmistakable(code) =>
      LET p == answer.parsed[code] IN
      /\ p.from # 0 => p.from \in About(code)
      /\ p.outcome = "success" =>
           /\ \E i \in About(code) : Success(answer.html[i].words) /\ ~Failure(answer.html[i].words)
           /\ Headers(answer.html) = {}
      /\ p.duplicate_like => \E i \in About(code) : DuplicateLike(answer.html[i].words)

=============================================================================
