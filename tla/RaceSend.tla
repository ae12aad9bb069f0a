------------------------------ MODULE RaceSend ------------------------------
(* One signed order, posted over several network paths at once.  The venue   *)
(* takes it at most once, whichever copy arrives first; race_submit collects *)
(* what each path answers, and resolve makes one outcome of it.              *)
EXTENDS Naturals, FiniteSets

CONSTANT Paths   \* the order paths

ASSUME PathsAssumption == IsFiniteSet(Paths)

VARIABLES
  order,    \* at the venue: "absent" | "matched" | "resting"
  request,  \* Paths -> "flying" | "ended": the copy sent over the path
  answer,   \* Paths -> what the venue, or a gateway, answers
  result,   \* Paths -> what race_submit collected
  outcome   \* what it returned

raceVars == <<order, request, answer, result, outcome>>

Replies  == {"matched", "resting", "resting_no_id", "duplicate", "refused", "gateway",
             "bodiless"}
\* Answers resolve has no class for: a rest with no order id, and a status whose
\* body did not arrive.
Unreadable == {"resting_no_id", "bodiless"}
Results  == Replies \cup {"timeout", "none"}
Outcomes == {"matched", "resting", "duplicate", "ambiguous", "rejected", "no_response", "none"}

RaceInit ==
  /\ order = "absent"
  /\ request = [p \in Paths |-> "flying"]
  /\ answer = [p \in Paths |-> "none"]
  /\ result = [p \in Paths |-> "none"]
  /\ outcome = "none"

-----------------------------------------------------------------------------
(* The venue.                                                                *)

\* What becomes of a copy, and what is answered: the venue refuses it, as the
\* edge before the venue may at any time (a 4xx), or takes it, or knows of it.
Handled(o, r) ==
  \/ o = order /\ r = "refused"
  \/ order # "absent" /\ o = order /\ r = "duplicate"
  \/ /\ order = "absent"
     /\ \/ o = "matched" /\ r = "matched"
        \/ o = "resting" /\ r \in {"resting", "resting_no_id"}

\* A copy arrives, also when its path has long timed out.  A gateway may put a
\* 5xx in the place of the venue's answer, and the body may be lost.
Arrive(p) ==
  /\ request[p] = "flying"
  /\ request' = [request EXCEPT ![p] = "ended"]
  /\ \E o \in {"absent", "matched", "resting"}, r \in Replies :
       /\ Handled(o, r)
       /\ order' = o
       /\ \E a \in {r, "gateway", "bodiless"} : answer' = [answer EXCEPT ![p] = a]
  /\ UNCHANGED <<result, outcome>>

\* A copy is lost on the way.
Lose(p) ==
  /\ request[p] = "flying"
  /\ request' = [request EXCEPT ![p] = "ended"]
  /\ UNCHANGED <<order, answer, result, outcome>>

-----------------------------------------------------------------------------
(* race_submit.                                                              *)

Silent == {"timeout", "gateway"}

\* Variant of Resolve that takes silence for a refusal.
ResolvedSilenceRefuses(S) ==
  IF S = {} THEN "no_response"
  ELSE IF "matched" \in S THEN "matched"
  ELSE IF "resting" \in S THEN "resting"
  ELSE IF "duplicate" \in S THEN "duplicate"
  ELSE "rejected"

\* resolve: a match wins, then a rest, then a duplicate; silence everywhere is
\* ambiguous, and anything else is a refusal.
Resolved(S) ==
  IF S = {} THEN "no_response"
  ELSE IF "matched" \in S THEN "matched"
  ELSE IF "resting" \in S THEN "resting"
  ELSE IF "duplicate" \in S THEN "duplicate"
  ELSE IF S \subseteq Silent THEN "ambiguous"
  ELSE "rejected"

Collected(res) == {res[p] : p \in Paths} \ {"none"}

\* Variant of Decisive that returns on a refusal too.
DecisiveOnRefusal(r) == r \in {"matched", "refused"}

\* Only a match is worth returning on before the siblings have answered.
Decisive(r) == r = "matched"

\* The next path to end: its result joins the others, and race_submit returns
\* if it is decisive or the last.
Collect(p, r) ==
  /\ outcome = "none" /\ result[p] = "none"
  /\ result' = [result EXCEPT ![p] = r]
  /\ outcome' = IF Decisive(r) \/ \A q \in Paths : result'[q] # "none"
                THEN Resolved(Collected(result')) ELSE "none"
  /\ UNCHANGED <<order, request, answer>>

Answered(p) == answer[p] # "none" /\ Collect(p, answer[p])
TimesOut(p) == Collect(p, "timeout")

RaceNext == \E p \in Paths : Arrive(p) \/ Lose(p) \/ Answered(p) \/ TimesOut(p)
RaceSpec == RaceInit /\ [][RaceNext]_raceVars

-----------------------------------------------------------------------------
(* Properties.                                                               *)

\* Every variable stays within its range.
RaceTypeOK ==
  /\ order \in {"absent", "matched", "resting"}
  /\ request \in [Paths -> {"flying", "ended"}]
  /\ answer \in [Paths -> Replies \cup {"none"}]
  /\ result \in [Paths -> Results]
  /\ outcome \in Outcomes

\* An order is called refused only on the word of some path, and of none that
\* knew of the order: a duplicate, a timeout or a gateway's error is never a
\* refusal.  The word is the venue's refusal, or an answer nobody can read.
SilenceIsNoRefusal ==
  outcome = "rejected" =>
    /\ \E p \in Paths : result[p] \in {"refused"} \cup Unreadable
    /\ \A p \in Paths : result[p] \notin {"matched", "resting", "duplicate"}

\* A refusal that no path leaves in doubt is final: the caller closes the
\* order's row and gives its shares back, so the order is not at the venue, and
\* no copy of it is still on its way.
Undoubted == \A p \in Paths : result[p] \in {"refused", "none"}
RefusalIsFinal ==
  outcome = "rejected" /\ Undoubted =>
    order = "absent" /\ \A p \in Paths : request[p] = "ended"

\* One refusal is enough: an order that is called refused, by answers that can
\* all be read, is not at the venue.
RefusalIsEnough ==
  outcome = "rejected" /\ (\A p \in Paths : result[p] \notin Unreadable) =>
    order = "absent"

\* Returning early changes nothing: with every answer in hand, those that came
\* after the return included, the outcome would have been the same.
LateAnswers == {IF result[p] # "none" THEN result[p] ELSE answer[p] : p \in Paths} \ {"none"}
OutcomeIsFinal == outcome # "none" => Resolved(LateAnswers) = outcome
=============================================================================
