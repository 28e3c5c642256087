-------------------------- MODULE MeteredCallsInv --------------------------
(***************************************************************************)
(* Why the properties of MeteredCalls hold: what a process has in memory   *)
(* and what the database has of its call, related phase by phase.          *)
(***************************************************************************)
EXTENDS MeteredCalls

Ends(t) == tx[t].kind = "settle"

\* A call's session reserves while the call is starting and settles while it is
\* ending; the stale job settles.
SessionFits(t) ==
  /\ tx[t].kind = "reserve" =>
       /\ t \in Calls /\ tx[t].call = t
       /\ client[t].phase = "resolved" /\ tx[t].mode = client[t].mode
  /\ Ends(t) =>
       /\ t \in Calls \cup Recoverers
       /\ t \in Calls => /\ tx[t].call = t
                         /\ client[t].phase = "settling" /\ client[t].pending = <<>>
  /\ tx[t].kind = "budget" => t \notin Calls

SessionsFit == \A t \in Tx : SessionFits(t)

\* What a process knows of its reservation, phase by phase: only one whose
\* answer was lost has a reservation it does not know of.
PhaseFits(c) ==
  /\ client[c].phase \in {"new", "resolved"} => event[c].state = "none"
  /\ client[c].phase \in {"open", "settling", "settled", "left"} =>
       event[c].state # "none"
  /\ client[c].phase \notin {"open", "settling"} => client[c].pending = <<>>
  /\ event[c].state = "none" => event[c] = NoEvent /\ client[c].grant = 0
  /\ client[c].phase \in {"new", "resolved", "failed"} => client[c].grant = 0
  /\ event[c].state # "none" =>
       /\ event[c].mode = client[c].mode
       /\ event[c].mode = "requests" => client[c].grant <= event[c].amount

PhasesFit == \A c \in Calls : PhaseFits(c)

\* One tally of a call's steps is of no later moment than another.
Within(early, late) ==
  /\ early.requests <= late.requests
  /\ early.tokens <= late.tokens
  /\ early.requests = 0 => early = NoSteps

\* What is stored, about to be stored or about to be charged of a call is a
\* tally of its steps, and what is charged none older than what is stored.
StepsFit(c) ==
  /\ client[c].steps.requests <= client[c].grant
  /\ Within(client[c].steps, client[c].steps)
  /\ Within(event[c].stored, client[c].steps)
  /\ \A i \in 1..Len(client[c].pending) : Within(client[c].pending[i], client[c].steps)
  /\ event[c].state = "reserved" => event[c].actual = 0

AllStepsFit == \A c \in Calls : StepsFit(c)

TallyFits(t) ==
  Ends(t) => /\ Within(event[tx[t].call].stored, tx[t].tally)
             /\ Within(tx[t].tally, client[tx[t].call].steps)
             /\ t \in Calls => tx[t].tally = client[t].steps

TalliesFit == \A t \in Tx : TallyFits(t)

\* The budget that reservations are granted from was set by an administrator.
BudgetKnown == pool.budget \in Budgets

\* Process, session and database agree on every call.
MemoryFits ==
  SessionsFit /\ PhasesFit /\ AllStepsFit /\ TalliesFit /\ ChargeIsFaithful

CallsInv == CallsTypeOK /\ MemoryFits /\ BudgetKnown /\ RequestsStayInBudget

\* The call is charged for the steps it has made.
Matched(c) ==
  /\ event[c].state = IF client[c].steps.requests = 0 THEN "released" ELSE "finalized"
  /\ event[c].actual = ChargeOf(event[c].mode, client[c].steps)

\* With timely calls: a process soon knows of its reservation, the deadline it
\* then sets is near, and it soon settles after it.  So the reservation of a live
\* call is not stale, the stale job never ends one, and a call whose reservation
\* has ended ended it itself.
OnTime(c) ==
  /\ tx[c].kind = "reserve" /\ tx[c].step = "commit" => now <= tx[c].at + HearTime
  /\ Live(c) => /\ client[c].aborts <= event[c].at + HearTime + CallTimeout
                /\ now <= client[c].aborts + SettleTime
  /\ client[c].phase = "open" => event[c].state = "reserved"
  /\ client[c].phase = "settling" /\ HasEnded(c) => Matched(c)
  /\ client[c].phase = "settled" => Matched(c)

LeavesAlone(t) == Ends(t) => t = tx[t].call \/ ~Live(tx[t].call)

TimelyInv ==
  /\ \A c \in Calls : OnTime(c)
  /\ \A t \in Tx : LeavesAlone(t)
=============================================================================
