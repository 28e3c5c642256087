----------------------------- MODULE StageWork -----------------------------
(***************************************************************************)
(* What a stage of preparation promises whoever asks for it: the work is   *)
(* done in numbered attempts, one at a time; each ends; and a request      *)
(* starts the next only if the attempt it saw the end of is still the last *)
(* one, so requests that overlap start one attempt between them.           *)
(***************************************************************************)
EXTENDS Naturals

CONSTANTS Requests, Nothing
VARIABLES attempt, state, seen

work == <<attempt, state, seen>>

WorkInit ==
  /\ attempt = 0 /\ state = "none"
  /\ seen = [q \in Requests |-> Nothing]

\* The first attempt; it may end at once.
Start(s) ==
  /\ state = "none"
  /\ attempt' = attempt + 1 /\ state' = s
  /\ UNCHANGED seen

Look(q) ==
  /\ state = "ended"
  /\ seen' = [seen EXCEPT ![q] = attempt]
  /\ UNCHANGED <<attempt, state>>

StartAgain(q) ==
  /\ state = "ended" /\ seen[q] = attempt
  /\ attempt' = attempt + 1 /\ state' = "waiting"
  /\ seen' = [seen EXCEPT ![q] = Nothing]

TurnDown(q) ==
  /\ seen[q] # Nothing
  /\ seen' = [seen EXCEPT ![q] = Nothing]
  /\ UNCHANGED <<attempt, state>>

End == state = "waiting" /\ state' = "ended" /\ UNCHANGED <<attempt, seen>>

Remove == state \in {"waiting", "ended"} /\ state' = "removed" /\ UNCHANGED <<attempt, seen>>

WorkNext == \/ \E s \in {"waiting", "ended"} : Start(s)
            \/ \E q \in Requests : Look(q) \/ StartAgain(q) \/ TurnDown(q)
            \/ End \/ Remove

WorkSpec == WorkInit /\ [][WorkNext]_work
=============================================================================
