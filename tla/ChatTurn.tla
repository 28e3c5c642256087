------------------------------ MODULE ChatTurn ------------------------------
(***************************************************************************)
(* The turns of one chat (apps/app lib/ai/turn): a new message starts a    *)
(* turn that streams a reply, a reply that asks the user to approve a call *)
(* pauses, and a continuation answers and resumes it.  Requests of several *)
(* tabs overlap; what a turn read, it uses across the quota reservation,   *)
(* its model calls and the stream, and it writes the reply once, at its    *)
(* end.  Replies are numbered in the order of their positions; the         *)
(* question before each and the parts that are not calls are left out, and *)
(* a step asks for one call.                                               *)
(***************************************************************************)
EXTENDS Integers, FiniteSets

CONSTANTS
  Turns,        \* turns at work at once
  MaxReplies,   \* bound on replies
  MaxCalls,     \* bound on calls the model asks to make
  MaxFaults,    \* bound on what goes wrong
  MayOverrun    \* a turn may outlive CONTINUATION_LEASE_MS

ASSUME ChatTurnAssumption ==
  /\ MaxReplies \in Nat /\ MaxCalls \in Nat /\ MaxFaults \in Nat
  /\ MayOverrun \in BOOLEAN

VARIABLES
  reply,     \* the assistant rows of chat_message
  reserved,  \* how many replies were reserved
  turn,      \* what each turn is at, and holds in memory
  called,    \* how many calls the model asked for
  answer,    \* answer[c]: the user's stored answer to call c
  runs,      \* runs[c]: how often call c was executed
  faults,    \* deaths, cut-off calls, failed writes and overrun leases
  overran    \* a lease ended under the turn that held it

vars == <<reply, reserved, turn, called, answer, runs, faults, overran>>

Replies == 1 .. MaxReplies
Calls == 1 .. MaxCalls

Pausing == {"asked", "approved", "refused"}
CallStates == Pausing \cup {"absent", "ran", "denied", "closed"}
Contents == [Calls -> CallStates]
NoCalls == [c \in Calls |-> "absent"]

NoReply == [row |-> "none", calls |-> NoCalls, claim |-> "none"]
Idle == [at |-> "idle"]
AtWork == {"opening", "streaming", "ending", "removing"}

TypeOK ==
  /\ reply \in [Replies -> [row : {"none", "empty", "held", "gone"}, calls : Contents,
                            claim : {"none", "live", "lapsed"}]]
  /\ reserved \in 0 .. MaxReplies
  /\ turn \in [Turns -> {Idle}
       \cup [at : {"loaded"}, reply : 0 .. MaxReplies, calls : Contents]
       \cup [at : AtWork, reply : Replies, calls : Contents, continues : BOOLEAN]]
  /\ called \in 0 .. MaxCalls
  /\ answer \in [Calls -> {"none", "approved", "refused"}]
  /\ runs \in [Calls -> Nat]
  /\ faults \in 0 .. MaxFaults
  /\ overran \in BOOLEAN
-----------------------------------------------------------------------------
Working(t) == turn[t].at \in AtWork
WorksOn(t, r) == Working(t) /\ turn[t].reply = r

\* The calls a reply pauses for.
PausedCalls(calls) == {c \in Calls : calls[c] \in Pausing}

\* closePendingToolParts: every pending call is given a result.
Close(calls) == [c \in Calls |-> IF calls[c] \in Pausing THEN "closed" ELSE calls[c]]

\* An answer repeating a stored one keeps the stored one.
Applied(calls, says) == [c \in Calls |-> IF calls[c] = "asked" THEN says ELSE calls[c]]

LastMessage(r) == r = reserved /\ reply[r].row \in {"empty", "held"}

\* The reply `closeLastReply` would close; historyOf drops empty replies.
LastHeld ==
  LET held == {r \in Replies : reply[r].row = "held"}
  IN  IF held = {} THEN 0 ELSE CHOOSE r \in held : \A q \in held : q <= r

Failing == faults < MaxFaults /\ faults' = faults + 1
Go(t, to) == turn' = [turn EXCEPT ![t] = to]
Ending(t) == Go(t, [turn[t] EXCEPT !.at = "ending"])
-----------------------------------------------------------------------------
\* A turn that sends a new message reads the chat, long before it reserves.
Load(t) ==
  /\ turn[t].at = "idle"
  /\ Go(t, [at |-> "loaded", reply |-> LastHeld,
            calls |-> IF LastHeld = 0 THEN NoCalls ELSE reply[LastHeld].calls])
  /\ UNCHANGED <<reply, reserved, called, answer, runs, faults, overran>>

\* The quota, the window or a taken message id refuses the turn.
Refuse(t) ==
  /\ turn[t].at = "loaded"
  /\ Go(t, Idle)
  /\ UNCHANGED <<reply, reserved, called, answer, runs, faults, overran>>

Opening(r, calls, continues) ==
  [at |-> "opening", reply |-> r, calls |-> calls, continues |-> continues]

\* A slip: the closed reply is stored as it was read.
SupersedingUnclosed(seen) ==
  [r \in Replies |->
     IF r = seen.reply /\ PausedCalls(seen.calls) # {}
     THEN [reply[r] EXCEPT !.calls = seen.calls] ELSE reply[r]]

\* What was read closes the reply it was read from, whatever that holds by now.
Superseding(seen) ==
  [r \in Replies |->
     IF r = seen.reply /\ PausedCalls(seen.calls) # {}
     THEN [reply[r] EXCEPT !.calls = Close(seen.calls)] ELSE reply[r]]

Reserve(t) ==
  /\ turn[t].at = "loaded"
  /\ reserved < MaxReplies
  /\ reserved' = reserved + 1
  /\ reply' = [Superseding(turn[t]) EXCEPT ![reserved + 1] = [NoReply EXCEPT !.row = "empty"]]
  /\ Go(t, Opening(reserved + 1, NoCalls, FALSE))
  /\ UNCHANGED <<called, answer, runs, faults, overran>>

\* A slip: a live claim is not looked at.
MayContinueClaimed(r, says) ==
  /\ LastMessage(r) /\ reply[r].row = "held"
  /\ PausedCalls(reply[r].calls) # {}
  /\ \A c \in PausedCalls(reply[r].calls) : reply[r].calls[c] \in {"asked", says}

\* isContinuationClaimLive, pausedStep and the answers the step takes.
MayContinue(r, says) ==
  /\ LastMessage(r) /\ reply[r].row = "held"
  /\ reply[r].claim # "live"
  /\ PausedCalls(reply[r].calls) # {}
  /\ \A c \in PausedCalls(reply[r].calls) : reply[r].calls[c] \in {"asked", says}

Claim(t, r, says) ==
  /\ turn[t].at = "idle"
  /\ MayContinue(r, says)
  /\ reply' = [reply EXCEPT ![r].calls = Applied(@, says), ![r].claim = "live"]
  /\ answer' = [c \in Calls |-> IF reply[r].calls[c] = "asked" THEN says ELSE answer[c]]
  /\ Go(t, Opening(r, Applied(reply[r].calls, says), TRUE))
  /\ UNCHANGED <<reserved, called, runs, faults, overran>>
-----------------------------------------------------------------------------
\* A stream that opens first reports the refused calls as denied.
Open(t) ==
  /\ turn[t].at = "opening"
  /\ Go(t, [turn[t] EXCEPT !.at = "streaming",
              !.calls = [c \in Calls |-> IF @[c] = "refused" THEN "denied" ELSE @[c]]])
  /\ UNCHANGED <<reply, reserved, called, answer, runs, faults, overran>>

Executed(t, c) ==
  /\ turn[t].at = "streaming" /\ turn[t].calls[c] = "approved"
  /\ runs' = [runs EXCEPT ![c] = @ + 1]

RunCall(t, c) ==
  /\ Executed(t, c)
  /\ Go(t, [turn[t] EXCEPT !.calls[c] = "ran"])
  /\ UNCHANGED <<reply, reserved, called, answer, faults, overran>>

\* A stop, the deadline or the provider cuts the stream off while the call runs.
CutOff(t, c) ==
  /\ Executed(t, c)
  /\ Failing
  /\ Ending(t)
  /\ UNCHANGED <<reply, reserved, called, answer, overran>>

\* The model asks for a call that needs approval, which ends the stream.
AskCall(t) ==
  /\ turn[t].at = "streaming" /\ PausedCalls(turn[t].calls) = {}
  /\ called < MaxCalls
  /\ called' = called + 1
  /\ Go(t, [turn[t] EXCEPT !.at = "ending", !.calls[called + 1] = "asked"])
  /\ UNCHANGED <<reply, reserved, answer, runs, faults, overran>>

\* The stream ends, at any step of it, with text or what the reply held before.
EndStream(t) ==
  /\ turn[t].at = "streaming"
  /\ Ending(t)
  /\ UNCHANGED <<reply, reserved, called, answer, runs, faults, overran>>

\* A new reply that got no parts, or whose stream never opened, is removed; a
\* claimed reply gets back its answered calls.
EndEmpty(t) ==
  /\ \/ turn[t].at = "opening"
     \/ turn[t].at = "streaming" /\ ~turn[t].continues
  /\ IF turn[t].continues THEN Ending(t) ELSE Go(t, [turn[t] EXCEPT !.at = "removing"])
  /\ UNCHANGED <<reply, reserved, called, answer, runs, faults, overran>>

\* A slip: the end of a turn keeps the claim.
SettledClaimed(w) ==
  IF w.at = "removing" THEN [NoReply EXCEPT !.row = "gone"]
  ELSE [row |-> "held", calls |-> w.calls, claim |-> reply[w.reply].claim]

\* A slip: the calls are left as they were claimed.
SettledAsClaimed(w) ==
  IF w.at = "removing" THEN [NoReply EXCEPT !.row = "gone"]
  ELSE [row |-> "held", calls |-> IF w.continues THEN reply[w.reply].calls ELSE w.calls,
        claim |-> "none"]

\* The row as the turn that ends leaves it, found by id alone.
Settled(w) ==
  IF w.at = "removing" THEN [NoReply EXCEPT !.row = "gone"]
  ELSE [row |-> "held", calls |-> w.calls, claim |-> "none"]

Settle(t) ==
  /\ turn[t].at \in {"ending", "removing"}
  /\ reply' = [reply EXCEPT ![turn[t].reply] = Settled(turn[t])]
  /\ Go(t, Idle)
  /\ UNCHANGED <<reserved, called, answer, runs, faults, overran>>

\* A write that fails is logged only; a process that dies writes nothing.
Lost(t) ==
  /\ turn[t].at # "idle"
  /\ Failing
  /\ Go(t, Idle)
  /\ UNCHANGED <<reply, reserved, called, answer, runs, overran>>

\* CONTINUATION_LEASE_MS passes, less than a third of a turn's deadline.
Lapse(r) ==
  /\ reply[r].claim = "live"
  /\ \/ /\ ~\E t \in Turns : WorksOn(t, r)
        /\ UNCHANGED <<faults, overran>>
     \/ /\ MayOverrun /\ \E t \in Turns : WorksOn(t, r)
        /\ Failing
        /\ overran' = TRUE
  /\ reply' = [reply EXCEPT ![r].claim = "lapsed"]
  /\ UNCHANGED <<reserved, turn, called, answer, runs>>
-----------------------------------------------------------------------------
Init ==
  /\ reply = [r \in Replies |-> NoReply] /\ reserved = 0
  /\ turn = [t \in Turns |-> Idle]
  /\ called = 0
  /\ answer = [c \in Calls |-> "none"] /\ runs = [c \in Calls |-> 0]
  /\ faults = 0 /\ overran = FALSE

Proceed(t) ==
  \/ Open(t) \/ EndStream(t) \/ EndEmpty(t) \/ Settle(t) \/ AskCall(t)
  \/ \E c \in Calls : RunCall(t, c)

Next ==
  \/ \E t \in Turns :
       \/ Load(t) \/ Refuse(t) \/ Reserve(t) \/ Proceed(t) \/ Lost(t)
       \/ \E c \in Calls : CutOff(t, c)
       \/ \E r \in Replies, says \in {"approved", "refused"} : Claim(t, r, says)
  \/ \E r \in Replies : Lapse(r)

Spec == Init /\ [][Next]_vars
-----------------------------------------------------------------------------
\* Unless a lease ended too early, no two turns work on one reply.
OneAtATime ==
  ~overran => \A t, u \in Turns, r \in Replies : WorksOn(t, r) /\ WorksOn(u, r) => t = u

\* A call runs once, and only if approved, whatever overlaps or is read too
\* early; again only after something went wrong: a turn died, was cut off during
\* the call, could not store or overran.
ApprovedRunsOnce ==
  \A c \in Calls : /\ runs[c] > 0 => answer[c] = "approved"
                    /\ runs[c] <= 1 + faults

\* Where nothing went wrong, a reply left empty or claimed has its turn at work.
EndedIsSettled ==
  faults = 0 =>
    \A r \in Replies :
      reply[r].row = "empty" \/ reply[r].claim # "none" => \E t \in Turns : WorksOn(t, r)

\* A call the user has answered is never asked of them again.
NotAskedAgain ==
  \A r \in Replies, c \in Calls :
    reply[r].calls[c] \notin {"absent", "asked"} => reply'[r].calls[c] # "asked"
AnswersStay == [][NotAskedAgain]_vars

\* What a chat is told was not run, was not: "Not run: the user sent a new
\* message instead." (close-pending-tool-parts.ts:6).
ClosedCallsDidNotRun ==
  \A r \in Replies, c \in Calls : reply[r].calls[c] = "closed" => runs[c] = 0
=============================================================================
