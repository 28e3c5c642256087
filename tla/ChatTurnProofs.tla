--------------------------- MODULE ChatTurnProofs ---------------------------
(***************************************************************************)
(* For any number of turns, replies and calls: no two turns work on one    *)
(* reply as long as no continuation outlives its lease, no answered call   *)
(* is asked again, turns that end leave nothing open, and a call runs only *)
(* if approved, and once for that and once for each fault.                 *)
(***************************************************************************)
EXTENDS ChatTurn, FiniteSetTheorems, WellFoundedInduction, TLAPS

WorkingTurns == [at : AtWork, reply : Replies, calls : Contents, continues : BOOLEAN]
LoadedTurns == [at : {"loaded"}, reply : 0 .. MaxReplies, calls : Contents]
Rows == [row : {"none", "empty", "held", "gone"}, calls : Contents,
         claim : {"none", "live", "lapsed"}]

\* Replies are reserved in order.
ReservedInOrder ==
  /\ \A r \in Replies : r > reserved => reply[r].row = "none"
  /\ \A t \in Turns : Working(t) => turn[t].reply <= reserved

\* A new reply is empty while its turn works on it, and only that turn does.
NewReplies ==
  /\ \A t \in Turns : Working(t) /\ ~turn[t].continues => reply[turn[t].reply].row = "empty"
  /\ \A t, u \in Turns, r \in Replies :
       WorksOn(t, r) /\ WorksOn(u, r) /\ ~turn[t].continues => t = u

\* A continuation works on a reply that has content, and removes none.
Continuations ==
  \A t \in Turns : Working(t) /\ turn[t].continues =>
    turn[t].at # "removing" /\ reply[turn[t].reply].row = "held"

\* Until a lease ends too early, a continuation at work has the claim.
Claimed ==
  ~overran => \A t \in Turns : Working(t) /\ turn[t].continues =>
                reply[turn[t].reply].claim = "live"

ChatInv == TypeOK /\ ReservedInOrder /\ NewReplies /\ Continuations /\ Claimed /\ OneAtATime

-----------------------------------------------------------------------------
(* Types                                                                   *)

\* A turn at work is of its type, and so is one that has loaded the chat.
LEMMA TurnType ==
  ASSUME TypeOK, NEW t \in Turns
  PROVE  /\ Working(t) => turn[t] \in WorkingTurns
         /\ turn[t].at = "loaded" => turn[t] \in LoadedTurns
         /\ turn[t].at = "idle" => turn[t] = Idle
         /\ turn \in [Turns -> {Idle} \cup LoadedTurns \cup WorkingTurns]
         /\ reply \in [Replies -> Rows]
<1>1. turn \in [Turns -> {Idle} \cup LoadedTurns \cup WorkingTurns] /\ reply \in [Replies -> Rows]
  BY DEF TypeOK, WorkingTurns, LoadedTurns, Rows
<1> QED
  BY <1>1 DEF WorkingTurns, LoadedTurns, Working, Idle, AtWork

\* A non-empty set of replies has a last one.
LEMMA LastExists ==
  ASSUME NEW S \in SUBSET Replies, S # {}
  PROVE  \E r \in S : \A q \in S : q <= r
<1> DEFINE D == {n \in Nat : MaxReplies - n \in S}
<1>1. D \in SUBSET Nat /\ \A r \in S : MaxReplies - r \in D
  <2>1. \A r \in S : MaxReplies - r \in Nat /\ MaxReplies - (MaxReplies - r) = r
    BY ChatTurnAssumption DEF Replies
  <2> QED
    BY <2>1
<1>2. PICK n \in D : \A m \in D : n <= m
  <2> DEFINE Less == {ss \in Nat \X Nat : ss[1] < ss[2]}
  <2>1. IsWellFoundedOn(Less, Nat)
    BY NatLessThanWellFounded DEF OpToRel
  <2>2. D \subseteq Nat /\ D # {}
    BY <1>1
  <2>3. \E n \in D : \A m \in D : <<m, n>> \notin Less
    <3> HIDE DEF D, Less
    <3> QED
      BY <2>1, <2>2, WFMin
  <2>4. PICK n \in D : \A m \in D : <<m, n>> \notin Less
    BY <2>3
  <2>5. ASSUME NEW m \in D PROVE n <= m
    <3>1. m \in Nat /\ n \in Nat
      BY <2>2
    <3>2. <<m, n>> \notin Less
      BY <2>4
    <3> HIDE DEF D
    <3> QED
      BY <3>1, <3>2
  <2> QED
    BY <2>5
<1>3. MaxReplies - n \in S /\ \A q \in S : q <= MaxReplies - n
  BY <1>1, <1>2, ChatTurnAssumption DEF Replies
<1> QED
  BY <1>3

\* What `closeLastReply` would close is a reply, or none.
LEMMA LastHeldType ==
  ASSUME TypeOK
  PROVE  LastHeld \in 0 .. MaxReplies
<1> DEFINE held == {r \in Replies : reply[r].row = "held"}
<1>1. CASE held = {}
  BY <1>1, ChatTurnAssumption DEF LastHeld
<1>2. CASE held # {}
  <2>1. \E r \in held : \A q \in held : q <= r
    BY <1>2, LastExists
  <2>2. LastHeld \in held
    BY <1>2, <2>1 DEF LastHeld
  <2> QED
    BY <2>2, ChatTurnAssumption DEF Replies
<1> QED
  BY <1>1, <1>2

\* The operators on calls yield contents.
LEMMA ContentsType ==
  ASSUME NEW calls \in Contents, NEW says \in {"approved", "refused"}
  PROVE  Close(calls) \in Contents /\ Applied(calls, says) \in Contents
BY DEF Close, Applied, Contents, CallStates, Pausing

\* Rows without calls are rows.
LEMMA NoCallsType == NoCalls \in Contents /\ NoReply \in Rows
BY DEF NoCalls, Contents, CallStates, NoReply, Rows

-----------------------------------------------------------------------------
(* The steps, one by one.                                                  *)

\* At first nobody works and nothing is stored.
LEMMA InitInv == Init => ChatInv
<1> SUFFICES ASSUME Init PROVE ChatInv
  OBVIOUS
<1>1. \A t \in Turns : ~Working(t)
  BY DEF Init, Working, Idle, AtWork
<1>2. TypeOK
  <2>1. reply \in [Replies -> Rows] /\ turn \in [Turns -> {Idle}]
    BY NoCallsType DEF Init
  <2> QED
    <3>1. reserved \in 0 .. MaxReplies /\ called \in 0 .. MaxCalls /\ faults \in 0 .. MaxFaults
      BY ChatTurnAssumption DEF Init
    <3>2. /\ answer \in [Calls -> {"none", "approved", "refused"}]
          /\ runs \in [Calls -> Nat] /\ overran \in BOOLEAN
      BY DEF Init
    <3> QED
      BY <2>1, <3>1, <3>2 DEF TypeOK, Rows
<1> QED
  BY <1>1, <1>2
     DEF Init, ChatInv, ReservedInOrder, NewReplies, Continuations, Claimed, OneAtATime, WorksOn, NoReply

\* A turn that reads, is refused, or is lost works on nothing.
LEMMA IdleStep ==
  ASSUME ChatInv, NEW t \in Turns, Load(t) \/ Refuse(t) \/ Lost(t)
  PROVE  ChatInv'
<1> USE DEF ChatInv
<1>1. /\ turn' = [turn EXCEPT ![t] = turn'[t]] /\ turn'[t] \in {Idle} \cup LoadedTurns
      /\ faults' \in 0 .. MaxFaults
      /\ UNCHANGED <<reply, reserved, called, answer, runs, overran>>
  <2>1. CASE Load(t)
    <3>1. LastHeld \in 0 .. MaxReplies
      BY LastHeldType
    <3>2. (IF LastHeld = 0 THEN NoCalls ELSE reply[LastHeld].calls) \in Contents
      <4>1. LastHeld # 0 => LastHeld \in Replies
        BY <3>1, ChatTurnAssumption DEF Replies
      <4>2. reply \in [Replies -> Rows]
        BY TurnType
      <4>3. LastHeld # 0 => reply[LastHeld].calls \in Contents
        BY <4>1, <4>2 DEF Rows
      <4> QED
        BY <4>3, NoCallsType
    <3> QED
      BY <2>1, <3>1, <3>2, TurnType DEF Load, Go, LoadedTurns, TypeOK
  <2>2. CASE Refuse(t)
    BY <2>2, TurnType DEF Refuse, Go, TypeOK
  <2>3. CASE Lost(t)
    BY <2>3, TurnType, ChatTurnAssumption DEF Lost, Go, Failing, TypeOK
  <2> QED
    BY <2>1, <2>2, <2>3
<1>2. TypeOK'
  BY <1>1, TurnType DEF TypeOK, LoadedTurns
<1>3. \A u \in Turns : Working(u)' => Working(u) /\ turn'[u] = turn[u]
  BY <1>1, TurnType DEF Working, Idle, LoadedTurns, AtWork
<1> QED
  BY <1>1, <1>2, <1>3
     DEF ReservedInOrder, NewReplies, Continuations, Claimed, OneAtATime, WorksOn

\* A turn at work gets on with its stream.
LEMMA StreamStep ==
  ASSUME ChatInv, NEW t \in Turns,
         \/ Open(t) \/ EndStream(t) \/ EndEmpty(t) \/ AskCall(t)
         \/ \E c \in Calls : RunCall(t, c) \/ CutOff(t, c)
  PROVE  ChatInv'
<1> USE DEF ChatInv
<1>1. Working(t) /\ turn[t] \in WorkingTurns /\ turn \in [Turns -> {Idle} \cup LoadedTurns \cup WorkingTurns]
  BY TurnType DEF Open, EndStream, EndEmpty, AskCall, RunCall, CutOff, Executed, Working, AtWork
<1>2. /\ turn' = [turn EXCEPT ![t] = turn'[t]] /\ turn'[t] \in WorkingTurns
      /\ turn'[t].reply = turn[t].reply /\ turn'[t].continues = turn[t].continues
      /\ turn[t].continues => turn'[t].at # "removing"
  <2>1. CASE Open(t)
    BY <1>1, <2>1 DEF Open, Go, WorkingTurns, AtWork, Contents, CallStates, Pausing
  <2>2. CASE EndStream(t)
    BY <1>1, <2>2 DEF EndStream, Ending, Go, WorkingTurns, AtWork
  <2>3. CASE EndEmpty(t)
    BY <1>1, <2>3 DEF EndEmpty, Ending, Go, WorkingTurns, AtWork
  <2>4. CASE AskCall(t)
    <3>1. called + 1 \in Calls
      BY <2>4, ChatTurnAssumption DEF AskCall, TypeOK, Calls
    <3> QED
      BY <1>1, <2>4, <3>1 DEF AskCall, Go, WorkingTurns, AtWork, Contents, CallStates, Pausing
  <2>5. CASE \E c \in Calls : RunCall(t, c)
    BY <1>1, <2>5 DEF RunCall, Executed, Go, WorkingTurns, AtWork, Contents, CallStates, Pausing
  <2>6. CASE \E c \in Calls : CutOff(t, c)
    BY <1>1, <2>6 DEF CutOff, Executed, Ending, Go, WorkingTurns, AtWork
  <2> QED
    BY <2>1, <2>2, <2>3, <2>4, <2>5, <2>6
<1>3. /\ UNCHANGED <<reply, reserved, answer, overran>>
      /\ called' \in 0 .. MaxCalls /\ faults' \in 0 .. MaxFaults /\ runs' \in [Calls -> Nat]
  <2>1. CASE Open(t) \/ EndStream(t) \/ EndEmpty(t)
    BY <2>1 DEF Open, EndStream, EndEmpty, TypeOK
  <2>2. CASE AskCall(t)
    BY <2>2, ChatTurnAssumption DEF AskCall, TypeOK
  <2>3. CASE \E c \in Calls : RunCall(t, c)
    BY <2>3 DEF RunCall, Executed, TypeOK
  <2>4. CASE \E c \in Calls : CutOff(t, c)
    BY <2>4, ChatTurnAssumption DEF CutOff, Executed, Failing, TypeOK
  <2> QED
    BY <2>1, <2>2, <2>3, <2>4
<1>4. TypeOK'
  BY <1>1, <1>2, <1>3 DEF TypeOK, WorkingTurns, LoadedTurns
<1>5. \A u \in Turns : /\ Working(u)' => Working(u) /\ turn'[u].reply = turn[u].reply
                                      /\ turn'[u].continues = turn[u].continues
                       /\ Working(u)' /\ turn[u].continues /\ turn[u].at # "removing"
                            => turn'[u].at # "removing"
  BY <1>1, <1>2
     DEF Working
<1> QED
  BY <1>3, <1>4, <1>5
     DEF ReservedInOrder, NewReplies, Continuations, Claimed, OneAtATime, WorksOn

\* A new reply is one nobody works on yet; the reply it closes keeps its claim.
LEMMA ReserveStep ==
  ASSUME ChatInv, NEW t \in Turns, Reserve(t)
  PROVE  ChatInv'
<1> USE DEF ChatInv
<1> DEFINE new == reserved + 1
           closed == Superseding(turn[t])
<1>1. /\ turn[t] \in LoadedTurns /\ ~Working(t) /\ reply \in [Replies -> Rows]
      /\ turn \in [Turns -> {Idle} \cup LoadedTurns \cup WorkingTurns]
      /\ reserved \in 0 .. MaxReplies
  BY TurnType DEF Reserve, Working, AtWork, TypeOK
<1>2. new \in Replies /\ new \in 0 .. MaxReplies
  BY <1>1, ChatTurnAssumption DEF Reserve, Replies
<1>3. /\ closed \in [Replies -> Rows]
      /\ \A r \in Replies : closed[r].row = reply[r].row /\ closed[r].claim = reply[r].claim
  <2>1. Close(turn[t].calls) \in Contents
    BY <1>1, ContentsType DEF LoadedTurns
  <2> QED
    BY <1>1, <2>1 DEF Superseding, Rows
<1>4. /\ reply' \in [Replies -> Rows] /\ reply'[new].row = "empty"
      /\ \A r \in Replies \ {new} : reply'[r].row = reply[r].row /\ reply'[r].claim = reply[r].claim
  <2>1. reply' = [closed EXCEPT ![new] = [NoReply EXCEPT !.row = "empty"]]
    BY DEF Reserve
  <2>2. [NoReply EXCEPT !.row = "empty"] \in Rows
    BY NoCallsType DEF NoReply, Rows
  <2>3. [NoReply EXCEPT !.row = "empty"].row = "empty"
    BY DEF NoReply
  <2> QED
    BY <1>2, <1>3, <2>1, <2>2, <2>3
<1>5. /\ turn' = [turn EXCEPT ![t] = turn'[t]] /\ turn'[t] \in WorkingTurns
      /\ turn'[t].reply = new /\ ~turn'[t].continues
  BY <1>1, <1>2, NoCallsType DEF Reserve, Go, Opening, WorkingTurns, AtWork
<1>6. reserved' = new /\ UNCHANGED <<called, answer, runs, faults, overran>>
  BY DEF Reserve
<1>7. TypeOK'
  BY <1>1, <1>2, <1>4, <1>5, <1>6 DEF TypeOK, Rows, LoadedTurns, WorkingTurns
<1>8. \A u \in Turns \ {t} : Working(u) =>
        turn[u] \in WorkingTurns /\ turn[u].reply \in Replies /\ turn[u].reply < new
  <2>1. \A u \in Turns \ {t} : Working(u) => turn[u].reply \in Replies /\ turn[u].reply <= reserved
    BY TurnType DEF ReservedInOrder, WorkingTurns
  <2> QED
    BY <1>1, <2>1, TurnType DEF Replies
<1>9. \A u \in Turns \ {t} : turn'[u] = turn[u] /\ (Working(u)' <=> Working(u))
  BY <1>1, <1>5 DEF Working
<1>10. ReservedInOrder'
  <2>1. \A r \in Replies : r > new => r # new /\ r > reserved
    BY <1>1 DEF Replies
  <2>2. \A u \in Turns : Working(u)' => turn'[u].reply <= new
    BY <1>1, <1>2, <1>5, <1>8, <1>9 DEF Replies
  <2> QED
    BY <1>4, <1>6, <2>1, <2>2 DEF ReservedInOrder
<1>11. \A u \in Turns \ {t} : Working(u) => turn[u].reply \in Replies \ {new}
  BY <1>1, <1>8 DEF Replies
<1>12. NewReplies' /\ Continuations' /\ Claimed' /\ OneAtATime'
  BY <1>4, <1>5, <1>6, <1>9, <1>11
     DEF NewReplies, Continuations, Claimed, OneAtATime, WorksOn
<1> QED
  BY <1>7, <1>10, <1>12

\* A continuation claims a reply that nobody works on, unless a lease ended early.
LEMMA ClaimStep ==
  ASSUME ChatInv, NEW t \in Turns, NEW r \in Replies, NEW says \in {"approved", "refused"},
         Claim(t, r, says)
  PROVE  ChatInv'
<1> USE DEF ChatInv
<1>1. /\ ~Working(t) /\ reply \in [Replies -> Rows]
      /\ turn \in [Turns -> {Idle} \cup LoadedTurns \cup WorkingTurns]
  BY TurnType DEF Claim, Working, AtWork
<1>2. reply[r].row = "held" /\ reply[r].claim # "live" /\ r = reserved
  BY DEF Claim, MayContinue, LastMessage
<1>3. Applied(reply[r].calls, says) \in Contents
  BY <1>1, ContentsType DEF Rows
<1>4. /\ reply' \in [Replies -> Rows]
      /\ reply'[r].row = "held" /\ reply'[r].claim = "live"
      /\ \A q \in Replies \ {r} : reply'[q] = reply[q]
  BY <1>1, <1>2, <1>3 DEF Claim, Rows
<1>5. /\ turn' = [turn EXCEPT ![t] = turn'[t]] /\ turn'[t] \in WorkingTurns
      /\ turn'[t].reply = r /\ turn'[t].continues /\ turn'[t].at # "removing"
  BY <1>1, <1>3 DEF Claim, Go, Opening, WorkingTurns, AtWork
<1>6. /\ UNCHANGED <<reserved, called, runs, faults, overran>>
      /\ answer' \in [Calls -> {"none", "approved", "refused"}]
  BY DEF Claim, TypeOK
<1>7. TypeOK'
  BY <1>1, <1>4, <1>5, <1>6 DEF TypeOK, Rows, LoadedTurns, WorkingTurns
<1>8. \A u \in Turns \ {t} : turn'[u] = turn[u] /\ (Working(u)' <=> Working(u))
  BY <1>1, <1>5 DEF Working
<1>9. \A u \in Turns \ {t} : WorksOn(u, r) => turn[u].continues /\ overran
  <2>1. \A u \in Turns : WorksOn(u, r) => turn[u] \in WorkingTurns
    BY TurnType DEF WorksOn
  <2> QED
    BY <1>2, <2>1 DEF WorksOn, NewReplies, Claimed, WorkingTurns
<1>10. ReservedInOrder'
  <2>1. \A q \in Replies : q > reserved => q # r
    BY <1>2 DEF Replies
  <2>2. turn'[t].reply <= reserved
    BY <1>2, <1>5 DEF Replies
  <2> QED
    BY <1>4, <1>6, <1>8, <2>1, <2>2 DEF ReservedInOrder
<1>11. \A u \in Turns : Working(u)' => turn'[u].reply \in Replies /\ turn'[u].continues \in BOOLEAN
  <2>1. \A u \in Turns \ {t} : Working(u) => turn[u] \in WorkingTurns
    BY TurnType
  <2> QED
    BY <1>5, <1>8, <2>1 DEF WorkingTurns
<1>12. NewReplies' /\ Continuations' /\ Claimed' /\ OneAtATime'
  BY <1>4, <1>5, <1>6, <1>8, <1>9, <1>11
     DEF NewReplies, Continuations, Claimed, OneAtATime, WorksOn
<1> QED
  BY <1>7, <1>10, <1>12

\* The turn that ends settles its own reply.
LEMMA SettleStep ==
  ASSUME ChatInv, NEW t \in Turns, Settle(t)
  PROVE  ChatInv'
<1> USE DEF ChatInv
<1> DEFINE r == turn[t].reply
<1>1. /\ Working(t) /\ turn[t] \in WorkingTurns /\ r \in Replies
      /\ turn \in [Turns -> {Idle} \cup LoadedTurns \cup WorkingTurns]
      /\ reply \in [Replies -> Rows]
  BY TurnType DEF Settle, Working, AtWork, WorkingTurns
<1>2. /\ Settled(turn[t]) \in Rows /\ Settled(turn[t]).row \in {"held", "gone"}
      /\ turn[t].at # "removing" => Settled(turn[t]).row = "held"
  BY <1>1, NoCallsType DEF Settled, Rows, NoReply, WorkingTurns
<1>3. /\ reply' \in [Replies -> Rows] /\ reply'[r] = Settled(turn[t])
      /\ \A q \in Replies \ {r} : reply'[q] = reply[q]
  BY <1>1, <1>2 DEF Settle
<1>4. /\ turn' = [turn EXCEPT ![t] = Idle]
      /\ UNCHANGED <<reserved, called, answer, runs, faults, overran>>
  BY DEF Settle, Go
<1>5. TypeOK'
  BY <1>1, <1>3, <1>4 DEF TypeOK, Rows, LoadedTurns, WorkingTurns
<1>6. \A u \in Turns : Working(u)' => u # t /\ Working(u) /\ turn'[u] = turn[u]
  BY <1>1, <1>4 DEF Working, Idle, AtWork
<1>7. \A u \in Turns \ {t} : WorksOn(u, r) =>
        overran /\ turn[u].continues /\ turn[t].continues /\ turn[t].at # "removing"
  BY <1>1 DEF WorksOn, OneAtATime, NewReplies, Continuations
<1>8. \A u \in Turns : Working(u) => turn[u].reply \in Replies
  BY TurnType DEF WorkingTurns
<1>9. ReservedInOrder'
  <2>1. r <= reserved /\ reserved \in 0 .. MaxReplies
    BY <1>1 DEF ReservedInOrder, TypeOK
  <2>2. \A q \in Replies : q > reserved => q # r
    BY <1>1, <2>1 DEF Replies
  <2> QED
    BY <1>3, <1>4, <1>6, <2>2 DEF ReservedInOrder
<1>10. NewReplies' /\ Continuations' /\ Claimed' /\ OneAtATime'
  BY <1>2, <1>3, <1>4, <1>6, <1>7, <1>8
     DEF NewReplies, Continuations, Claimed, OneAtATime, WorksOn
<1> QED
  BY <1>5, <1>9, <1>10

\* A lease ends under nobody, or too early.
LEMMA LapseStep ==
  ASSUME ChatInv, NEW r \in Replies, Lapse(r)
  PROVE  ChatInv'
<1> USE DEF ChatInv
<1>1. reply \in [Replies -> Rows] /\ \A t \in Turns : Working(t) => turn[t].reply \in Replies
  <2>1. reply \in [Replies -> Rows]
    BY DEF TypeOK, Rows
  <2>2. \A t \in Turns : Working(t) => turn[t] \in WorkingTurns
    BY TurnType
  <2> QED
    BY <2>1, <2>2 DEF WorkingTurns
<1>2. /\ reply' \in [Replies -> Rows]
      /\ \A q \in Replies : reply'[q].row = reply[q].row
      /\ \A q \in Replies \ {r} : reply'[q] = reply[q]
      /\ UNCHANGED <<reserved, turn, called, answer, runs>>
  BY <1>1 DEF Lapse, Rows
<1>3. \/ overran' = overran /\ \A t \in Turns : ~WorksOn(t, r)
      \/ overran' = TRUE
  BY DEF Lapse
<1>4. faults' \in 0 .. MaxFaults /\ overran' \in BOOLEAN
  <2>1. faults \in 0 .. MaxFaults /\ overran \in BOOLEAN
    BY DEF TypeOK
  <2>2. Failing => faults' \in 0 .. MaxFaults
    BY <2>1, ChatTurnAssumption DEF Failing
  <2>3. (faults' = faults \/ Failing) /\ (overran' = overran \/ overran' = TRUE)
    BY DEF Lapse
  <2> QED
    BY <2>1, <2>2, <2>3
<1>5. TypeOK'
  BY <1>2, <1>4 DEF TypeOK, Rows
<1>6. ReservedInOrder' /\ NewReplies' /\ Continuations' /\ Claimed' /\ OneAtATime'
  BY <1>1, <1>2, <1>3
     DEF ReservedInOrder, NewReplies, Continuations, Claimed, OneAtATime, WorksOn, Working
<1> QED
  BY <1>5, <1>6

\* Every step keeps who works on what and the rows in agreement.
LEMMA NextInv == ChatInv /\ [Next]_vars => ChatInv'
<1> SUFFICES ASSUME ChatInv, [Next]_vars PROVE ChatInv'
  OBVIOUS
<1>1. CASE UNCHANGED vars
  BY <1>1 DEF vars, ChatInv, TypeOK, ReservedInOrder, NewReplies, Continuations, Claimed,
              OneAtATime, WorksOn, Working
<1>2. CASE \E r \in Replies : Lapse(r)
  BY <1>2, LapseStep
<1>3. ASSUME NEW t \in Turns,
             \/ Load(t) \/ Refuse(t) \/ Reserve(t) \/ Proceed(t) \/ Lost(t)
             \/ \E c \in Calls : CutOff(t, c)
             \/ \E r \in Replies, says \in {"approved", "refused"} : Claim(t, r, says)
      PROVE  ChatInv'
  BY <1>3, IdleStep, StreamStep, ReserveStep, ClaimStep, SettleStep DEF Proceed
<1> QED
  BY <1>1, <1>2, <1>3 DEF Next

\* Who works on what agrees with what the rows say of it.
THEOREM ChatInvariant == Spec => []ChatInv
BY InitInv, NextInv, PTL DEF Spec

\* As long as no continuation outlives its lease, no two turns of a chat work on
\* one reply: claims exclude each other, and new replies are new (claim, reserve).
THEOREM TurnsExclude == Spec => []OneAtATime
<1>1. ChatInv => OneAtATime
  BY DEF ChatInv
<1> QED
  BY <1>1, ChatInvariant, PTL
-----------------------------------------------------------------------------
(* Answers                                                                 *)

\* What turn t holds of call c.
Holds(t, c) == turn[t].at # "idle" /\ turn[t].calls[c] # "absent"

\* A call the model has not asked for is nowhere.
CallsNumbered ==
  \A c \in Calls : c > called =>
    /\ \A r \in Replies : reply[r].calls[c] = "absent"
    /\ \A t \in Turns : ~Holds(t, c)

\* A turn at work asks for calls that nobody else knows of.
AskedByOne ==
  \A t \in Turns, c \in Calls : Working(t) /\ turn[t].calls[c] = "asked" =>
    /\ \A r \in Replies : reply[r].calls[c] = "absent"
    /\ \A u \in Turns \ {t} : ~Holds(u, c)

AnswerInv == ChatInv /\ CallsNumbered /\ AskedByOne

\* What a step of turn t, and of no other, has to show: it brings up nothing it
\* did not find, but for new calls, and asks only for those and for its own.
Known(t, c) == Holds(t, c) \/ \E r \in Replies : reply[r].calls[c] # "absent"

StepOf(t) ==
  /\ called' \in Nat /\ called <= called'
  /\ \A u \in Turns \ {t} : turn'[u] = turn[u]
TurnFinds(t) ==
  \A c \in Calls : turn'[t].at # "idle" /\ turn'[t].calls[c] # "absent" =>
    Known(t, c) \/ (c > called /\ c <= called')
RowsFind(t) ==
  \A c \in Calls, r \in Replies : reply'[r].calls[c] # "absent" =>
    reply[r].calls[c] # "absent" \/ Holds(t, c)
AsksNew(t) ==
  \A c \in Calls : turn'[t].at \in AtWork /\ turn'[t].calls[c] = "asked" =>
    /\ \A r \in Replies : reply'[r].calls[c] = reply[r].calls[c]
    /\ (Working(t) /\ turn[t].calls[c] = "asked") \/ c > called

\* A step that shows so much keeps the calls apart.
LEMMA FindsOnly ==
  ASSUME AnswerInv, NEW t \in Turns, StepOf(t), TurnFinds(t), RowsFind(t), AsksNew(t)
  PROVE  CallsNumbered' /\ AskedByOne'
<1> USE DEF StepOf, TurnFinds, RowsFind, AsksNew, Known
<1>1. /\ \A u \in Turns \ {t} : turn'[u] = turn[u]
      /\ called \in Nat
  BY DEF AnswerInv, ChatInv, TypeOK
<1>2. CallsNumbered'
  <2> SUFFICES ASSUME NEW c \in Calls, c > called'
               PROVE  /\ \A r \in Replies : reply'[r].calls[c] = "absent"
                      /\ \A u \in Turns : ~Holds(u, c)'
    BY DEF CallsNumbered
  <2>1. c > called /\ ~(c <= called')
    BY <1>1 DEF Calls
  <2>2. /\ \A r \in Replies : reply[r].calls[c] = "absent"
        /\ \A u \in Turns : ~Holds(u, c)
    BY <2>1 DEF AnswerInv, CallsNumbered
  <2>3. \A u \in Turns \ {t} : ~Holds(u, c)'
    BY <1>1, <2>2 DEF Holds
  <2>4. ~Holds(t, c)'
    BY <1>1, <2>1, <2>2 DEF Holds
  <2> QED
    BY <2>2, <2>3, <2>4
<1>3. ASSUME NEW u \in Turns \ {t}, NEW c \in Calls, Working(u)', turn'[u].calls[c] = "asked"
      PROVE  /\ \A r \in Replies : reply'[r].calls[c] = "absent"
             /\ \A v \in Turns \ {u} : ~Holds(v, c)'
  <2>1. Working(u) /\ turn[u].calls[c] = "asked"
    BY <1>1, <1>3 DEF Working
  <2>2. Holds(u, c)
    BY <2>1 DEF Holds, Working, AtWork
  <2>3. ~(c > called)
    BY <2>2 DEF AnswerInv, CallsNumbered
  <2>4. /\ \A r \in Replies : reply[r].calls[c] = "absent"
        /\ \A v \in Turns \ {u} : ~Holds(v, c)
    BY <2>1 DEF AnswerInv, AskedByOne
  <2>5. ~Holds(t, c)'
    BY <1>1, <2>3, <2>4 DEF Holds
  <2>6. \A v \in Turns \ {u, t} : ~Holds(v, c)'
    BY <1>1, <2>4 DEF Holds
  <2> QED
    BY <2>4, <2>5, <2>6
<1>4. ASSUME NEW c \in Calls, Working(t)', turn'[t].calls[c] = "asked"
      PROVE  /\ \A r \in Replies : reply'[r].calls[c] = "absent"
             /\ \A v \in Turns \ {t} : ~Holds(v, c)'
  <2>1. /\ \A r \in Replies : reply'[r].calls[c] = reply[r].calls[c]
        /\ \/ Working(t) /\ turn[t].calls[c] = "asked"
           \/ c > called
    BY <1>1, <1>4 DEF Working
  <2>2. /\ \A r \in Replies : reply[r].calls[c] = "absent"
        /\ \A v \in Turns \ {t} : ~Holds(v, c)
    BY <2>1 DEF AnswerInv, AskedByOne, CallsNumbered
  <2> QED
    BY <1>1, <2>1, <2>2 DEF Holds
<1>5. AskedByOne'
  BY <1>3, <1>4 DEF AskedByOne
<1> QED
  BY <1>2, <1>5

\* A turn that only reads, or is over.
LEMMA IdleAnswers ==
  ASSUME AnswerInv, NEW t \in Turns, Load(t) \/ Refuse(t) \/ Lost(t)
  PROVE  CallsNumbered' /\ AskedByOne'
<1>1. /\ turn \in [Turns -> {Idle} \cup LoadedTurns \cup WorkingTurns]
      /\ called \in Nat
  BY TurnType DEF AnswerInv, ChatInv, TypeOK
<1>2. called' = called /\ reply' = reply
  BY DEF Load, Refuse, Lost
<1>3. \A u \in Turns \ {t} : turn'[u] = turn[u]
  BY <1>1 DEF Load, Refuse, Lost, Go
<1>4. turn'[t] = Idle \/ (Load(t) /\ turn'[t].at = "loaded")
  BY <1>1 DEF Load, Refuse, Lost, Go
<1>5. ASSUME Load(t), NEW c \in Calls, turn'[t].calls[c] # "absent"
      PROVE  \E r \in Replies : reply[r].calls[c] # "absent"
  <2>1. LastHeld \in 0 .. MaxReplies
    BY LastHeldType DEF AnswerInv, ChatInv
  <2>2. turn'[t].calls = IF LastHeld = 0 THEN NoCalls ELSE reply[LastHeld].calls
    BY <1>1, <1>5 DEF Load, Go
  <2>3. LastHeld # 0 /\ reply[LastHeld].calls[c] # "absent"
    BY <1>5, <2>2 DEF NoCalls
  <2> QED
    BY <2>1, <2>3, ChatTurnAssumption DEF Replies
<1>6. StepOf(t) /\ RowsFind(t)
  BY <1>1, <1>2, <1>3 DEF StepOf, RowsFind
<1>7. TurnFinds(t)
  BY <1>4, <1>5 DEF TurnFinds, Known, Idle
<1>8. AsksNew(t)
  BY <1>4 DEF AsksNew, Idle, AtWork
<1> QED
  BY <1>6, <1>7, <1>8, FindsOnly

\* A turn gets on with its stream, or asks for a call that is new.
LEMMA StreamAnswers ==
  ASSUME AnswerInv, NEW t \in Turns,
         \/ Open(t) \/ EndStream(t) \/ EndEmpty(t) \/ AskCall(t)
         \/ \E c \in Calls : RunCall(t, c) \/ CutOff(t, c)
  PROVE  CallsNumbered' /\ AskedByOne'
<1> DEFINE to == turn'[t]
<1>0. Working(t)
  BY DEF Open, EndStream, EndEmpty, AskCall, RunCall, CutOff, Executed, Working, AtWork
<1>1. Working(t) /\ turn[t] \in WorkingTurns /\ called \in Nat
      /\ turn \in [Turns -> {Idle} \cup LoadedTurns \cup WorkingTurns]
  BY <1>0, TurnType DEF AnswerInv, ChatInv, TypeOK
<1>2. /\ turn' = [turn EXCEPT ![t] = to] /\ reply' = reply
      /\ called' \in Nat /\ called <= called'
      /\ \A c \in Calls : /\ to.calls[c] # "absent" =>
                               turn[t].calls[c] # "absent" \/ (c > called /\ c <= called')
                          /\ to.calls[c] = "asked" => turn[t].calls[c] = "asked" \/ c > called
  <2>1. CASE Open(t)
    BY <1>1, <2>1 DEF Open, Go, WorkingTurns, Contents
  <2>2. CASE EndStream(t)
    BY <1>1, <2>2 DEF EndStream, Ending, Go, WorkingTurns
  <2>3. CASE EndEmpty(t)
    BY <1>1, <2>3 DEF EndEmpty, Ending, Go, WorkingTurns
  <2>4. CASE AskCall(t)
    BY <1>1, <2>4 DEF AskCall, Go, WorkingTurns, Contents, Calls
  <2>5. CASE \E c \in Calls : RunCall(t, c)
    BY <1>1, <2>5 DEF RunCall, Executed, Go, WorkingTurns, Contents
  <2>6. CASE \E c \in Calls : CutOff(t, c)
    BY <1>1, <2>6 DEF CutOff, Executed, Ending, Go, WorkingTurns
  <2> QED
    BY <2>1, <2>2, <2>3, <2>4, <2>5, <2>6
<1>3. \A c \in Calls : turn[t].calls[c] # "absent" => Holds(t, c)
  BY <1>1 DEF Holds, Working, AtWork
<1>4. StepOf(t) /\ RowsFind(t)
  BY <1>1, <1>2 DEF StepOf, RowsFind
<1>5. TurnFinds(t)
  BY <1>2, <1>3 DEF TurnFinds, Known
<1>6. AsksNew(t)
  BY <1>1, <1>2 DEF AsksNew
<1> QED
  BY <1>4, <1>5, <1>6, FindsOnly

\* A new turn brings nothing up, and closing calls no more than it has read.
LEMMA ReserveAnswers ==
  ASSUME AnswerInv, NEW t \in Turns, Reserve(t)
  PROVE  /\ CallsNumbered' /\ AskedByOne'
         /\ \A r \in Replies, c \in Calls :
              reply'[r].calls[c] = "asked" => reply[r].calls[c] = "asked"
<1>1. /\ turn[t] \in LoadedTurns /\ turn[t].at = "loaded" /\ called \in Nat
      /\ reply \in [Replies -> Rows]
  BY TurnType DEF Reserve, AnswerInv, ChatInv, TypeOK
<1> DEFINE closed == Superseding(turn[t])
           fresh == [NoReply EXCEPT !.row = "empty"]
<1>2. /\ closed \in [Replies -> Rows]
      /\ \A r \in Replies : closed[r].calls \in {reply[r].calls, Close(turn[t].calls)}
  <2>1. Close(turn[t].calls) \in Contents
    BY <1>1, ContentsType DEF LoadedTurns
  <2> QED
    BY <1>1, <2>1 DEF Superseding, Rows
<1>3. fresh.calls = NoCalls
  BY DEF NoReply
<1>4. reply' = [closed EXCEPT ![reserved + 1] = fresh]
  BY DEF Reserve
<1>5. \A r \in Replies : reply'[r].calls \in {reply[r].calls, Close(turn[t].calls), NoCalls}
  <2> HIDE DEF closed, fresh
  <2> QED
    BY <1>2, <1>3, <1>4
<1>6. \A c \in Calls : /\ NoCalls[c] = "absent"
                       /\ Close(turn[t].calls)[c] # "asked"
                       /\ Close(turn[t].calls)[c] # "absent" => Holds(t, c)
  BY <1>1 DEF NoCalls, Close, Pausing, Holds
<1>7. \A r \in Replies, c \in Calls :
        /\ reply'[r].calls[c] # "absent" => reply[r].calls[c] # "absent" \/ Holds(t, c)
        /\ reply'[r].calls[c] = "asked" => reply[r].calls[c] = "asked"
  BY <1>5, <1>6
<1> DEFINE to == Opening(reserved + 1, NoCalls, FALSE)
<1>8. turn' = [turn EXCEPT ![t] = to] /\ to.calls = NoCalls /\ called' = called
  BY DEF Reserve, Go, Opening
<1> HIDE DEF to, closed, fresh
<1>9. /\ turn'[t].calls = NoCalls /\ called' = called
      /\ \A u \in Turns \ {t} : turn'[u] = turn[u]
  BY <1>8, TurnType DEF AnswerInv, ChatInv
<1>10. StepOf(t) /\ TurnFinds(t) /\ RowsFind(t) /\ AsksNew(t)
  BY <1>1, <1>6, <1>7, <1>9 DEF StepOf, TurnFinds, RowsFind, AsksNew
<1>11. CallsNumbered' /\ AskedByOne'
  BY <1>10, FindsOnly
<1> QED
  BY <1>7, <1>11

\* A continuation has the answers to all the calls it claims.
LEMMA ClaimAnswers ==
  ASSUME AnswerInv, NEW t \in Turns, NEW r \in Replies, NEW says \in {"approved", "refused"},
         Claim(t, r, says)
  PROVE  /\ CallsNumbered' /\ AskedByOne'
         /\ \A q \in Replies, c \in Calls :
              reply'[q].calls[c] = "asked" => reply[q].calls[c] = "asked"
<1>1. reply \in [Replies -> Rows] /\ called \in Nat
  BY TurnType DEF AnswerInv, ChatInv, TypeOK
<1> DEFINE taken == Applied(reply[r].calls, says)
           to == Opening(r, taken, TRUE)
<1>2. \A c \in Calls : taken[c] # "asked" /\ (taken[c] # "absent" => reply[r].calls[c] # "absent")
  BY DEF Applied
<1>3. /\ turn' = [turn EXCEPT ![t] = to] /\ to.calls = taken /\ called' = called
  BY DEF Claim, Go, Opening
<1>4. /\ reply'[r].calls = taken
      /\ \A q \in Replies \ {r} : reply'[q] = reply[q]
  BY <1>1 DEF Claim, Rows
<1> HIDE DEF taken, to
<1>5. \A q \in Replies, c \in Calls :
        /\ reply'[q].calls[c] # "absent" => reply[q].calls[c] # "absent"
        /\ reply'[q].calls[c] = "asked" => reply[q].calls[c] = "asked"
  BY <1>2, <1>4
<1>6. /\ turn'[t].calls = taken /\ called' = called
      /\ \A u \in Turns \ {t} : turn'[u] = turn[u]
  BY <1>3, TurnType DEF AnswerInv, ChatInv
<1>7. StepOf(t) /\ TurnFinds(t) /\ RowsFind(t) /\ AsksNew(t)
  BY <1>1, <1>2, <1>5, <1>6 DEF StepOf, TurnFinds, RowsFind, AsksNew, Known
<1>8. CallsNumbered' /\ AskedByOne'
  BY <1>7, FindsOnly
<1> QED
  BY <1>5, <1>8

\* What the turn that ends asks for was asked of nobody before.
LEMMA SettleAnswers ==
  ASSUME AnswerInv, NEW t \in Turns, Settle(t)
  PROVE  /\ CallsNumbered' /\ AskedByOne'
         /\ \A q \in Replies, c \in Calls :
              reply'[q].calls[c] = "asked" => reply[q].calls[c] \in {"absent", "asked"}
<1> DEFINE r == turn[t].reply
<1>1. /\ Working(t) /\ r \in Replies /\ reply \in [Replies -> Rows] /\ called \in Nat
  BY TurnType DEF Settle, Working, AtWork, WorkingTurns, AnswerInv, ChatInv, TypeOK
<1>2. Settled(turn[t]).calls \in {NoCalls, turn[t].calls}
  BY DEF Settled, NoReply
<1>3. /\ reply'[r] = Settled(turn[t]) /\ \A q \in Replies \ {r} : reply'[q] = reply[q]
      /\ turn' = [turn EXCEPT ![t] = Idle] /\ called' = called
  BY <1>1 DEF Settle, Go
<1>4. \A c \in Calls : /\ NoCalls[c] = "absent"
                       /\ turn[t].calls[c] # "absent" => Holds(t, c)
  BY <1>1 DEF NoCalls, Holds, Working, AtWork
<1>5. \A c \in Calls, q \in Replies :
        reply'[q].calls[c] # "absent" => reply[q].calls[c] # "absent" \/ Holds(t, c)
  BY <1>2, <1>3, <1>4
<1>6. CallsNumbered' /\ AskedByOne'
  <2>1. turn'[t] = Idle /\ \A u \in Turns \ {t} : turn'[u] = turn[u]
    BY <1>3, TurnType DEF AnswerInv, ChatInv
  <2>2. StepOf(t) /\ TurnFinds(t) /\ RowsFind(t) /\ AsksNew(t)
    BY <1>1, <1>3, <1>5, <2>1 DEF StepOf, TurnFinds, RowsFind, AsksNew, Idle, AtWork
  <2> QED
    BY <2>2, FindsOnly
<1>7. \A c \in Calls : turn[t].calls[c] = "asked" => reply[r].calls[c] = "absent"
  BY <1>1 DEF AnswerInv, AskedByOne
<1>8. \A q \in Replies, c \in Calls :
        reply'[q].calls[c] = "asked" => reply[q].calls[c] \in {"absent", "asked"}
  BY <1>2, <1>3, <1>4, <1>7
<1> QED
  BY <1>6, <1>8

\* A lease that ends changes no call.
LEMMA LapseAnswers ==
  ASSUME AnswerInv, NEW r \in Replies, Lapse(r)
  PROVE  /\ CallsNumbered' /\ AskedByOne'
         /\ \A q \in Replies : reply'[q].calls = reply[q].calls
<1>1. reply \in [Replies -> Rows]
  BY DEF AnswerInv, ChatInv, TypeOK, Rows
<1>2. /\ \A q \in Replies : reply'[q].calls = reply[q].calls
      /\ turn' = turn /\ called' = called
  BY <1>1 DEF Lapse, Rows
<1> QED
  BY <1>2 DEF AnswerInv, CallsNumbered, AskedByOne, Holds, Working

\* Every step keeps the calls apart, and asks no answered one again.
LEMMA NextAnswers ==
  ASSUME AnswerInv, [Next]_vars
  PROVE  AnswerInv' /\ [NotAskedAgain]_vars
<1>1. ChatInv'
  BY NextInv DEF AnswerInv
<1>2. CASE UNCHANGED vars
  BY <1>1, <1>2 DEF vars, AnswerInv, CallsNumbered, AskedByOne, Holds, Working
<1>3. ASSUME NEW r \in Replies, Lapse(r)
      PROVE  AnswerInv' /\ NotAskedAgain
  BY <1>1, <1>3, LapseAnswers DEF AnswerInv, NotAskedAgain
<1>4. ASSUME NEW t \in Turns, Load(t) \/ Refuse(t) \/ Lost(t)
      PROVE  AnswerInv' /\ NotAskedAgain
  <2>1. reply' = reply
    BY <1>4 DEF Load, Refuse, Lost
  <2> QED
    BY <1>1, <1>4, <2>1, IdleAnswers DEF AnswerInv, NotAskedAgain
<1>5. ASSUME NEW t \in Turns,
             \/ Open(t) \/ EndStream(t) \/ EndEmpty(t) \/ AskCall(t)
             \/ \E c \in Calls : RunCall(t, c) \/ CutOff(t, c)
      PROVE  AnswerInv' /\ NotAskedAgain
  <2>1. reply' = reply
    BY <1>5 DEF Open, EndStream, EndEmpty, AskCall, RunCall, CutOff
  <2> QED
    BY <1>1, <1>5, <2>1, StreamAnswers DEF AnswerInv, NotAskedAgain
<1>6. ASSUME NEW t \in Turns, Reserve(t)
      PROVE  AnswerInv' /\ NotAskedAgain
  BY <1>1, <1>6, ReserveAnswers DEF AnswerInv, NotAskedAgain
<1>7. ASSUME NEW t \in Turns, NEW r \in Replies, NEW says \in {"approved", "refused"},
             Claim(t, r, says)
      PROVE  AnswerInv' /\ NotAskedAgain
  BY <1>1, <1>7, ClaimAnswers DEF AnswerInv, NotAskedAgain
<1>8. ASSUME NEW t \in Turns, Settle(t)
      PROVE  AnswerInv' /\ NotAskedAgain
  BY <1>1, <1>8, SettleAnswers DEF AnswerInv, NotAskedAgain
<1> QED
  BY <1>2, <1>3, <1>4, <1>5, <1>6, <1>7, <1>8 DEF Next, Proceed

\* At first no call is anywhere.
LEMMA InitAnswers == Init => AnswerInv
<1> SUFFICES ASSUME Init PROVE AnswerInv
  OBVIOUS
<1>1. ChatInv
  BY InitInv
<1>2. /\ \A t \in Turns : turn[t].at = "idle"
      /\ \A r \in Replies, c \in Calls : reply[r].calls[c] = "absent"
  BY DEF Init, Idle, NoReply, NoCalls
<1> QED
  BY <1>1, <1>2 DEF AnswerInv, CallsNumbered, AskedByOne, Holds, Working, AtWork

\* A call the user has answered is never asked of them again, even where two
\* continuations overlap because a lease was outlived: what a turn stores at its
\* end asks only for what that turn's model asked for (settle, claim, reserve).
THEOREM AnswersStand == Spec => AnswersStay
<1>1. Init => AnswerInv
  BY InitAnswers
<1>2. AnswerInv /\ [Next]_vars => AnswerInv' /\ [NotAskedAgain]_vars
  BY NextAnswers
<1> QED
  BY <1>1, <1>2, PTL DEF Spec, AnswersStay
-----------------------------------------------------------------------------
(* What an ended turn leaves                                               *)

\* What the other lemmas need of the types.
LEMMA ChatTypes ==
  ASSUME ChatInv
  PROVE  /\ reply \in [Replies -> Rows]
         /\ turn \in [Turns -> {Idle} \cup LoadedTurns \cup WorkingTurns]
         /\ called \in Nat /\ faults \in Nat /\ runs \in [Calls -> Nat]
         /\ answer \in [Calls -> {"none", "approved", "refused"}]
         /\ \A t \in Turns : Working(t) => turn[t] \in WorkingTurns
BY TurnType DEF ChatInv, TypeOK, Rows, WorkingTurns, LoadedTurns

\* A turn that gets on with its stream still works on its reply, and has no calls
\* but those it had and the new one its model asks for.
LEMMA StreamMoves ==
  ASSUME ChatInv, NEW t \in Turns,
         \/ Open(t) \/ EndStream(t) \/ EndEmpty(t) \/ AskCall(t)
         \/ \E c \in Calls : RunCall(t, c) \/ CutOff(t, c)
  PROVE  /\ Working(t) /\ Working(t)' /\ turn'[t].reply = turn[t].reply
         /\ UNCHANGED <<reply, answer>>
         /\ \A u \in Turns \ {t} : turn'[u] = turn[u]
         /\ called' \in Nat /\ called <= called'
         /\ \A c \in Calls :
              /\ turn'[t].calls[c] # "absent" =>
                   turn[t].calls[c] # "absent" \/ (c > called /\ c <= called')
              /\ turn'[t].calls[c] = "asked" => turn[t].calls[c] = "asked" \/ c > called
              /\ turn'[t].calls[c] = "approved" => turn[t].calls[c] = "approved"
<1> DEFINE to == turn'[t]
<1>0. Working(t)
  BY DEF Open, EndStream, EndEmpty, AskCall, RunCall, CutOff, Executed, Working, AtWork
<1>1. Working(t) /\ turn[t] \in WorkingTurns /\ called \in Nat
      /\ turn \in [Turns -> {Idle} \cup LoadedTurns \cup WorkingTurns]
  BY <1>0, ChatTypes
<1>2. /\ turn' = [turn EXCEPT ![t] = to] /\ UNCHANGED <<reply, answer>>
      /\ to.at \in AtWork /\ to.reply = turn[t].reply
      /\ called' \in Nat /\ called <= called'
      /\ \A c \in Calls : /\ to.calls[c] # "absent" =>
                               turn[t].calls[c] # "absent" \/ (c > called /\ c <= called')
                          /\ to.calls[c] = "asked" => turn[t].calls[c] = "asked" \/ c > called
                          /\ to.calls[c] = "approved" => turn[t].calls[c] = "approved"
  <2>1. CASE Open(t)
    BY <1>1, <2>1 DEF Open, Go, WorkingTurns, Contents, AtWork
  <2>2. CASE EndStream(t)
    BY <1>1, <2>2 DEF EndStream, Ending, Go, WorkingTurns, AtWork
  <2>3. CASE EndEmpty(t)
    BY <1>1, <2>3 DEF EndEmpty, Ending, Go, WorkingTurns, AtWork
  <2>4. CASE AskCall(t)
    BY <1>1, <2>4 DEF AskCall, Go, WorkingTurns, Contents, Calls, AtWork
  <2>5. CASE \E c \in Calls : RunCall(t, c)
    BY <1>1, <2>5 DEF RunCall, Executed, Go, WorkingTurns, Contents, AtWork
  <2>6. CASE \E c \in Calls : CutOff(t, c)
    BY <1>1, <2>6 DEF CutOff, Executed, Ending, Go, WorkingTurns, AtWork
  <2> QED
    BY <2>1, <2>2, <2>3, <2>4, <2>5, <2>6
<1> QED
  BY <1>1, <1>2 DEF Working

\* A new turn works on a new reply without calls.  The reply it closes keeps its
\* claim; each of its calls stays as it was or is one the turn had read, closed.
LEMMA ReserveMoves ==
  ASSUME ChatInv, NEW t \in Turns, Reserve(t)
  PROVE  \E new \in Replies :
         /\ ~Working(t) /\ Working(t)' /\ turn'[t].reply = new /\ turn'[t].calls = NoCalls
         /\ \A u \in Turns \ {t} : turn'[u] = turn[u]
         /\ UNCHANGED <<called, answer, runs, faults>>
         /\ reply'[new].calls = NoCalls /\ reply'[new].row = "empty"
         /\ \A r \in Replies \ {new} :
              /\ reply'[r].row = reply[r].row /\ reply'[r].claim = reply[r].claim
              /\ \/ reply'[r].calls = reply[r].calls
                 \/ r = turn[t].reply /\ reply'[r].calls = Close(turn[t].calls)
<1> DEFINE new == reserved + 1
           closed == Superseding(turn[t])
           fresh == [NoReply EXCEPT !.row = "empty"]
           to == Opening(new, NoCalls, FALSE)
<1>1. /\ turn[t] \in LoadedTurns /\ ~Working(t) /\ reply \in [Replies -> Rows]
      /\ turn \in [Turns -> {Idle} \cup LoadedTurns \cup WorkingTurns]
      /\ reserved \in 0 .. MaxReplies
  BY TurnType DEF Reserve, Working, AtWork, ChatInv, TypeOK
<1>2. new \in Replies
  BY <1>1, ChatTurnAssumption DEF Reserve, Replies
<1>3. /\ closed \in [Replies -> Rows]
      /\ \A r \in Replies :
           /\ closed[r].row = reply[r].row /\ closed[r].claim = reply[r].claim
           /\ \/ closed[r].calls = reply[r].calls
              \/ r = turn[t].reply /\ closed[r].calls = Close(turn[t].calls)
  <2>1. Close(turn[t].calls) \in Contents
    BY <1>1, ContentsType DEF LoadedTurns
  <2> QED
    BY <1>1, <2>1 DEF Superseding, Rows
<1>4. /\ reply' = [closed EXCEPT ![new] = fresh]
      /\ turn' = [turn EXCEPT ![t] = to]
      /\ UNCHANGED <<called, answer, runs, faults>>
  BY DEF Reserve, Go
<1>5. fresh.calls = NoCalls /\ fresh.row = "empty"
  BY DEF NoReply
<1>6. to.reply = new /\ to.calls = NoCalls /\ to.at \in AtWork
  BY DEF Opening, AtWork
<1> HIDE DEF closed, fresh, to, new
<1>7. /\ turn'[t] = to /\ \A u \in Turns \ {t} : turn'[u] = turn[u]
      /\ reply'[new] = fresh /\ \A r \in Replies \ {new} : reply'[r] = closed[r]
  BY <1>1, <1>2, <1>3, <1>4
<1> QED
  BY <1>1, <1>2, <1>3, <1>4, <1>5, <1>6, <1>7 DEF Working

\* A continuation takes the calls of the reply it claims with their answers.
LEMMA ClaimMoves ==
  ASSUME ChatInv, NEW t \in Turns, NEW r \in Replies, NEW says \in {"approved", "refused"},
         Claim(t, r, says)
  PROVE  /\ ~Working(t) /\ Working(t)' /\ turn'[t].reply = r
         /\ turn'[t].calls = Applied(reply[r].calls, says)
         /\ \A u \in Turns \ {t} : turn'[u] = turn[u]
         /\ UNCHANGED <<called, runs, faults>>
         /\ \A c \in Calls :
              answer'[c] = IF reply[r].calls[c] = "asked" THEN says ELSE answer[c]
         /\ reply[r].claim # "live" /\ reply'[r].claim = "live"
         /\ reply'[r].calls = Applied(reply[r].calls, says)
         /\ reply'[r].row = reply[r].row
         /\ \A q \in Replies \ {r} : reply'[q] = reply[q]
<1> DEFINE taken == Applied(reply[r].calls, says)
           to == Opening(r, taken, TRUE)
<1>1. /\ ~Working(t) /\ reply \in [Replies -> Rows]
      /\ turn \in [Turns -> {Idle} \cup LoadedTurns \cup WorkingTurns]
  BY ChatTypes DEF Claim, Working, AtWork
<1>2. /\ turn' = [turn EXCEPT ![t] = to]
      /\ reply' = [reply EXCEPT ![r].calls = taken, ![r].claim = "live"]
      /\ reply[r].claim # "live"
      /\ answer' = [c \in Calls |-> IF reply[r].calls[c] = "asked" THEN says ELSE answer[c]]
      /\ UNCHANGED <<called, runs, faults>>
  BY DEF Claim, Go, MayContinue
<1>3. to.reply = r /\ to.calls = taken /\ to.at \in AtWork
  BY DEF Opening, AtWork
<1> HIDE DEF taken, to
<1>4. /\ reply'[r].calls = taken /\ reply'[r].claim = "live" /\ reply'[r].row = reply[r].row
      /\ \A q \in Replies \ {r} : reply'[q] = reply[q]
  BY <1>1, <1>2 DEF Rows
<1>5. turn'[t] = to /\ \A u \in Turns \ {t} : turn'[u] = turn[u]
  BY <1>1, <1>2
<1> QED
  BY <1>1, <1>2, <1>3, <1>4, <1>5 DEF Working, taken

\* The turn that ends leaves its reply without a claim, and with its calls or none.
LEMMA SettleMoves ==
  ASSUME ChatInv, NEW t \in Turns, Settle(t)
  PROVE  \E r \in Replies :
         /\ WorksOn(t, r) /\ turn'[t] = Idle
         /\ \A u \in Turns \ {t} : turn'[u] = turn[u]
         /\ UNCHANGED <<called, answer, runs, faults>>
         /\ reply'[r].calls \in {NoCalls, turn[t].calls} /\ reply'[r].claim = "none"
         /\ reply'[r].row # "empty"
         /\ \A q \in Replies \ {r} : reply'[q] = reply[q]
<1> DEFINE r == turn[t].reply
           left == Settled(turn[t])
<1>1. /\ Working(t) /\ r \in Replies /\ reply \in [Replies -> Rows]
      /\ turn \in [Turns -> {Idle} \cup LoadedTurns \cup WorkingTurns]
  BY ChatTypes DEF Settle, Working, AtWork, WorkingTurns
<1>2. left.calls \in {NoCalls, turn[t].calls} /\ left.claim = "none" /\ left.row # "empty"
  BY DEF Settled, NoReply
<1>3. /\ reply' = [reply EXCEPT ![r] = left] /\ turn' = [turn EXCEPT ![t] = Idle]
      /\ UNCHANGED <<called, answer, runs, faults>>
  BY DEF Settle, Go
<1> HIDE DEF left
<1> QED
  BY <1>1, <1>2, <1>3 DEF WorksOn

\* As long as nothing went wrong, a step leaves no reply empty or claimed that
\* no turn is at work on: who works on it goes on, or settles it.
LEMMA NextSettled ==
  ASSUME ChatInv, EndedIsSettled, [Next]_vars
  PROVE  EndedIsSettled'
<1> SUFFICES ASSUME faults' = 0, NEW r \in Replies,
                    reply'[r].row = "empty" \/ reply'[r].claim # "none"
             PROVE  \E t \in Turns : WorksOn(t, r)'
  BY DEF EndedIsSettled
<1>1. /\ reply \in [Replies -> Rows] /\ faults \in Nat
      /\ turn \in [Turns -> {Idle} \cup LoadedTurns \cup WorkingTurns]
  BY ChatTypes
<1>2. Failing => FALSE
  BY <1>1 DEF Failing
<1>3. CASE UNCHANGED vars
  BY <1>3 DEF vars, EndedIsSettled, WorksOn, Working
<1>4. ASSUME NEW q \in Replies, Lapse(q)
      PROVE  \E t \in Turns : WorksOn(t, r)'
  <2>1. /\ faults' = faults /\ turn' = turn
        /\ reply[q].claim = "live" /\ \A t \in Turns : ~WorksOn(t, q)
    BY <1>2, <1>4 DEF Lapse
  <2>2. r # q
    BY <2>1 DEF EndedIsSettled
  <2>3. reply'[r] = reply[r]
    BY <1>1, <1>4, <2>2 DEF Lapse
  <2> QED
    BY <2>1, <2>3 DEF EndedIsSettled, WorksOn, Working
<1>5. ASSUME NEW t \in Turns, Load(t) \/ Refuse(t)
      PROVE  \E u \in Turns : WorksOn(u, r)'
  <2>1. ~Working(t) /\ reply' = reply /\ faults' = faults
    BY <1>5 DEF Load, Refuse, Working, AtWork
  <2>2. PICK u \in Turns : WorksOn(u, r)
    BY <2>1 DEF EndedIsSettled
  <2>3. turn'[u] = turn[u]
    BY <1>1, <1>5, <2>1, <2>2 DEF Load, Refuse, Go, WorksOn
  <2> QED
    BY <2>2, <2>3 DEF WorksOn, Working
<1>6. ASSUME NEW t \in Turns, Lost(t) \/ \E c \in Calls : CutOff(t, c)
      PROVE  FALSE
  BY <1>2, <1>6 DEF Lost, CutOff
<1>7. ASSUME NEW t \in Turns,
             \/ Open(t) \/ EndStream(t) \/ EndEmpty(t) \/ AskCall(t)
             \/ \E c \in Calls : RunCall(t, c)
      PROVE  \E u \in Turns : WorksOn(u, r)'
  <2>1. /\ Working(t)' /\ turn'[t].reply = turn[t].reply /\ reply' = reply
        /\ \A u \in Turns \ {t} : turn'[u] = turn[u]
    BY <1>7, StreamMoves
  <2>2. faults' = faults
    BY <1>7 DEF Open, EndStream, EndEmpty, AskCall, RunCall
  <2> QED
    BY <2>1, <2>2 DEF EndedIsSettled, WorksOn, Working
<1>8. ASSUME NEW t \in Turns, Reserve(t)
      PROVE  \E u \in Turns : WorksOn(u, r)'
  <2>1. PICK new \in Replies :
          /\ ~Working(t) /\ Working(t)' /\ turn'[t].reply = new
          /\ \A u \in Turns \ {t} : turn'[u] = turn[u]
          /\ faults' = faults
          /\ \A q \in Replies \ {new} :
               reply'[q].row = reply[q].row /\ reply'[q].claim = reply[q].claim
    BY <1>8, ReserveMoves
  <2> QED
    BY <2>1 DEF EndedIsSettled, WorksOn, Working
<1>9. ASSUME NEW t \in Turns, NEW q \in Replies, NEW says \in {"approved", "refused"},
             Claim(t, q, says)
      PROVE  \E u \in Turns : WorksOn(u, r)'
  <2>1. /\ ~Working(t) /\ Working(t)' /\ turn'[t].reply = q
        /\ \A u \in Turns \ {t} : turn'[u] = turn[u]
        /\ faults' = faults
        /\ \A p \in Replies \ {q} : reply'[p] = reply[p]
    BY <1>9, ClaimMoves
  <2> QED
    BY <2>1 DEF EndedIsSettled, WorksOn, Working
<1>10. ASSUME NEW t \in Turns, Settle(t)
       PROVE  \E u \in Turns : WorksOn(u, r)'
  <2>1. PICK q \in Replies :
          /\ WorksOn(t, q) /\ faults' = faults
          /\ \A u \in Turns \ {t} : turn'[u] = turn[u]
          /\ reply'[q].claim = "none" /\ reply'[q].row # "empty"
          /\ \A p \in Replies \ {q} : reply'[p] = reply[p]
    BY <1>10, SettleMoves
  <2> QED
    BY <2>1 DEF EndedIsSettled, WorksOn, Working
<1> QED
  BY <1>3, <1>4, <1>5, <1>6, <1>7, <1>8, <1>9, <1>10 DEF Next, Proceed

\* Where nothing went wrong, a reply that is empty or claimed has a turn at work:
\* no end of a turn, in whatever order turns overlap, leaves a chat that waits
\* for nobody (settle, claim, reserve).
THEOREM EndsSettle == Spec => []EndedIsSettled
<1>1. Init => EndedIsSettled
  BY DEF Init, EndedIsSettled, NoReply
<1>2. ChatInv /\ EndedIsSettled /\ [Next]_vars => EndedIsSettled'
  BY NextSettled
<1> QED
  BY <1>1, <1>2, ChatInvariant, PTL DEF Spec
-----------------------------------------------------------------------------
(* Approved calls                                                          *)

\* Reply r, or what a turn has in hand of it, has call c.
Has(c, r) ==
  \/ reply[r].calls[c] # "absent"
  \/ \E t \in Turns : Holds(t, c) /\ turn[t].reply = r

\* A call belongs to one reply.
OneReplyPerCall ==
  \A c \in Calls, r, q \in Replies : Has(c, r) /\ Has(c, q) => r = q

\* Call c is in state s in a row, or at a turn at work.
Shown(c, s) ==
  \/ \E r \in Replies : reply[r].calls[c] = s
  \/ \E t \in Turns : Working(t) /\ turn[t].calls[c] = s

\* What is asked has no answer yet, and only what was approved is approved or runs.
AnswersAgree ==
  \A c \in Calls :
    /\ Shown(c, "asked") \/ c > called => answer[c] = "none"
    /\ Shown(c, "approved") \/ runs[c] > 0 => answer[c] = "approved"

\* Turn t may run call c, or may once the user has approved it.
Runnable == {"asked", "approved"}
Takes(t, c) == Working(t) /\ turn[t].calls[c] \in Runnable
Takers(c) == {t \in Turns : Takes(t, c)}

\* A turn that comes may take call c: it is still to be asked, or stored in a
\* reply that can be claimed, or can once the lease of nobody has passed.
MayBeTaken(c) ==
  \/ c > called
  \/ \E r \in Replies :
       /\ reply[r].calls[c] \in Runnable
       /\ reply[r].claim = "live" => \A t \in Turns : ~WorksOn(t, r)

One(P) == IF P THEN 1 ELSE 0

\* How often a call ran, and how often it may still run, is paid for by faults.
RunsCovered ==
  \A c \in Calls :
    /\ IsFiniteSet(Takers(c))
    /\ runs[c] + Cardinality(Takers(c)) + One(MayBeTaken(c)) <= 1 + faults

RunsInv == AnswerInv /\ OneReplyPerCall /\ AnswersAgree /\ RunsCovered

\* A step of one turn takes call c up or gives it up for that turn alone.
LEMMA TakersStep ==
  ASSUME NEW t \in Turns, NEW c \in Calls,
         \A u \in Turns \ {t} : turn'[u] = turn[u],
         IsFiniteSet(Takers(c))
  PROVE  /\ IsFiniteSet(Takers(c)')
         /\ Cardinality(Takers(c)) \in Nat /\ Cardinality(Takers(c)') \in Nat
         /\ Cardinality(Takers(c)') + One(Takes(t, c))
              = Cardinality(Takers(c)) + One(Takes(t, c)')
<1>1. \A u \in Turns \ {t} : Takes(u, c)' <=> Takes(u, c)
  BY DEF Takes, Working
<1>2. Takers(c)' = {u \in Turns : Takes(u, c)'}
  BY DEF Takers
<1>3. Cardinality(Takers(c)) \in Nat
  BY FS_CardinalityType
<1>4. CASE Takes(t, c)' <=> Takes(t, c)
  <2>1. Takers(c)' = Takers(c)
    BY <1>1, <1>2, <1>4 DEF Takers
  <2>2. One(Takes(t, c)') = One(Takes(t, c)) /\ One(Takes(t, c)) \in Nat
    BY <1>4 DEF One
  <2> QED
    BY <1>3, <2>1, <2>2
<1>5. CASE Takes(t, c)' /\ ~Takes(t, c)
  <2>1. Takers(c)' = Takers(c) \cup {t} /\ t \notin Takers(c)
    BY <1>1, <1>2, <1>5 DEF Takers
  <2>2. IsFiniteSet(Takers(c)') /\ Cardinality(Takers(c)') = Cardinality(Takers(c)) + 1
    BY <2>1, FS_AddElement
  <2>3. One(Takes(t, c)') = 1 /\ One(Takes(t, c)) = 0
    BY <1>5 DEF One
  <2> QED
    BY <1>3, <2>2, <2>3
<1>6. CASE ~Takes(t, c)' /\ Takes(t, c)
  <2>1. Takers(c)' = Takers(c) \ {t} /\ t \in Takers(c)
    BY <1>1, <1>2, <1>6 DEF Takers
  <2>2. IsFiniteSet(Takers(c)') /\ Cardinality(Takers(c)') = Cardinality(Takers(c)) - 1
    BY <2>1, FS_RemoveElement
  <2>3. Cardinality(Takers(c)') \in Nat
    BY <2>2, FS_CardinalityType
  <2>4. One(Takes(t, c)') = 0 /\ One(Takes(t, c)) = 1
    BY <1>6 DEF One
  <2> QED
    BY <1>3, <2>2, <2>3, <2>4
<1> QED
  BY <1>4, <1>5, <1>6

\* A step keeps runs covered when what runs, or may run once more, was in hand of
\* the turn that takes the step, was there for a turn to come, or is a fault.
LEMMA RunsBalance ==
  ASSUME ChatInv, ChatInv', RunsCovered, NEW t \in Turns,
         \A u \in Turns \ {t} : turn'[u] = turn[u],
         \A c \in Calls :
           runs'[c] + One(Takes(t, c)') + One(MayBeTaken(c)') + faults
             <= runs[c] + One(Takes(t, c)) + One(MayBeTaken(c)) + faults'
  PROVE  RunsCovered'
<1> SUFFICES ASSUME NEW c \in Calls
             PROVE  /\ IsFiniteSet(Takers(c)')
                    /\ runs'[c] + Cardinality(Takers(c)') + One(MayBeTaken(c)') <= 1 + faults'
  BY DEF RunsCovered, One
<1>1. runs[c] \in Nat /\ faults \in Nat
  BY ChatTypes
<1>2. runs'[c] \in Nat /\ faults' \in Nat
  BY ChatTurnAssumption DEF ChatInv, TypeOK
<1>3. /\ IsFiniteSet(Takers(c)')
      /\ Cardinality(Takers(c)) \in Nat /\ Cardinality(Takers(c)') \in Nat
      /\ Cardinality(Takers(c)') + One(Takes(t, c)) = Cardinality(Takers(c)) + One(Takes(t, c)')
  BY TakersStep DEF RunsCovered
<1>4. \A P : One(P) \in Nat
  BY DEF One
<1>5. runs[c] + Cardinality(Takers(c)) + One(MayBeTaken(c)) <= 1 + faults
  BY DEF RunsCovered
<1>6. runs'[c] + One(Takes(t, c)') + One(MayBeTaken(c)') + faults
        <= runs[c] + One(Takes(t, c)) + One(MayBeTaken(c)) + faults'
  OBVIOUS
<1>7. /\ One(Takes(t, c)') \in Nat /\ One(MayBeTaken(c)') \in Nat
      /\ One(Takes(t, c)) \in Nat /\ One(MayBeTaken(c)) \in Nat
  BY DEF One
<1> QED
  BY <1>1, <1>2, <1>3, <1>5, <1>6, <1>7

\* Calls stay in their replies when a step brings up none in a reply that has it
\* not, but for new ones in the reply of the turn that asks for them.
LEMMA RepliesKept ==
  ASSUME AnswerInv, OneReplyPerCall, NEW t \in Turns,
         \A c \in Calls, r \in Replies :
           Has(c, r)' => Has(c, r) \/ (c > called /\ turn[t].reply = r)
  PROVE  OneReplyPerCall'
<1> SUFFICES ASSUME NEW c \in Calls, NEW r \in Replies, NEW q \in Replies, Has(c, r)', Has(c, q)'
             PROVE  r = q
  BY DEF OneReplyPerCall
<1>1. c > called => ~Has(c, r) /\ ~Has(c, q)
  BY DEF AnswerInv, CallsNumbered, Has
<1> QED
  BY <1>1 DEF OneReplyPerCall

\* Answers agree with calls where no step shows a call approved that was not, or
\* asked that was not and is not new.
LEMMA AnswersKept ==
  ASSUME AnswersAgree, called \in Nat, called' \in Nat, called <= called', answer' = answer,
         \A c \in Calls :
           /\ Shown(c, "asked")' => Shown(c, "asked") \/ c > called
           /\ Shown(c, "approved")' => Shown(c, "approved")
           /\ runs'[c] > 0 => runs[c] > 0 \/ Shown(c, "approved")
  PROVE  AnswersAgree'
<1>1. \A c \in Calls : c > called' => c > called
  BY DEF Calls
<1> QED
  BY <1>1 DEF AnswersAgree

\* A turn that reads the chat, is refused or dies takes nothing up; what it gives
\* up when it dies another may take, which its death pays for.
LEMMA IdleRuns ==
  ASSUME RunsInv, ChatInv', NEW t \in Turns, Load(t) \/ Refuse(t) \/ Lost(t)
  PROVE  OneReplyPerCall' /\ AnswersAgree' /\ RunsCovered'
<1>1. /\ turn \in [Turns -> {Idle} \cup LoadedTurns \cup WorkingTurns]
      /\ called \in Nat /\ faults \in Nat /\ runs \in [Calls -> Nat]
  BY ChatTypes DEF RunsInv, AnswerInv
<1>2. UNCHANGED <<called, reply, answer, runs>>
  BY DEF Load, Refuse, Lost
<1>3. \A u \in Turns \ {t} : turn'[u] = turn[u]
  BY <1>1 DEF Load, Refuse, Lost, Go
<1>4. turn'[t] = Idle \/ (Load(t) /\ turn'[t].at = "loaded")
  BY <1>1 DEF Load, Refuse, Lost, Go
<1>5. ~Working(t)'
  BY <1>4 DEF Working, Idle, AtWork
<1>6. ASSUME Load(t), NEW c \in Calls, NEW r \in Replies,
             turn'[t].calls[c] # "absent", turn'[t].reply = r
      PROVE  reply[r].calls[c] # "absent"
  <2>1. /\ turn'[t].calls = IF LastHeld = 0 THEN NoCalls ELSE reply[LastHeld].calls
        /\ turn'[t].reply = LastHeld
    BY <1>1, <1>6 DEF Load, Go
  <2> QED
    BY <1>6, <2>1 DEF NoCalls
<1>7. \A c \in Calls, r \in Replies : Has(c, r)' => Has(c, r)
  BY <1>2, <1>3, <1>4, <1>6 DEF Has, Holds, Idle
<1>8. \A c \in Calls, s \in {"asked", "approved"} : Shown(c, s)' => Shown(c, s)
  BY <1>2, <1>3, <1>5 DEF Shown, Working
<1>9. OneReplyPerCall' /\ AnswersAgree'
  BY <1>1, <1>2, <1>7, <1>8, RepliesKept, AnswersKept DEF RunsInv
<1>10. ASSUME NEW c \in Calls
       PROVE  runs'[c] + One(Takes(t, c)') + One(MayBeTaken(c)') + faults
                <= runs[c] + One(Takes(t, c)) + One(MayBeTaken(c)) + faults'
  <2>1. ~Takes(t, c)' /\ runs'[c] = runs[c] /\ runs[c] \in Nat
    BY <1>1, <1>2, <1>5 DEF Takes
  <2>2. CASE Lost(t)
    <3>1. faults' = faults + 1
      BY <2>2 DEF Lost, Failing
    <3> QED
      BY <1>1, <2>1, <3>1 DEF One
  <2>3. CASE Load(t) \/ Refuse(t)
    <3>1. ~Working(t) /\ faults' = faults
      BY <2>3 DEF Load, Refuse, Working, AtWork
    <3>2. \A r \in Replies, u \in Turns : WorksOn(u, r)' <=> WorksOn(u, r)
      BY <1>3, <1>5, <3>1 DEF WorksOn, Working
    <3>3. MayBeTaken(c)' => MayBeTaken(c)
      BY <1>2, <3>2 DEF MayBeTaken
    <3> QED
      BY <1>1, <2>1, <3>1, <3>3 DEF One
  <2> QED
    BY <2>2, <2>3
<1>11. RunsCovered'
  BY <1>3, <1>10, RunsBalance DEF RunsInv, AnswerInv
<1> QED
  BY <1>9, <1>11

\* A turn runs only what it has in hand and was approved; it has it no more then,
\* unless it is cut off, which is a fault.
LEMMA StreamRuns ==
  ASSUME RunsInv, ChatInv', NEW t \in Turns,
         \/ Open(t) \/ EndStream(t) \/ EndEmpty(t) \/ AskCall(t)
         \/ \E c \in Calls : RunCall(t, c) \/ CutOff(t, c)
  PROVE  OneReplyPerCall' /\ AnswersAgree' /\ RunsCovered'
<1>0. ChatInv
  BY DEF RunsInv, AnswerInv
<1>1. /\ turn[t] \in WorkingTurns /\ called \in Nat /\ faults \in Nat /\ runs \in [Calls -> Nat]
      /\ turn \in [Turns -> {Idle} \cup LoadedTurns \cup WorkingTurns]
  BY <1>0, ChatTypes, StreamMoves
<1>2. /\ Working(t) /\ Working(t)' /\ turn'[t].reply = turn[t].reply
      /\ UNCHANGED <<reply, answer>>
      /\ \A u \in Turns \ {t} : turn'[u] = turn[u]
      /\ called' \in Nat /\ called <= called'
      /\ \A c \in Calls :
           /\ turn'[t].calls[c] # "absent" =>
                turn[t].calls[c] # "absent" \/ (c > called /\ c <= called')
           /\ turn'[t].calls[c] = "asked" => turn[t].calls[c] = "asked" \/ c > called
           /\ turn'[t].calls[c] = "approved" => turn[t].calls[c] = "approved"
  BY <1>0, StreamMoves
<1>3. turn[t].at # "idle"
  BY <1>2 DEF Working, AtWork
<1>4. \A c \in Calls, r \in Replies :
        Has(c, r)' => Has(c, r) \/ (c > called /\ turn[t].reply = r)
  BY <1>2, <1>3 DEF Has, Holds
<1>5. \A c \in Calls : /\ Shown(c, "asked")' => Shown(c, "asked") \/ c > called
                       /\ Shown(c, "approved")' => Shown(c, "approved")
  BY <1>2 DEF Shown, Working
<1>6. \A c \in Calls : runs'[c] > 0 => runs[c] > 0 \/ Shown(c, "approved")
  <2>1. CASE UNCHANGED runs
    BY <2>1
  <2>2. ASSUME NEW d \in Calls, Executed(t, d)
        PROVE  \A c \in Calls : runs'[c] > 0 => runs[c] > 0 \/ Shown(c, "approved")
    BY <1>1, <1>2, <2>2 DEF Executed, Shown
  <2>3. Open(t) \/ EndStream(t) \/ EndEmpty(t) \/ AskCall(t) => UNCHANGED runs
    BY DEF Open, EndStream, EndEmpty, AskCall
  <2>4. \A d \in Calls : RunCall(t, d) \/ CutOff(t, d) => Executed(t, d)
    BY DEF RunCall, CutOff
  <2> QED
    BY <2>1, <2>2, <2>3, <2>4
<1>7. OneReplyPerCall' /\ AnswersAgree'
  <2>1. OneReplyPerCall'
    BY <1>4, RepliesKept DEF RunsInv
  <2>2. AnswersAgree'
    BY <1>1, <1>2, <1>5, <1>6, AnswersKept DEF RunsInv
  <2> QED
    BY <2>1, <2>2
<1>8. \A r \in Replies, u \in Turns : WorksOn(u, r)' <=> WorksOn(u, r)
  BY <1>2 DEF WorksOn, Working
<1>9. \A c \in Calls : MayBeTaken(c)' => MayBeTaken(c)
  <2>1. \A c \in Calls : c > called' => c > called
    BY <1>1, <1>2 DEF Calls
  <2> QED
    BY <1>2, <1>8, <2>1 DEF MayBeTaken
<1>10. ASSUME NEW c \in Calls
       PROVE  runs'[c] + One(Takes(t, c)') + One(MayBeTaken(c)') + faults
                <= runs[c] + One(Takes(t, c)) + One(MayBeTaken(c)) + faults'
  <2>1. CASE Open(t) \/ EndStream(t) \/ EndEmpty(t)
    <3>1. faults' = faults /\ runs' = runs
      BY <2>1 DEF Open, EndStream, EndEmpty
    <3>2. turn'[t].calls[c] \in Runnable => turn[t].calls[c] \in Runnable
      <4>1. CASE Open(t)
        BY <1>1, <4>1 DEF Open, Go, WorkingTurns, Contents, Runnable
      <4>2. CASE EndStream(t)
        BY <1>1, <4>2 DEF EndStream, Ending, Go, WorkingTurns
      <4>3. CASE EndEmpty(t)
        BY <1>1, <4>3 DEF EndEmpty, Ending, Go, WorkingTurns
      <4> QED
        BY <2>1, <4>1, <4>2, <4>3
    <3>3. Takes(t, c)' => Takes(t, c)
      BY <1>2, <3>2 DEF Takes
    <3> QED
      BY <1>1, <1>9, <3>1, <3>3 DEF One
  <2>2. CASE AskCall(t)
    <3>1. /\ faults' = faults /\ runs' = runs /\ called' = called + 1
          /\ \A d \in Calls \ {called + 1} : turn'[t].calls[d] = turn[t].calls[d]
      BY <1>1, <2>2 DEF AskCall, Go, WorkingTurns, Contents
    <3>2. CASE c # called + 1
      <4>1. Takes(t, c)' => Takes(t, c)
        BY <1>2, <3>1, <3>2 DEF Takes
      <4> QED
        BY <1>1, <1>9, <3>1, <4>1 DEF One
    <3>3. CASE c = called + 1
      <4>1. c > called /\ ~(c > called')
        BY <1>1, <3>1, <3>3
      <4>2. \A r \in Replies : reply'[r].calls[c] = "absent"
        BY <1>2, <4>1 DEF RunsInv, AnswerInv, CallsNumbered
      <4>3. MayBeTaken(c) /\ ~MayBeTaken(c)'
        BY <4>1, <4>2 DEF MayBeTaken, Runnable
      <4> QED
        BY <1>1, <3>1, <4>3 DEF One
    <3> QED
      BY <3>2, <3>3
  <2>3. ASSUME NEW d \in Calls, RunCall(t, d)
        PROVE  runs'[c] + One(Takes(t, c)') + One(MayBeTaken(c)') + faults
                 <= runs[c] + One(Takes(t, c)) + One(MayBeTaken(c)) + faults'
    <3>1. /\ faults' = faults /\ runs' = [runs EXCEPT ![d] = @ + 1]
          /\ turn[t].calls[d] = "approved" /\ turn'[t].calls[d] = "ran"
          /\ \A e \in Calls \ {d} : turn'[t].calls[e] = turn[t].calls[e]
      BY <1>1, <2>3 DEF RunCall, Executed, Go, WorkingTurns, Contents
    <3>2. CASE c # d
      <4>1. (Takes(t, c)' => Takes(t, c)) /\ runs'[c] = runs[c]
        BY <1>1, <1>2, <3>1, <3>2 DEF Takes
      <4> QED
        BY <1>1, <1>9, <3>1, <4>1 DEF One
    <3>3. CASE c = d
      <4>1. Takes(t, c) /\ ~Takes(t, c)' /\ runs'[c] = runs[c] + 1
        BY <1>1, <1>2, <3>1, <3>3 DEF Takes, Runnable
      <4> QED
        BY <1>1, <1>9, <3>1, <4>1 DEF One
    <3> QED
      BY <3>2, <3>3
  <2>4. ASSUME NEW d \in Calls, CutOff(t, d)
        PROVE  runs'[c] + One(Takes(t, c)') + One(MayBeTaken(c)') + faults
                 <= runs[c] + One(Takes(t, c)) + One(MayBeTaken(c)) + faults'
    <3>1. /\ faults' = faults + 1 /\ runs' = [runs EXCEPT ![d] = @ + 1]
          /\ turn'[t].calls = turn[t].calls
      BY <1>1, <2>4 DEF CutOff, Executed, Failing, Ending, Go, WorkingTurns
    <3>2. (Takes(t, c)' => Takes(t, c)) /\ runs'[c] <= runs[c] + 1 /\ runs'[c] \in Nat
      BY <1>1, <1>2, <3>1 DEF Takes
    <3> QED
      BY <1>1, <1>9, <3>1, <3>2 DEF One
  <2> QED
    BY <2>1, <2>2, <2>3, <2>4
<1>11. RunsCovered'
  BY <1>0, <1>2, <1>10, RunsBalance DEF RunsInv
<1> QED
  BY <1>7, <1>11

\* A new turn has no calls, and closes what was pending in the reply it had read.
LEMMA ReserveRuns ==
  ASSUME RunsInv, ChatInv', NEW t \in Turns, Reserve(t)
  PROVE  OneReplyPerCall' /\ AnswersAgree' /\ RunsCovered'
<1>0. ChatInv
  BY DEF RunsInv, AnswerInv
<1>1. called \in Nat /\ faults \in Nat /\ runs \in [Calls -> Nat]
  BY <1>0, ChatTypes
<1>2. PICK new \in Replies :
        /\ ~Working(t) /\ Working(t)' /\ turn'[t].reply = new /\ turn'[t].calls = NoCalls
        /\ \A u \in Turns \ {t} : turn'[u] = turn[u]
        /\ UNCHANGED <<called, answer, runs, faults>>
        /\ reply'[new].calls = NoCalls
        /\ \A r \in Replies \ {new} :
             /\ reply'[r].claim = reply[r].claim
             /\ \/ reply'[r].calls = reply[r].calls
                \/ r = turn[t].reply /\ reply'[r].calls = Close(turn[t].calls)
  BY <1>0, ReserveMoves
<1>3. \A c \in Calls : NoCalls[c] = "absent"
  BY DEF NoCalls
<1>4. \A c \in Calls : /\ Close(turn[t].calls)[c] \notin Runnable
                       /\ Close(turn[t].calls)[c] # "absent" => Holds(t, c)
  BY DEF Close, Pausing, Runnable, Holds, Reserve
<1>5. \A c \in Calls, r \in Replies : Has(c, r)' => Has(c, r)
  BY <1>2, <1>3, <1>4 DEF Has, Holds
<1>6. \A c \in Calls, s \in Runnable : Shown(c, s)' => Shown(c, s)
  BY <1>2, <1>3, <1>4 DEF Shown, Working, Runnable
<1>7. OneReplyPerCall'
  BY <1>0, <1>5, RepliesKept DEF RunsInv
<1>8. AnswersAgree'
  BY <1>1, <1>2, <1>6, AnswersKept DEF RunsInv, Runnable
<1>9. \A r \in Replies \ {new}, u \in Turns : WorksOn(u, r)' <=> WorksOn(u, r)
  BY <1>2 DEF WorksOn, Working
<1>10. \A c \in Calls : (MayBeTaken(c)' => MayBeTaken(c)) /\ ~Takes(t, c)'
  BY <1>2, <1>3, <1>4, <1>9 DEF MayBeTaken, Takes, Runnable
<1>11. \A c \in Calls :
         runs'[c] + One(Takes(t, c)') + One(MayBeTaken(c)') + faults
           <= runs[c] + One(Takes(t, c)) + One(MayBeTaken(c)) + faults'
  BY <1>1, <1>2, <1>10 DEF One
<1>12. RunsCovered'
  BY <1>0, <1>2, <1>11, RunsBalance DEF RunsInv
<1> QED
  BY <1>7, <1>8, <1>12

\* A continuation answers calls that were not answered and did not run, and takes
\* only what nobody else can take.
LEMMA ClaimRuns ==
  ASSUME RunsInv, ChatInv', NEW t \in Turns, NEW r \in Replies,
         NEW says \in {"approved", "refused"}, Claim(t, r, says)
  PROVE  OneReplyPerCall' /\ AnswersAgree' /\ RunsCovered'
<1>0. ChatInv
  BY DEF RunsInv, AnswerInv
<1>1. called \in Nat /\ faults \in Nat /\ runs \in [Calls -> Nat]
  BY <1>0, ChatTypes
<1>2. /\ ~Working(t) /\ Working(t)' /\ turn'[t].reply = r
      /\ turn'[t].calls = Applied(reply[r].calls, says)
      /\ \A u \in Turns \ {t} : turn'[u] = turn[u]
      /\ UNCHANGED <<called, runs, faults>>
      /\ \A c \in Calls :
           answer'[c] = IF reply[r].calls[c] = "asked" THEN says ELSE answer[c]
      /\ reply[r].claim # "live" /\ reply'[r].claim = "live"
      /\ reply'[r].calls = Applied(reply[r].calls, says)
      /\ \A q \in Replies \ {r} : reply'[q] = reply[q]
  BY <1>0, ClaimMoves
<1>3. \A c \in Calls :
        /\ reply[r].calls[c] = "asked" => Applied(reply[r].calls, says)[c] = says
        /\ reply[r].calls[c] # "asked" => Applied(reply[r].calls, says)[c] = reply[r].calls[c]
  BY DEF Applied
<1>4. \A c \in Calls, q \in Replies : Has(c, q)' => Has(c, q)
  BY <1>2, <1>3 DEF Has, Holds
<1>5. OneReplyPerCall'
  BY <1>0, <1>4, RepliesKept DEF RunsInv
<1>6. ASSUME NEW c \in Calls, reply[r].calls[c] = "asked"
      PROVE  /\ answer'[c] = says /\ ~(c > called) /\ ~Shown(c, "asked")'
             /\ says # "approved" => ~Shown(c, "approved")'
             /\ ~(runs'[c] > 0)
  <2>1. answer[c] = "none" /\ ~Shown(c, "approved") /\ ~(runs[c] > 0) /\ ~(c > called)
    BY <1>6 DEF RunsInv, AnswersAgree, AnswerInv, CallsNumbered, Shown
  <2>2. \A u \in Turns : ~(Working(u) /\ turn[u].calls[c] = "asked")
    BY <1>6 DEF RunsInv, AnswerInv, AskedByOne
  <2>3. \A q \in Replies \ {r} : reply[q].calls[c] = "absent"
    BY <1>6 DEF RunsInv, OneReplyPerCall, Has
  <2>4. ~Shown(c, "asked")'
    BY <1>2, <1>3, <1>6, <2>2, <2>3 DEF Shown, Working
  <2>5. says # "approved" => ~Shown(c, "approved")'
    BY <1>2, <1>3, <1>6, <2>1, <2>3 DEF Shown, Working
  <2> QED
    BY <1>2, <1>6, <2>1, <2>4, <2>5
<1>7. ASSUME NEW c \in Calls, reply[r].calls[c] # "asked"
      PROVE  /\ answer'[c] = answer[c] /\ runs'[c] = runs[c]
             /\ \A s \in Runnable : Shown(c, s)' => Shown(c, s)
  BY <1>2, <1>3, <1>7 DEF Shown, Working
<1>8. AnswersAgree'
  <2> SUFFICES ASSUME NEW c \in Calls
               PROVE  /\ Shown(c, "asked")' \/ c > called' => answer'[c] = "none"
                      /\ Shown(c, "approved")' \/ runs'[c] > 0 => answer'[c] = "approved"
    BY DEF AnswersAgree
  <2>1. called' = called
    BY <1>2
  <2>2. CASE reply[r].calls[c] = "asked"
    BY <1>6, <2>1, <2>2
  <2>3. CASE reply[r].calls[c] # "asked"
    BY <1>7, <2>1, <2>3 DEF RunsInv, AnswersAgree, Runnable
  <2> QED
    BY <2>2, <2>3
<1>9. \A q \in Replies \ {r}, u \in Turns : WorksOn(u, q)' => WorksOn(u, q)
  BY <1>2 DEF WorksOn, Working
<1>10. \A q \in Replies \ {r}, u \in Turns : WorksOn(u, q) => WorksOn(u, q)'
  BY <1>2 DEF WorksOn, Working
<1>11. WorksOn(t, r)'
  BY <1>2 DEF WorksOn, Working
<1>12. \A c \in Calls : MayBeTaken(c)' => MayBeTaken(c)
  BY <1>2, <1>10, <1>11 DEF MayBeTaken
<1>13. ASSUME NEW c \in Calls, Takes(t, c)'
       PROVE  MayBeTaken(c) /\ ~MayBeTaken(c)'
  <2>1. reply[r].calls[c] \in Runnable
    BY <1>2, <1>3, <1>13 DEF Takes, Runnable
  <2>2. MayBeTaken(c)
    BY <1>2, <2>1 DEF MayBeTaken
  <2>3. ~(c > called')
    BY <1>2, <2>1 DEF RunsInv, AnswerInv, CallsNumbered, Runnable
  <2>4. \A q \in Replies \ {r} : reply'[q].calls[c] = "absent"
    BY <1>2, <2>1 DEF RunsInv, OneReplyPerCall, Has, Runnable
  <2>5. ~MayBeTaken(c)'
    BY <1>2, <1>11, <2>3, <2>4 DEF MayBeTaken, Runnable
  <2> QED
    BY <2>2, <2>5
<1>14. \A c \in Calls :
         runs'[c] + One(Takes(t, c)') + One(MayBeTaken(c)') + faults
           <= runs[c] + One(Takes(t, c)) + One(MayBeTaken(c)) + faults'
  BY <1>1, <1>2, <1>12, <1>13 DEF One
<1>15. RunsCovered'
  BY <1>0, <1>2, <1>14, RunsBalance DEF RunsInv
<1> QED
  BY <1>5, <1>8, <1>15

\* The turn that ends leaves to others at most what it had in hand itself.
LEMMA SettleRuns ==
  ASSUME RunsInv, ChatInv', NEW t \in Turns, Settle(t)
  PROVE  OneReplyPerCall' /\ AnswersAgree' /\ RunsCovered'
<1>0. ChatInv
  BY DEF RunsInv, AnswerInv
<1>1. called \in Nat /\ faults \in Nat /\ runs \in [Calls -> Nat]
  BY <1>0, ChatTypes
<1>2. PICK r \in Replies :
        /\ WorksOn(t, r) /\ turn'[t] = Idle
        /\ \A u \in Turns \ {t} : turn'[u] = turn[u]
        /\ UNCHANGED <<called, answer, runs, faults>>
        /\ reply'[r].calls \in {NoCalls, turn[t].calls} /\ reply'[r].claim = "none"
        /\ \A q \in Replies \ {r} : reply'[q] = reply[q]
  BY <1>0, SettleMoves
<1>3. /\ \A c \in Calls : NoCalls[c] = "absent"
      /\ Working(t) /\ turn[t].at # "idle" /\ turn[t].reply = r /\ ~Working(t)'
  BY <1>2 DEF NoCalls, WorksOn, Working, AtWork, Idle
<1>4. \A c \in Calls : reply'[r].calls[c] \in {"absent", turn[t].calls[c]}
  BY <1>2, <1>3
<1>5. \A c \in Calls, q \in Replies : Has(c, q)' => Has(c, q)
  <2>1. turn'[t].at = "idle"
    BY <1>2 DEF Idle
  <2> QED
    BY <1>2, <1>3, <1>4, <2>1 DEF Has, Holds
<1>6. OneReplyPerCall'
  BY <1>0, <1>5, RepliesKept DEF RunsInv
<1>7. \A c \in Calls, s \in Runnable : Shown(c, s)' => Shown(c, s)
  BY <1>2, <1>3, <1>4 DEF Shown, Working, Runnable
<1>8. AnswersAgree'
  BY <1>1, <1>2, <1>7, AnswersKept DEF RunsInv, Runnable
<1>9. \A q \in Replies \ {r}, u \in Turns : WorksOn(u, q)' <=> WorksOn(u, q)
  BY <1>2, <1>3 DEF WorksOn, Working
<1>10. ASSUME NEW c \in Calls
       PROVE  ~Takes(t, c)' /\ (MayBeTaken(c)' => MayBeTaken(c) \/ Takes(t, c))
  <2>1. ~Takes(t, c)'
    BY <1>3 DEF Takes
  <2>2. reply'[r].calls[c] \in Runnable => Takes(t, c)
    BY <1>3, <1>4 DEF Takes, Runnable
  <2> QED
    BY <1>2, <1>9, <2>1, <2>2 DEF MayBeTaken
<1>11. \A c \in Calls :
         runs'[c] + One(Takes(t, c)') + One(MayBeTaken(c)') + faults
           <= runs[c] + One(Takes(t, c)) + One(MayBeTaken(c)) + faults'
  BY <1>1, <1>2, <1>10 DEF One
<1>12. RunsCovered'
  BY <1>0, <1>2, <1>11, RunsBalance DEF RunsInv
<1> QED
  BY <1>6, <1>8, <1>12

\* A lease that ends under a turn lets one more turn in, and is a fault.
LEMMA LapseRuns ==
  ASSUME RunsInv, ChatInv', NEW r \in Replies, Lapse(r)
  PROVE  OneReplyPerCall' /\ AnswersAgree' /\ RunsCovered'
<1>0. ChatInv
  BY DEF RunsInv, AnswerInv
<1>1. /\ called \in Nat /\ faults \in Nat /\ runs \in [Calls -> Nat]
      /\ reply \in [Replies -> Rows]
  BY <1>0, ChatTypes
<1>2. /\ \A q \in Replies : reply'[q].calls = reply[q].calls
      /\ \A q \in Replies \ {r} : reply'[q] = reply[q]
      /\ UNCHANGED <<turn, called, answer, runs>>
      /\ \/ faults' = faults /\ \A t \in Turns : ~WorksOn(t, r)
         \/ faults' = faults + 1
  BY <1>1 DEF Lapse, Rows, Failing
<1>3. OneReplyPerCall'
  BY <1>2 DEF RunsInv, OneReplyPerCall, Has, Holds
<1>4. AnswersAgree'
  BY <1>2 DEF RunsInv, AnswersAgree, Shown, Working
<1>5. ASSUME NEW c \in Calls
      PROVE  /\ IsFiniteSet(Takers(c)')
             /\ runs'[c] + Cardinality(Takers(c)') + One(MayBeTaken(c)') <= 1 + faults'
  <2>1. Takers(c)' = Takers(c)
    BY <1>2 DEF Takers, Takes, Working
  <2>2. /\ IsFiniteSet(Takers(c)) /\ Cardinality(Takers(c)) \in Nat
        /\ runs[c] + Cardinality(Takers(c)) + One(MayBeTaken(c)) <= 1 + faults
    BY FS_CardinalityType DEF RunsInv, RunsCovered
  <2>3. \A q \in Replies, u \in Turns : WorksOn(u, q)' <=> WorksOn(u, q)
    BY <1>2 DEF WorksOn, Working
  <2>4. faults' = faults => (MayBeTaken(c)' => MayBeTaken(c))
    BY <1>1, <1>2, <2>3 DEF MayBeTaken
  <2>5. runs'[c] = runs[c] /\ runs[c] \in Nat
    BY <1>1, <1>2
  <2>6. faults' \in {faults, faults + 1}
    BY <1>2
  <2> QED
    BY <1>1, <2>1, <2>2, <2>4, <2>5, <2>6 DEF One
<1>6. RunsCovered'
  BY <1>5 DEF RunsCovered, One
<1> QED
  BY <1>3, <1>4, <1>6

\* Every step keeps calls in their replies, answers true and runs covered.
LEMMA NextRuns ==
  ASSUME RunsInv, [Next]_vars
  PROVE  RunsInv'
<1>1. AnswerInv'
  BY NextAnswers DEF RunsInv
<1>2. ChatInv'
  BY <1>1 DEF AnswerInv
<1>3. CASE UNCHANGED vars
  <2>1. UNCHANGED <<reply, turn, called, answer, runs, faults>>
    BY <1>3 DEF vars
  <2>2. OneReplyPerCall' /\ AnswersAgree'
    BY <2>1 DEF RunsInv, OneReplyPerCall, Has, Holds, AnswersAgree, Shown, Working
  <2>3. \A c \in Calls : Takers(c)' = Takers(c) /\ (MayBeTaken(c)' <=> MayBeTaken(c))
    BY <2>1 DEF Takers, Takes, MayBeTaken, WorksOn, Working
  <2>4. RunsCovered'
    BY <2>1, <2>3 DEF RunsInv, RunsCovered, One
  <2> QED
    BY <1>1, <2>2, <2>4 DEF RunsInv
<1>4. ASSUME NEW r \in Replies, Lapse(r) PROVE RunsInv'
  BY <1>1, <1>2, <1>4, LapseRuns DEF RunsInv
<1>5. ASSUME NEW t \in Turns, Load(t) \/ Refuse(t) \/ Lost(t) PROVE RunsInv'
  BY <1>1, <1>2, <1>5, IdleRuns DEF RunsInv
<1>6. ASSUME NEW t \in Turns,
             \/ Open(t) \/ EndStream(t) \/ EndEmpty(t) \/ AskCall(t)
             \/ \E c \in Calls : RunCall(t, c) \/ CutOff(t, c)
      PROVE  RunsInv'
  BY <1>1, <1>2, <1>6, StreamRuns DEF RunsInv
<1>7. ASSUME NEW t \in Turns, Reserve(t) PROVE RunsInv'
  BY <1>1, <1>2, <1>7, ReserveRuns DEF RunsInv
<1>8. ASSUME NEW t \in Turns, NEW r \in Replies, NEW says \in {"approved", "refused"},
             Claim(t, r, says)
      PROVE  RunsInv'
  BY <1>1, <1>2, <1>8, ClaimRuns DEF RunsInv
<1>9. ASSUME NEW t \in Turns, Settle(t) PROVE RunsInv'
  BY <1>1, <1>2, <1>9, SettleRuns DEF RunsInv
<1> QED
  BY <1>3, <1>4, <1>5, <1>6, <1>7, <1>8, <1>9 DEF Next, Proceed

\* At first no call is asked, answered or run.
LEMMA InitRuns == Init => RunsInv
<1> SUFFICES ASSUME Init PROVE RunsInv
  OBVIOUS
<1>1. AnswerInv
  BY InitAnswers
<1>2. /\ \A t \in Turns : turn[t].at = "idle" /\ ~Working(t)
      /\ \A r \in Replies, c \in Calls : reply[r].calls[c] = "absent"
      /\ \A c \in Calls : answer[c] = "none" /\ runs[c] = 0
      /\ faults = 0
  BY DEF Init, Idle, NoReply, NoCalls, Working, AtWork
<1>3. OneReplyPerCall /\ AnswersAgree
  BY <1>2 DEF OneReplyPerCall, Has, Holds, AnswersAgree, Shown
<1>4. ASSUME NEW c \in Calls
      PROVE  /\ IsFiniteSet(Takers(c))
             /\ runs[c] + Cardinality(Takers(c)) + One(MayBeTaken(c)) <= 1 + faults
  <2>1. Takers(c) = {}
    BY <1>2 DEF Takers, Takes
  <2>2. IsFiniteSet(Takers(c)) /\ Cardinality(Takers(c)) = 0
    BY <2>1, FS_EmptySet
  <2> QED
    BY <1>2, <2>2 DEF One
<1> QED
  BY <1>1, <1>3, <1>4 DEF RunsInv, RunsCovered

\* Rows, turns and answers agree on every call, and runs are paid for.
THEOREM RunsInvariant == Spec => []RunsInv
BY InitRuns, NextRuns, PTL DEF Spec

\* A call runs only if the user approved it, and once, unless something went
\* wrong, whatever turns overlap and however early they read the chat: each further
\* run stands for a death, a cut-off call, a failed write or an overrun lease
\* (claim, settle, closePendingToolParts).
THEOREM ApprovedCallsRunOnce == Spec => []ApprovedRunsOnce
<1>1. ASSUME RunsInv PROVE ApprovedRunsOnce
  <2>1. ASSUME NEW c \in Calls PROVE runs[c] <= 1 + faults
    <3>1. runs[c] \in Nat /\ faults \in Nat
      BY <1>1, ChatTypes DEF RunsInv, AnswerInv
    <3>2. /\ Cardinality(Takers(c)) \in Nat
          /\ runs[c] + Cardinality(Takers(c)) + One(MayBeTaken(c)) <= 1 + faults
      BY <1>1, FS_CardinalityType DEF RunsInv, RunsCovered
    <3> QED
      BY <3>1, <3>2 DEF One
  <2> QED
    BY <1>1, <2>1 DEF ApprovedRunsOnce, RunsInv, AnswersAgree
<1> QED
  BY <1>1, RunsInvariant, PTL
=============================================================================
