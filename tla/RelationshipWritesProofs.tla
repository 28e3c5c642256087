---------------------- MODULE RelationshipWritesProofs ----------------------
(***************************************************************************)
(* No grant outlives its organisation's place in the resource's scope, and *)
(* SpiceDB follows the grants in the order of their writes, for any        *)
(* organisations, resources, overlapping writes, deliverers and failures.  *)
(***************************************************************************)
EXTENDS RelationshipWrites, SequenceTheorems, FiniteSetTheorems, WellFoundedInduction, TLAPS

\* What a writer has in hand; of its events, only that they are numbers.
WritesAtWork == [at : {"locking", "written"}, write : Writes, wanted : SUBSET Organizations,
                 held : SUBSET Organizations, seqs : SUBSET Int]

RowsType ==
  /\ scope \in [Resources -> SUBSET Organizations]
  /\ grants \in [Resources -> SUBSET Organizations]
  /\ writer \in [Writers -> {Idle} \cup WritesAtWork]

\* An organisation's lock has one holder.
LocksExclude ==
  \A v, w \in Writers :
    v # w /\ writer[v] # Idle /\ writer[w] # Idle => writer[v].held \cap writer[w].held = {}

\* The home organisation is always in scope, so all writes on a resource lock it.
HomeInScope == \A r \in Resources : Home[r] \in scope[r]

\* What a writer checked under its locks is still so when it commits.
CheckStands ==
  \A w \in Writers : writer[w] # Idle /\ writer[w].at = "written" =>
    Scope(writer[w].write) \subseteq writer[w].held /\ Permitted(writer[w].write)

ScopeInv == RowsType /\ LocksExclude /\ HomeInScope /\ CheckStands /\ GrantsInScope

-----------------------------------------------------------------------------
\* The resources whose scope or grants a write may change.
Touched(write) ==
  IF write.does = "leave" THEN {r \in Resources : write.by \in grants[r]} ELSE {write.on}

\* Whoever may commit a write has the locks of its organisation and of the home
\* of whatever it touches.
LEMMA LocksOfWrite ==
  ASSUME ScopeInv, NEW w \in Writers, writer[w] # Idle, writer[w].at = "written"
  PROVE  /\ writer[w] \in WritesAtWork /\ writer[w].write \in Writes
         /\ writer[w].write.by \in writer[w].held
         /\ \A r \in Touched(writer[w].write) : r \in Resources /\ scope[r] \subseteq writer[w].held
                                                /\ Home[r] \in writer[w].held
<1> DEFINE write == writer[w].write
<1>1. writer[w] \in WritesAtWork /\ write \in Writes
  BY DEF ScopeInv, RowsType, WritesAtWork
<1>2. Scope(write) \subseteq writer[w].held /\ Permitted(write)
  BY DEF ScopeInv, CheckStands
<1>3. write.on \in Resources /\ write.by \in Organizations
      /\ write.does \in {"grant", "revoke", "leave", "add", "remove"}
  BY <1>1 DEF Writes
<1>4. \A r \in Resources : grants[r] \subseteq scope[r] /\ Home[r] \in scope[r]
  BY DEF ScopeInv, GrantsInScope, HomeInScope
<1>5. CASE write.does = "leave"
  <2>1. Scope(write) = {write.by} \cup UNION {scope[r] : r \in {q \in Resources : write.by \in grants[q]}}
    BY <1>5 DEF Scope
  <2>2. \A r \in Touched(write) : r \in Resources /\ scope[r] \subseteq Scope(write)
    BY <1>5, <2>1 DEF Touched
  <2> QED
    BY <1>1, <1>2, <1>4, <2>1, <2>2
<1>6. CASE write.does # "leave"
  <2>1. Touched(write) = {write.on} /\ scope[write.on] \subseteq Scope(write)
    BY <1>6 DEF Touched, Scope
  <2>2. write.by \in Scope(write)
    BY <1>2, <1>3, <1>4, <1>6 DEF Scope, Permitted
  <2> QED
    BY <1>1, <1>2, <1>3, <1>4, <2>1, <2>2
<1> QED
  BY <1>5, <1>6

\* Writes that may commit at the same time touch nothing of each other's.
LEMMA WritesApart ==
  ASSUME ScopeInv, NEW v \in Writers, NEW w \in Writers, v # w,
         writer[v] # Idle, writer[v].at = "written", writer[w] # Idle, writer[w].at = "written"
  PROVE  /\ writer[v].write.by # writer[w].write.by
         /\ Touched(writer[v].write) \cap Touched(writer[w].write) = {}
<1>1. writer[v].held \cap writer[w].held = {}
  BY DEF ScopeInv, LocksExclude
<1> QED
  BY <1>1, LocksOfWrite

\* A write changes the scope and the grants of what it touches alone, and the
\* grants of its own organisation alone.
LEMMA Effect ==
  ASSUME RowsType, NEW write \in Writes
  PROVE  /\ ScopeAfter(write) \in [Resources -> SUBSET Organizations]
         /\ GrantsAfter(write) \in [Resources -> SUBSET Organizations]
         /\ \A r \in Resources \ Touched(write) :
              ScopeAfter(write)[r] = scope[r] /\ GrantsAfter(write)[r] = grants[r]
         /\ \A r \in Resources, o \in Organizations \ {write.by} :
              o \in GrantsAfter(write)[r] <=> o \in grants[r]
<1>1. write.on \in Resources /\ write.by \in Organizations
      /\ write.does \in {"grant", "revoke", "leave", "add", "remove"}
  BY DEF Writes
<1>2. ScopeAfter(write) \in [Resources -> SUBSET Organizations]
  BY <1>1 DEF ScopeAfter, RowsType
<1>3. GrantsAfter(write) \in [Resources -> SUBSET Organizations]
  BY <1>1 DEF GrantsAfter, RowsType
<1>4. ASSUME NEW r \in Resources \ Touched(write)
      PROVE  ScopeAfter(write)[r] = scope[r] /\ GrantsAfter(write)[r] = grants[r]
  <2>1. ScopeAfter(write)[r] = scope[r]
    BY <1>1, <1>4 DEF ScopeAfter, Touched, RowsType
  <2>2. GrantsAfter(write)[r] = grants[r]
    BY <1>1, <1>4 DEF GrantsAfter, Ended, Touched
  <2> QED
    BY <2>1, <2>2
<1>5. \A r \in Resources, o \in Organizations \ {write.by} :
        o \in GrantsAfter(write)[r] <=> o \in grants[r]
  BY DEF GrantsAfter
<1> QED
  BY <1>2, <1>3, <1>4, <1>5

\* A permitted write keeps homes and grants in scope.
LEMMA EffectInScope ==
  ASSUME ScopeInv, NEW write \in Writes, Permitted(write)
  PROVE  \A r \in Resources : /\ Home[r] \in ScopeAfter(write)[r]
                              /\ GrantsAfter(write)[r] \subseteq ScopeAfter(write)[r]
<1> SUFFICES ASSUME NEW r \in Resources
             PROVE  /\ Home[r] \in ScopeAfter(write)[r]
                    /\ GrantsAfter(write)[r] \subseteq ScopeAfter(write)[r]
  OBVIOUS
<1>1. write.on \in Resources /\ write.by \in Organizations
      /\ write.does \in {"grant", "revoke", "leave", "add", "remove"}
  BY DEF Writes
<1>2. Home[r] \in scope[r] /\ grants[r] \subseteq scope[r]
  BY DEF ScopeInv, HomeInScope, GrantsInScope
<1>3. scope \in [Resources -> SUBSET Organizations]
  BY DEF ScopeInv, RowsType
<1>4. CASE write.does = "remove"
  BY <1>1, <1>2, <1>3, <1>4 DEF ScopeAfter, GrantsAfter, Ended, Permitted
<1>5. CASE write.does = "add"
  BY <1>1, <1>2, <1>3, <1>5 DEF ScopeAfter, GrantsAfter, Ended
<1>6. CASE write.does = "grant"
  BY <1>1, <1>2, <1>6 DEF ScopeAfter, GrantsAfter, Ended, Permitted
<1>7. CASE write.does \in {"revoke", "leave"}
  BY <1>1, <1>2, <1>7 DEF ScopeAfter, GrantsAfter, Ended
<1> QED
  BY <1>1, <1>4, <1>5, <1>6, <1>7

\* A commit leaves what other writers checked as it was.
LEMMA OthersStand ==
  ASSUME ScopeInv, NEW v \in Writers, NEW w \in Writers, v # w,
         writer[v] # Idle, writer[v].at = "written", writer[w] # Idle, writer[w].at = "written",
         scope' = ScopeAfter(writer[w].write), grants' = GrantsAfter(writer[w].write),
         NEW write \in Writes, write = writer[v].write
  PROVE  Scope(write)' = Scope(write) /\ (Permitted(write)' <=> Permitted(write))
<1>1. write.on \in Resources /\ write.by \in Organizations
      /\ write.does \in {"grant", "revoke", "leave", "add", "remove"}
  BY DEF Writes
<1>2. writer[w].write \in Writes
  BY LocksOfWrite
<1>3. write.by # writer[w].write.by /\ Touched(write) \cap Touched(writer[w].write) = {}
  BY WritesApart
<1>4. /\ \A r \in Resources \ Touched(writer[w].write) : scope'[r] = scope[r] /\ grants'[r] = grants[r]
      /\ \A r \in Resources : write.by \in grants'[r] <=> write.by \in grants[r]
  BY <1>1, <1>2, <1>3, Effect DEF ScopeInv
<1>5. ASSUME write.does = "leave"
      PROVE  Scope(write)' = Scope(write) /\ (Permitted(write)' <=> Permitted(write))
  <2>1. {r \in Resources : write.by \in grants'[r]} = {r \in Resources : write.by \in grants[r]}
    BY <1>4
  <2>2. \A r \in {q \in Resources : write.by \in grants[q]} : scope'[r] = scope[r]
    BY <1>3, <1>4, <1>5 DEF Touched
  <2>3. {scope'[r] : r \in {q \in Resources : write.by \in grants'[q]}}
        = {scope[r] : r \in {q \in Resources : write.by \in grants[q]}}
    BY <2>1, <2>2
  <2>4. Scope(write)' = {write.by} \cup UNION {scope'[r] : r \in {q \in Resources : write.by \in grants'[q]}}
    BY <1>5 DEF Scope
  <2>5. Scope(write) = {write.by} \cup UNION {scope[r] : r \in {q \in Resources : write.by \in grants[q]}}
    BY <1>5 DEF Scope
  <2>6. Permitted(write)' /\ Permitted(write)
    BY <1>5 DEF Permitted
  <2> QED
    BY <2>3, <2>4, <2>5, <2>6
<1>6. ASSUME write.does # "leave"
      PROVE  Scope(write)' = Scope(write) /\ (Permitted(write)' <=> Permitted(write))
  <2>1. scope'[write.on] = scope[write.on] /\ grants'[write.on] = grants[write.on]
    BY <1>1, <1>3, <1>4, <1>6 DEF Touched
  <2> QED
    BY <1>1, <1>6, <2>1 DEF Scope, Permitted
<1> QED
  BY <1>5, <1>6

\* The rows and the writers at work are left as they are.
LEMMA RowsStay ==
  ASSUME ScopeInv, UNCHANGED <<rows, writer>>
  PROVE  ScopeInv'
<1>1. RowsType' /\ LocksExclude' /\ HomeInScope' /\ GrantsInScope'
  BY DEF ScopeInv, RowsType, LocksExclude, HomeInScope, GrantsInScope, rows
<1>2. CheckStands'
  <2>1. scope' = scope /\ grants' = grants /\ writer' = writer
    BY DEF rows
  <2> QED
    BY <2>1 DEF ScopeInv, CheckStands, Scope, Permitted
<1> QED
  BY <1>1, <1>2 DEF ScopeInv

\* A writer takes a step that changes no rows.
LEMMA WriterSteps ==
  ASSUME ScopeInv, NEW w \in Writers, NEW to, UNCHANGED rows, Go(w, to),
         to \in {Idle} \cup WritesAtWork,
         to # Idle => \A v \in Writers \ {w} :
                        writer[v] # Idle => writer[v].held \cap to.held = {},
         to # Idle /\ to.at = "written" => Scope(to.write) \subseteq to.held /\ Permitted(to.write)
  PROVE  ScopeInv'
<1>1. scope' = scope /\ grants' = grants
  BY DEF rows
<1>2. writer' = [writer EXCEPT ![w] = to] /\ writer'[w] = to
      /\ \A v \in Writers \ {w} : writer'[v] = writer[v]
  BY DEF Go, ScopeInv, RowsType
<1>3. RowsType'
  BY <1>1, <1>2 DEF ScopeInv, RowsType
<1>4. LocksExclude'
  <2> SUFFICES ASSUME NEW u \in Writers, NEW v \in Writers, u # v, writer'[u] # Idle, writer'[v] # Idle
               PROVE  writer'[u].held \cap writer'[v].held = {}
    BY DEF LocksExclude
  <2>1. CASE u = w
    BY <1>2, <2>1
  <2>2. CASE v = w
    BY <1>2, <2>2
  <2>3. CASE u # w /\ v # w
    BY <1>2, <2>3 DEF ScopeInv, LocksExclude
  <2> QED
    BY <2>1, <2>2, <2>3
<1>5. HomeInScope' /\ GrantsInScope'
  BY <1>1 DEF ScopeInv, HomeInScope, GrantsInScope
<1>6. CheckStands'
  <2> SUFFICES ASSUME NEW v \in Writers, writer'[v] # Idle, writer'[v].at = "written"
               PROVE  /\ Scope(writer[v].write)' \subseteq writer'[v].held
                      /\ Permitted(writer[v].write)'
    BY DEF CheckStands
  <2>2. CASE v = w
    BY <1>1, <1>2, <2>2 DEF Scope, Permitted
  <2>3. CASE v # w
    BY <1>1, <1>2, <2>3 DEF ScopeInv, CheckStands, Scope, Permitted
  <2> QED
    BY <2>2, <2>3
<1> QED
  BY <1>3, <1>4, <1>5, <1>6 DEF ScopeInv

\* In the beginning nobody writes, and what was written is in scope.
LEMMA InitScope ==
  ASSUME RelationshipAssumption, Init
  PROVE  ScopeInv
<1>1. RowsType
  BY DEF Init, RowsType
<1>2. LocksExclude /\ CheckStands
  BY DEF Init, LocksExclude, CheckStands
<1>3. HomeInScope /\ GrantsInScope
  BY DEF Init, HomeInScope, GrantsInScope
<1> QED
  BY <1>1, <1>2, <1>3 DEF ScopeInv

\* What a write is about are organisations.
LEMMA ScopeType ==
  ASSUME RowsType, NEW write \in Writes
  PROVE  Scope(write) \subseteq Organizations
BY DEF Scope, RowsType, Writes

\* A write that begins has no locks yet.
LEMMA BeginScope ==
  ASSUME ScopeInv, NEW w \in Writers, NEW write \in Writes, Begin(w, write)
  PROVE  ScopeInv'
<1> DEFINE to == [at |-> "locking", write |-> write, wanted |-> Scope(write),
                  held |-> {}, seqs |-> {}]
<1>1. to \in WritesAtWork
  BY ScopeType DEF WritesAtWork, ScopeInv
<1>2. Go(w, to) /\ UNCHANGED rows
  BY DEF Begin, rows
<1>3. to.held = {} /\ to.at # "written"
  OBVIOUS
<1> HIDE DEF to
<1> QED
  BY <1>1, <1>2, <1>3, WriterSteps

\* A free lock is held by nobody else.
LEMMA LockScope ==
  ASSUME ScopeInv, NEW w \in Writers, LockOrganization(w)
  PROVE  ScopeInv'
<1>1. writer[w] \in WritesAtWork
  BY DEF LockOrganization, ScopeInv, RowsType, Idle
<1>2. PICK o \in Organizations :
        /\ Holders(o) = {}
        /\ Go(w, [writer[w] EXCEPT !.held = @ \cup {o}])
  BY DEF LockOrganization
<1> DEFINE to == [writer[w] EXCEPT !.held = @ \cup {o}]
<1>3. to \in WritesAtWork /\ to.held = writer[w].held \cup {o} /\ to.at = "locking"
  BY <1>1 DEF WritesAtWork, LockOrganization
<1>4. \A v \in Writers \ {w} : writer[v] # Idle => writer[v].held \cap to.held = {}
  <2> SUFFICES ASSUME NEW v \in Writers \ {w}, writer[v] # Idle
               PROVE  writer[v].held \cap to.held = {}
    OBVIOUS
  <2>1. writer[w] # Idle
    BY DEF LockOrganization, Idle
  <2>2. writer[v].held \cap writer[w].held = {}
    BY <2>1 DEF ScopeInv, LocksExclude
  <2>3. o \notin writer[v].held
    BY <1>2 DEF Holders
  <2> QED
    BY <1>3, <2>2, <2>3
<1>5. UNCHANGED rows
  BY DEF LockOrganization
<1> HIDE DEF to
<1>6. Go(w, to)
  BY <1>2 DEF to
<1> QED
  BY <1>3, <1>4, <1>5, <1>6, WriterSteps

\* Whoever starts over gives its locks up.
LEMMA StartOverScope ==
  ASSUME ScopeInv, NEW w \in Writers, StartOver(w)
  PROVE  ScopeInv'
<1>1. writer[w] \in WritesAtWork /\ writer[w].at = "locking"
  BY DEF StartOver, Locked, ScopeInv, RowsType, Idle
<1>2. Grown(w) \subseteq Organizations
  BY <1>1, ScopeType DEF Grown, ScopeInv, WritesAtWork
<1> DEFINE to == [writer[w] EXCEPT !.wanted = @ \cup Grown(w), !.held = {}]
<1>3. to \in WritesAtWork /\ to.held = {} /\ to.at = "locking"
  BY <1>1, <1>2 DEF WritesAtWork
<1>4. Go(w, to) /\ UNCHANGED rows
  BY DEF StartOver
<1> HIDE DEF to
<1> QED
  BY <1>3, <1>4, WriterSteps

\* Before it writes, a writer checks what it read again under its locks.
LEMMA WriteScope ==
  ASSUME ScopeInv, NEW w \in Writers, Write(w)
  PROVE  ScopeInv'
<1>1. writer[w] \in WritesAtWork /\ writer[w] # Idle
  BY DEF Write, Locked, ScopeInv, RowsType, Idle
<1>2. PICK new \in SUBSET Int : Go(w, [writer[w] EXCEPT !.at = "written", !.seqs = new])
  <2> DEFINE new == Len(outbox) + 1 .. Len(outbox) + Cardinality(Changed(writer[w].write))
  <2>1. new \in SUBSET Int
    OBVIOUS
  <2>2. Go(w, [writer[w] EXCEPT !.at = "written", !.seqs = new])
    BY DEF Write
  <2> QED
    BY <2>1, <2>2
<1> DEFINE to == [writer[w] EXCEPT !.at = "written", !.seqs = new]
<1>3. to \in WritesAtWork /\ to.held = writer[w].held /\ to.write = writer[w].write
  BY <1>1 DEF WritesAtWork
<1>4. Scope(to.write) \subseteq to.held
  BY <1>3 DEF Write, Locked, Grown
<1>5. Permitted(to.write)
  BY <1>3 DEF Write
<1>6. \A v \in Writers \ {w} : writer[v] # Idle => writer[v].held \cap to.held = {}
  BY <1>1, <1>3 DEF ScopeInv, LocksExclude
<1>7. UNCHANGED rows
  BY DEF Write
<1> HIDE DEF to
<1>8. Go(w, to)
  BY <1>2 DEF to
<1> QED
  BY <1>3, <1>4, <1>5, <1>6, <1>7, <1>8, WriterSteps

\* Whoever ends without a commit changes no rows.
LEMMA EndScope ==
  ASSUME ScopeInv, NEW w \in Writers, RefuseWrite(w) \/ AbortWrite(w)
  PROVE  ScopeInv'
<1>1. Go(w, Idle) /\ UNCHANGED rows
  BY DEF RefuseWrite, AbortWrite
<1> QED
  BY <1>1, WriterSteps

\* A commit keeps the scope and what the others checked.
LEMMA CommitScope ==
  ASSUME ScopeInv, NEW w \in Writers, CommitWrite(w)
  PROVE  ScopeInv'
<1>1. writer[w] # Idle /\ writer[w].at = "written"
  BY DEF CommitWrite, Idle
<1>2. writer[w].write \in Writes /\ Permitted(writer[w].write)
  BY <1>1, LocksOfWrite DEF ScopeInv, CheckStands
<1>3. scope' = ScopeAfter(writer[w].write) /\ grants' = GrantsAfter(writer[w].write)
  BY DEF CommitWrite
<1>4. writer' = [writer EXCEPT ![w] = Idle] /\ writer'[w] = Idle
      /\ \A v \in Writers \ {w} : writer'[v] = writer[v]
  BY DEF CommitWrite, Go, ScopeInv, RowsType
<1>5. RowsType'
  <2>1. writer' \in [Writers -> {Idle} \cup WritesAtWork]
    BY <1>4 DEF ScopeInv, RowsType
  <2> QED
    BY <1>2, <1>3, <2>1, Effect DEF ScopeInv, RowsType
<1>6. HomeInScope' /\ GrantsInScope'
  BY <1>2, <1>3, EffectInScope DEF HomeInScope, GrantsInScope
<1>7. LocksExclude'
  BY <1>4 DEF ScopeInv, LocksExclude
<1>8. CheckStands'
  <2> SUFFICES ASSUME NEW v \in Writers, writer'[v] # Idle, writer'[v].at = "written"
               PROVE  /\ Scope(writer[v].write)' \subseteq writer'[v].held
                      /\ Permitted(writer[v].write)'
    BY DEF CheckStands
  <2>1. v # w /\ writer'[v] = writer[v]
    BY <1>4
  <2>2. Scope(writer[v].write) \subseteq writer[v].held /\ Permitted(writer[v].write)
    BY <2>1 DEF ScopeInv, CheckStands
  <2>3. PICK write \in Writes : write = writer[v].write
    BY <2>1, LocksOfWrite
  <2>4. Scope(write)' = Scope(write) /\ (Permitted(write)' <=> Permitted(write))
    BY <1>1, <1>3, <2>1, <2>3, OthersStand
  <2>5. /\ Scope(writer[v].write)' = Scope(write)'
        /\ (Permitted(writer[v].write)' <=> Permitted(write)')
    BY <2>1, <2>3 DEF Scope, Permitted
  <2> QED
    BY <2>1, <2>2, <2>3, <2>4, <2>5
<1> QED
  BY <1>5, <1>6, <1>7, <1>8 DEF ScopeInv

\* Deliveries leave the rows and the writers alone.
LEMMA DeliveryScope ==
  ASSUME \/ DeliverAll \/ \E through \in Seqs : StartDelivery(through)
         \/ Deliver \/ FailEvent \/ AbortDelivery
         \/ \E request \in lingering : LandLate(request)
         \/ \E s \in Seqs : EndWait(s)
  PROVE  UNCHANGED <<rows, writer>>
BY DEF DeliverAll, StartDelivery, Deliver, Land, Acknowledge, CommitDelivery,
       FailEvent, AbortDelivery, LandLate, EndWait

\* Every step keeps what was checked under locks.
LEMMA NextScope ==
  ASSUME ScopeInv, [Next]_vars
  PROVE  ScopeInv'
<1>1. ASSUME NEW w \in Writers, NEW write \in Writes, Begin(w, write)
      PROVE  ScopeInv'
  BY <1>1, BeginScope
<1>2. ASSUME NEW w \in Writers, LockOrganization(w)
      PROVE  ScopeInv'
  BY <1>2, LockScope
<1>3. ASSUME NEW w \in Writers, Proceed(w)
      PROVE  ScopeInv'
  BY <1>3, StartOverScope, EndScope, WriteScope, CommitScope DEF Proceed
<1>4. ASSUME NEW w \in Writers, AbortWrite(w)
      PROVE  ScopeInv'
  BY <1>4, EndScope
<1>5. CASE \/ DeliverAll \/ \E through \in Seqs : StartDelivery(through)
           \/ Deliver \/ FailEvent \/ AbortDelivery
           \/ \E request \in lingering : LandLate(request)
           \/ \E s \in Seqs : EndWait(s)
  BY <1>5, DeliveryScope, RowsStay
<1>6. CASE UNCHANGED vars
  BY <1>6, RowsStay DEF vars, rows
<1> QED
  BY <1>1, <1>2, <1>3, <1>4, <1>5, <1>6 DEF Next

\* The invariant holds of every write that overlaps with any others: each works
\* under the locks of whatever it touches, and what it checked there stands
\* until it commits (withLockedScope and the bodies run under it).
THEOREM ScopeInvariant == Spec => []ScopeInv
<1>1. Init => ScopeInv
  BY RelationshipAssumption, InitScope
<1>2. ScopeInv /\ [Next]_vars => ScopeInv'
  BY NextScope
<1> QED
  BY <1>1, <1>2, PTL DEF Spec

\* No organisation grants what is not in its scope: a grant that is made while
\* its resource leaves the organisation is refused or ended with it.
THEOREM GrantsStayInScope == Spec => []GrantsInScope
<1>1. ScopeInv => GrantsInScope
  BY DEF ScopeInv
<1> QED
  BY <1>1, ScopeInvariant, PTL

-----------------------------------------------------------------------------
(* What SpiceDB holds: events, their order and their deliveries.            *)

\* The events of writes that committed.
Committed == {s \in DOMAIN outbox : outbox[s].status \in {"pending", "failed", "processed"}}

\* The writes of two events had a lock in common.
Crossing(s, t) == outbox[s].locked \cap outbox[t].locked # {}

\* What the deliverer is still to send.
Batch == {delivery.batch[i] : i \in DOMAIN delivery.batch}

EventRecords == [of : Resources, touch : BOOLEAN, locked : SUBSET Organizations,
                 status : {"open", "undone", "pending", "failed", "processed"},
                 waits : BOOLEAN, covers : SUBSET Int]

EventsType ==
  /\ outbox \in Seq(EventRecords)
  /\ \A s \in DOMAIN outbox : Home[outbox[s].of] \in outbox[s].locked
  /\ delivery \in [batch : Seq(Int), landed : BOOLEAN, settled : Seq(Int), failed : SUBSET Int]
  /\ tuples \in [Resources -> BOOLEAN]

\* An event of a write that may commit is one of the tuples it changes, with the
\* change it will have made; nothing newer crosses it but the write's own events.
WriteFits(s, w) ==
  /\ s \in DOMAIN outbox /\ outbox[s].status = "open"
  /\ outbox[s].of \in Changed(writer[w].write)
  /\ outbox[s].touch = Held(writer[w].write, outbox[s].of)
  /\ outbox[s].locked = writer[w].held
  /\ \A t \in DOMAIN outbox : s < t /\ Crossing(s, t) => t \in writer[w].seqs
  /\ \A t \in writer[w].seqs : outbox[t].of = outbox[s].of => t = s

Written(w) == writer[w] # Idle /\ writer[w].at = "written"

\* Every tuple a write changes has its event.
AllEvents(w) == \A r \in Changed(writer[w].write) : \E s \in writer[w].seqs : outbox[s].of = r

OwnEvents ==
  \A w \in Writers :
    /\ writer[w] # Idle /\ ~Written(w) => writer[w].seqs = {}
    /\ Written(w) => AllEvents(w) /\ \A s \in writer[w].seqs : WriteFits(s, w)

OpenIsOwned ==
  \A s \in DOMAIN outbox :
    outbox[s].status = "open" => \E w \in Writers : Written(w) /\ s \in writer[w].seqs

\* The last committed event of a resource makes its tuple what the grants ask
\* for; without one the tuple is what they ask for.
Granted(r) == grants[r] # {}
Latest ==
  \A s \in Committed :
    \/ outbox[s].touch = Granted(outbox[s].of)
    \/ \E t \in Committed : s < t /\ outbox[t].of = outbox[s].of
Untouched ==
  \A r \in Resources : (\E s \in Committed : outbox[s].of = r) \/ tuples[r] = Granted(r)

\* An event is processed after the older ones it crosses, and its token shows them.
ProcessedInOrder ==
  \A t \in Processed, s \in DOMAIN outbox :
    s < t /\ Crossing(s, t) =>
      outbox[s].status = "undone" \/ (s \in Processed /\ s \in outbox[t].covers)
SentInOrder ==
  \A t \in Sent, s \in DOMAIN outbox :
    s < t /\ Crossing(s, t) => outbox[s].status = "undone" \/ s \in Processed \/ s \in Sent

\* A batch is of undelivered events in order, and leaves out none that a later
\* one of it crosses.
Ascending(q) == \A i, j \in DOMAIN q : i < j => q[i] < q[j]
BatchFits ==
  /\ Batch \cup Sent \cup delivery.failed \subseteq Undelivered
  /\ Ascending(delivery.batch) /\ Ascending(delivery.settled)
  /\ \A s \in Sent, t \in Batch : s < t
  /\ \A t \in Batch, s \in Undelivered : s < t /\ Crossing(s, t) => s \in Batch \cup Sent

\* The tuple of what SpiceDB is known to have is as this event, or a newer one,
\* made it, unless a request that nobody waited for undid it.
Stands(s) ==
  \E t \in Committed :
    s <= t /\ outbox[t].of = outbox[s].of /\ outbox[t].touch = tuples[outbox[s].of]
Standing ==
  /\ delivery.landed => delivery.batch # <<>>
  /\ \A s \in Known : outbox[s].of \in late \/ Stands(s)
  /\ \A request \in lingering : request.event \in Committed

Elsewhere ==
  /\ Latest /\ Untouched /\ ProcessedInOrder /\ SentInOrder
  /\ BatchFits /\ Standing
OutboxInv == EventsType /\ OwnEvents /\ OpenIsOwned /\ Elsewhere

-----------------------------------------------------------------------------
\* An event has its fields, and the lock of its resource's home was held for it.
LEMMA EventType ==
  ASSUME EventsType, NEW s \in DOMAIN outbox
  PROVE  /\ outbox[s] \in EventRecords /\ outbox[s].of \in Resources
         /\ Home[outbox[s].of] \in outbox[s].locked
         /\ s \in Int /\ s \in 1 .. Len(outbox) /\ Len(outbox) \in Nat
<1>1. outbox \in Seq(EventRecords)
  BY DEF EventsType
<1>2. DOMAIN outbox = 1 .. Len(outbox) /\ Len(outbox) \in Nat /\ outbox[s] \in EventRecords
  BY <1>1, LenProperties, ElementOfSeq
<1> QED
  BY <1>2 DEF EventsType, EventRecords

\* Events of one tuple cross.
LEMMA SameTupleCrosses ==
  ASSUME EventsType, NEW s \in DOMAIN outbox, NEW t \in DOMAIN outbox, outbox[s].of = outbox[t].of
  PROVE  Crossing(s, t)
BY EventType DEF Crossing

\* What is sent, and what is to be, are numbers of events.
LEMMA DeliveryType ==
  ASSUME EventsType
  PROVE  /\ delivery.batch \in Seq(Int) /\ delivery.settled \in Seq(Int)
         /\ delivery.failed \in SUBSET Int /\ Batch \subseteq Int /\ Sent \subseteq Int
<1>1. delivery.batch \in Seq(Int) /\ delivery.settled \in Seq(Int) /\ delivery.failed \in SUBSET Int
  BY DEF EventsType
<1>2. Batch \subseteq Int
  BY <1>1, LenProperties, ElementOfSeq DEF Batch
<1>3. Sent \subseteq Int
  BY <1>1, LenProperties, ElementOfSeq DEF Sent
<1> QED
  BY <1>1, <1>2, <1>3

\* An event that is open is crossed by nothing newer that was committed.
LEMMA OpenIsLast ==
  ASSUME OutboxInv, NEW s \in DOMAIN outbox, outbox[s].status = "open",
         NEW t \in Committed, s < t, Crossing(s, t)
  PROVE  FALSE
<1>1. PICK w \in Writers : Written(w) /\ s \in writer[w].seqs
  BY DEF OutboxInv, OpenIsOwned
<1>2. t \in writer[w].seqs
  BY <1>1 DEF OutboxInv, OwnEvents, WriteFits, Committed
<1>3. outbox[t].status = "open"
  BY <1>1, <1>2 DEF OutboxInv, OwnEvents, WriteFits
<1> QED
  BY <1>3 DEF Committed

\* Undelivered and processed events are those that were committed.
LEMMA CommittedIs ==
  Committed = Undelivered \cup Processed /\ Undelivered \cap Processed = {}
BY DEF Committed, Undelivered, Processed

-----------------------------------------------------------------------------
\* A step that leaves rows, events and deliveries alone.
LEMMA ElsewhereSame ==
  ASSUME Elsewhere, UNCHANGED <<rows, outbox, spicedb>>
  PROVE  Elsewhere'
BY DEF Elsewhere, Latest, Untouched, ProcessedInOrder, SentInOrder, BatchFits, Standing,
       Stands, Known, Committed, Crossing, Batch, Sent, Granted, Processed, Undelivered,
       Ascending, rows, spicedb, requests

\* A writer without events moves, and has none after.
LEMMA WriterMoves ==
  ASSUME RowsType, OutboxInv, NEW w \in Writers, NEW to, Go(w, to), ~Written(w),
         to = Idle \/ (to # Idle /\ to.at = "locking" /\ to.seqs = {}),
         UNCHANGED <<rows, outbox, spicedb>>
  PROVE  OutboxInv'
<1>1. scope' = scope /\ grants' = grants /\ outbox' = outbox /\ delivery' = delivery /\ tuples' = tuples
  BY DEF rows, spicedb
<1>2. writer'[w] = to /\ \A v \in Writers \ {w} : writer'[v] = writer[v]
  BY DEF Go, RowsType
<1>3. EventsType' /\ Elsewhere'
  <2>1. EventsType'
    BY <1>1 DEF OutboxInv, EventsType
  <2> QED
    BY <2>1, ElsewhereSame DEF OutboxInv
<1>4. \A v \in Writers : Written(v)' => v # w /\ Written(v) /\ writer'[v] = writer[v]
  BY <1>2 DEF Written
<1>5. OwnEvents'
  <2> SUFFICES ASSUME NEW v \in Writers
               PROVE  /\ writer'[v] # Idle /\ ~Written(v)' => writer'[v].seqs = {}
                      /\ Written(v)' => AllEvents(v)' /\ \A s \in writer'[v].seqs : WriteFits(s, v)'
    BY DEF OwnEvents
  <2>1. writer'[v] # Idle /\ ~Written(v)' => writer'[v].seqs = {}
    BY <1>2 DEF OutboxInv, OwnEvents, Written
  <2>2. ASSUME Written(v)' PROVE AllEvents(v)' /\ \A s \in writer'[v].seqs : WriteFits(s, v)'
    <3>1. Written(v) /\ writer'[v] = writer[v]
      BY <1>4, <2>2
    <3>2. AllEvents(v) /\ \A s \in writer[v].seqs : WriteFits(s, v)
      BY <3>1 DEF OutboxInv, OwnEvents
    <3> QED
      BY <1>1, <3>1, <3>2 DEF AllEvents, WriteFits, Changed, Ended, Held, GrantsAfter, Crossing
  <2> QED
    BY <2>1, <2>2
<1>6. OpenIsOwned'
  <2> SUFFICES ASSUME NEW s \in DOMAIN outbox, outbox[s].status = "open"
               PROVE  \E v \in Writers : Written(v)' /\ s \in writer'[v].seqs
    BY <1>1 DEF OpenIsOwned
  <2>1. PICK v \in Writers : Written(v) /\ s \in writer[v].seqs
    BY DEF OutboxInv, OpenIsOwned
  <2>2. v # w /\ writer'[v] = writer[v]
    BY <1>2, <2>1
  <2> QED
    BY <2>1, <2>2 DEF Written
<1> QED
  BY <1>3, <1>5, <1>6 DEF OutboxInv

\* Locks are read, taken and given up without events.
LEMMA LockingEvents ==
  ASSUME ScopeInv, OutboxInv, NEW w \in Writers,
         \/ \E write \in Writes : Begin(w, write)
         \/ LockOrganization(w) \/ StartOver(w) \/ RefuseWrite(w)
  PROVE  OutboxInv'
<1>0. RowsType /\ UNCHANGED <<rows, outbox, spicedb>>
  BY DEF ScopeInv, Begin, LockOrganization, StartOver, RefuseWrite
<1>1. CASE \E write \in Writes : Begin(w, write)
  <2>1. PICK write \in Writes : Begin(w, write)
    BY <1>1
  <2> DEFINE to == [at |-> "locking", write |-> write, wanted |-> Scope(write),
                    held |-> {}, seqs |-> {}]
  <2>2. Go(w, to) /\ ~Written(w) /\ to # Idle /\ to.at = "locking" /\ to.seqs = {}
    BY <2>1 DEF Begin, Written, Idle
  <2> HIDE DEF to
  <2> QED
    BY <1>0, <2>2, WriterMoves
<1>2. CASE LockOrganization(w)
  <2>1. writer[w] \in WritesAtWork /\ writer[w].at = "locking" /\ ~Written(w) /\ writer[w] # Idle
    BY <1>0, <1>2 DEF LockOrganization, RowsType, Idle, Written
  <2>2. PICK o \in Organizations : Go(w, [writer[w] EXCEPT !.held = @ \cup {o}])
    BY <1>2 DEF LockOrganization
  <2> DEFINE to == [writer[w] EXCEPT !.held = @ \cup {o}]
  <2>3. to # Idle /\ to.at = "locking" /\ to.seqs = {}
    <3>1. writer[w].seqs = {}
      BY <2>1 DEF OutboxInv, OwnEvents
    <3> QED
      BY <2>1, <3>1 DEF WritesAtWork, Idle
  <2>4. Go(w, to)
    BY <2>2
  <2> HIDE DEF to
  <2> QED
    BY <1>0, <2>1, <2>3, <2>4, WriterMoves
<1>3. CASE StartOver(w)
  <2>1. writer[w] \in WritesAtWork /\ writer[w].at = "locking" /\ ~Written(w) /\ writer[w] # Idle
    BY <1>0, <1>3 DEF StartOver, Locked, RowsType, Idle, Written
  <2> DEFINE to == [writer[w] EXCEPT !.wanted = @ \cup Grown(w), !.held = {}]
  <2>2. to # Idle /\ to.at = "locking" /\ to.seqs = {}
    <3>1. writer[w].seqs = {}
      BY <2>1 DEF OutboxInv, OwnEvents
    <3> QED
      BY <2>1, <3>1 DEF WritesAtWork, Idle
  <2>3. Go(w, to)
    BY <1>3 DEF StartOver
  <2> HIDE DEF to
  <2> QED
    BY <1>0, <2>1, <2>2, <2>3, WriterMoves
<1>4. CASE RefuseWrite(w)
  <2>1. Go(w, Idle) /\ ~Written(w)
    BY <1>4 DEF RefuseWrite, Locked, Written
  <2> QED
    BY <1>0, <2>1, WriterMoves
<1> QED
  BY <1>1, <1>2, <1>3, <1>4

-----------------------------------------------------------------------------
(* Writes.                                                                  *)

\* The events are those there were, about the same tuples and with the same locks.
SameEvents ==
  /\ DOMAIN outbox' = DOMAIN outbox
  /\ \A s \in DOMAIN outbox :
       /\ outbox'[s].of = outbox[s].of /\ outbox'[s].touch = outbox[s].touch
       /\ outbox'[s].locked = outbox[s].locked

\* The events of two writes that may commit are different.
LEMMA EventsApart ==
  ASSUME ScopeInv, OutboxInv, NEW v \in Writers, NEW w \in Writers, v # w, Written(v), Written(w)
  PROVE  writer[v].seqs \cap writer[w].seqs = {}
<1> SUFFICES ASSUME NEW s, s \in writer[v].seqs, s \in writer[w].seqs
             PROVE  FALSE
  OBVIOUS
<1>1. outbox[s].of \in Changed(writer[v].write) /\ outbox[s].of \in Changed(writer[w].write)
  BY DEF OutboxInv, OwnEvents, WriteFits
<1>2. writer[v].write \in Writes /\ writer[w].write \in Writes
  BY LocksOfWrite DEF Written
<1>3. \A write \in Writes : Changed(write) \subseteq Touched(write)
  BY DEF Changed, Touched, Ended, Writes
<1>4. Touched(writer[v].write) \cap Touched(writer[w].write) = {}
  BY WritesApart DEF Written
<1> QED
  BY <1>1, <1>2, <1>3, <1>4

\* Events keep their tuples and locks when some change their status.
LEMMA BecomeEvents ==
  ASSUME EventsType, NEW seqs, NEW status \in {"pending", "undone"}, Become(seqs, status)
  PROVE  /\ SameEvents /\ outbox' \in Seq(EventRecords)
         /\ \A s \in DOMAIN outbox :
              /\ outbox'[s].covers = outbox[s].covers
              /\ outbox'[s].status = IF s \in seqs THEN status ELSE outbox[s].status
<1>1. outbox \in Seq(EventRecords) /\ DOMAIN outbox = 1 .. Len(outbox) /\ Len(outbox) \in Nat
  BY LenProperties DEF EventsType
<1> DEFINE new(s) == IF s \in seqs THEN [outbox[s] EXCEPT !.status = status] ELSE outbox[s]
<1>2. outbox' = [s \in DOMAIN outbox |-> new(s)]
  BY DEF Become
<1>3. ASSUME NEW s \in DOMAIN outbox
      PROVE  /\ new(s) \in EventRecords
             /\ new(s).of = outbox[s].of /\ new(s).touch = outbox[s].touch
             /\ new(s).locked = outbox[s].locked /\ new(s).covers = outbox[s].covers
             /\ new(s).status = IF s \in seqs THEN status ELSE outbox[s].status
  <2>1. outbox[s] \in EventRecords
    BY EventType
  <2> QED
    BY <2>1 DEF EventRecords
<1> HIDE DEF new
<1>4. outbox' \in Seq(EventRecords)
  <2>1. [s \in 1 .. Len(outbox) |-> new(s)] \in Seq(EventRecords)
    BY <1>1, <1>3, IsASeq
  <2> QED
    BY <1>1, <1>2, <2>1
<1>5. DOMAIN outbox' = DOMAIN outbox /\ \A s \in DOMAIN outbox : outbox'[s] = new(s)
  BY <1>2
<1> QED
  BY <1>3, <1>4, <1>5 DEF SameEvents

\* The types stay when events keep their tuples and locks.
LEMMA SameEventsType ==
  ASSUME EventsType, SameEvents, outbox' \in Seq(EventRecords), UNCHANGED spicedb
  PROVE  EventsType'
BY DEF EventsType, SameEvents, spicedb

\* A write ends; the events of the others are as they were.
LEMMA OthersOwn ==
  ASSUME ScopeInv, OutboxInv, NEW w \in Writers, NEW status \in {"pending", "undone"},
         writer[w] # Idle, Become(writer[w].seqs, status), Go(w, Idle),
         \A v \in Writers \ {w} : Written(v) =>
           /\ Changed(writer[v].write)' = Changed(writer[v].write)
           /\ \A r \in Changed(writer[v].write) : Held(writer[v].write, r)' = Held(writer[v].write, r)
  PROVE  OwnEvents' /\ OpenIsOwned'
<1>1. /\ SameEvents
      /\ \A s \in DOMAIN outbox :
           outbox'[s].status = IF s \in writer[w].seqs THEN status ELSE outbox[s].status
  BY BecomeEvents DEF OutboxInv
<1>2. writer'[w] = Idle /\ \A v \in Writers \ {w} : writer'[v] = writer[v]
  BY DEF Go, ScopeInv, RowsType
<1>3. \A v \in Writers : Written(v)' => v # w /\ Written(v) /\ writer'[v] = writer[v]
  BY <1>2 DEF Written
<1>4. \A v \in Writers \ {w} : Written(v) => writer[v].seqs \cap writer[w].seqs = {}
  <2> SUFFICES ASSUME NEW v \in Writers \ {w}, Written(v)
               PROVE  writer[v].seqs \cap writer[w].seqs = {}
    OBVIOUS
  <2>1. CASE Written(w)
    BY <2>1, EventsApart
  <2>2. CASE ~Written(w)
    BY <2>2 DEF OutboxInv, OwnEvents
  <2> QED
    BY <2>1, <2>2
<1>5. OwnEvents'
  <2> SUFFICES ASSUME NEW v \in Writers
               PROVE  /\ writer'[v] # Idle /\ ~Written(v)' => writer'[v].seqs = {}
                      /\ Written(v)' => AllEvents(v)' /\ \A s \in writer'[v].seqs : WriteFits(s, v)'
    BY DEF OwnEvents
  <2>1. writer'[v] # Idle /\ ~Written(v)' => writer'[v].seqs = {}
    BY <1>2 DEF OutboxInv, OwnEvents, Written
  <2>2. ASSUME Written(v)' PROVE AllEvents(v)' /\ \A s \in writer'[v].seqs : WriteFits(s, v)'
    <3>1. Written(v) /\ v # w /\ writer'[v] = writer[v]
      BY <1>3, <2>2
    <3>2. AllEvents(v) /\ \A s \in writer[v].seqs : WriteFits(s, v)
      BY <3>1 DEF OutboxInv, OwnEvents
    <3> DEFINE write == writer[v].write
    <3>3. /\ Changed(writer[v].write)' = Changed(write)
          /\ \A r \in Changed(write) : Held(writer[v].write, r)' = Held(write, r)
      BY <3>1
    <3>4. writer[v].seqs \subseteq DOMAIN outbox
      BY <3>2 DEF WriteFits
    <3>5. AllEvents(v)'
      BY <1>1, <3>1, <3>2, <3>3, <3>4 DEF AllEvents, SameEvents
    <3>6. ASSUME NEW s \in writer[v].seqs PROVE WriteFits(s, v)'
      <4>1. WriteFits(s, v) /\ s \in DOMAIN outbox /\ s \notin writer[w].seqs
        BY <1>4, <3>1, <3>2, <3>4
      <4>2. outbox'[s].status = "open" /\ outbox'[s].of = outbox[s].of
        BY <1>1, <4>1 DEF WriteFits, SameEvents
      <4>3. outbox'[s].of \in Changed(writer[v].write)' /\ outbox'[s].locked = writer'[v].held
        BY <1>1, <3>1, <3>3, <4>1 DEF WriteFits, SameEvents
      <4>4. outbox'[s].touch = Held(writer[v].write, outbox[s].of)'
        <5>1. outbox'[s].touch = outbox[s].touch /\ outbox'[s].of = outbox[s].of
          BY <1>1, <4>1 DEF SameEvents
        <5>2. outbox[s].touch = Held(write, outbox[s].of) /\ outbox[s].of \in Changed(write)
          BY <4>1 DEF WriteFits
        <5>3. PICK r \in Changed(write) : r = outbox[s].of
          BY <5>2
        <5>4. Held(writer[v].write, r)' = Held(write, r)
          BY <3>3
        <5>5. Held(writer[v].write, outbox[s].of)' = Held(writer[v].write, r)'
          BY <5>1, <5>3 DEF Held
        <5> QED
          BY <5>1, <5>2, <5>3, <5>4, <5>5
      <4>5. \A t \in DOMAIN outbox' : s < t /\ Crossing(s, t)' => t \in writer'[v].seqs
        BY <1>1, <3>1, <4>1 DEF WriteFits, SameEvents, Crossing
      <4>6. \A t \in writer'[v].seqs : outbox'[t].of = outbox'[s].of => t = s
        BY <1>1, <3>1, <3>4, <4>1 DEF WriteFits, SameEvents
      <4> QED
        BY <1>1, <3>1, <4>1, <4>2, <4>3, <4>4, <4>5, <4>6 DEF WriteFits, SameEvents
    <3> QED
      BY <3>1, <3>5, <3>6
  <2> QED
    BY <2>1, <2>2
<1>6. OpenIsOwned'
  <2> SUFFICES ASSUME NEW s \in DOMAIN outbox, outbox'[s].status = "open"
               PROVE  \E v \in Writers : Written(v)' /\ s \in writer'[v].seqs
    BY <1>1 DEF OpenIsOwned, SameEvents
  <2>1. s \notin writer[w].seqs /\ outbox[s].status = "open"
    BY <1>1
  <2>2. PICK v \in Writers : Written(v) /\ s \in writer[v].seqs
    BY <2>1 DEF OutboxInv, OpenIsOwned
  <2>3. v # w /\ writer'[v] = writer[v]
    BY <1>2, <2>1, <2>2
  <2> QED
    BY <2>2, <2>3 DEF Written
<1> QED
  BY <1>5, <1>6

\* What is sent next is an event that waits for it.
LEMMA HeadIsEvent ==
  ASSUME EventsType, Elsewhere, delivery.batch # <<>>
  PROVE  /\ Head(delivery.batch) \in Batch /\ Head(delivery.batch) \in Undelivered
         /\ Head(delivery.batch) \in DOMAIN outbox
<1>1. delivery.batch \in Seq(Int)
  BY DeliveryType
<1>2. Head(delivery.batch) \in Batch
  BY <1>1 DEF Batch
<1> QED
  BY <1>2 DEF Elsewhere, BatchFits, Undelivered

\* What SpiceDB is known to have are committed events.
LEMMA KnownEvents ==
  ASSUME EventsType, Elsewhere
  PROVE  Known \subseteq Committed /\ Known \subseteq DOMAIN outbox /\ Committed \subseteq DOMAIN outbox
<1>1. Processed \subseteq Committed /\ Undelivered \subseteq Committed /\ Committed \subseteq DOMAIN outbox
  BY DEF Processed, Undelivered, Committed
<1>2. Sent \subseteq Undelivered
  BY DEF Elsewhere, BatchFits
<1>3. delivery.landed => Head(delivery.batch) \in Undelivered
  BY HeadIsEvent DEF Elsewhere, Standing
<1> QED
  BY <1>1, <1>2, <1>3 DEF Known

\* No tuple is written, and SpiceDB is known to have no more than before.
LEMMA StandingKeeps ==
  ASSUME EventsType, Elsewhere, tuples' = tuples, late' = late, Known' \subseteq Known,
         delivery'.landed => delivery'.batch # <<>>, Committed \subseteq Committed',
         \A s \in DOMAIN outbox : outbox'[s].of = outbox[s].of /\ outbox'[s].touch = outbox[s].touch,
         \A request \in lingering' : request \in lingering \/ request.event \in Committed
  PROVE  Standing'
<1>1. ASSUME NEW s \in Known', s \in Known, outbox[s].of \notin late PROVE Stands(s)'
  <2>1. s \in DOMAIN outbox
    BY <1>1, KnownEvents
  <2>2. PICK t \in Committed :
          s <= t /\ outbox[t].of = outbox[s].of /\ outbox[t].touch = tuples[outbox[s].of]
    BY <1>1 DEF Elsewhere, Standing, Stands
  <2>3. t \in DOMAIN outbox /\ t \in Committed'
    BY <2>2, KnownEvents
  <2> QED
    BY <2>1, <2>2, <2>3 DEF Stands
<1>2. \A s \in Known' : outbox'[s].of \in late' \/ Stands(s)'
  <2> SUFFICES ASSUME NEW s \in Known', outbox'[s].of \notin late' PROVE Stands(s)'
    OBVIOUS
  <2>1. s \in Known /\ s \in DOMAIN outbox
    BY KnownEvents
  <2> QED
    BY <1>1, <2>1
<1>3. \A request \in lingering' : request.event \in Committed'
  BY DEF Elsewhere, Standing
<1> QED
  BY <1>2, <1>3 DEF Standing

\* Nothing that was committed changes: what deliveries rely on stays.
LEMMA CommittedSame ==
  ASSUME EventsType, Elsewhere, SameEvents, UNCHANGED <<rows, spicedb>>,
         Committed' = Committed, Processed' = Processed, Undelivered' = Undelivered,
         \A s \in DOMAIN outbox : /\ outbox'[s].covers = outbox[s].covers
                                  /\ outbox[s].status = "undone" => outbox'[s].status = "undone"
  PROVE  Elsewhere'
<1>0. /\ grants' = grants /\ delivery' = delivery /\ tuples' = tuples /\ Batch' = Batch /\ Sent' = Sent
      /\ \A s, t \in DOMAIN outbox : Crossing(s, t)' = Crossing(s, t)
      /\ Committed \subseteq DOMAIN outbox /\ Undelivered \subseteq DOMAIN outbox
      /\ Processed \subseteq DOMAIN outbox
  BY DEF rows, spicedb, Batch, Sent, SameEvents, Crossing, Committed, Undelivered, Processed
<1>1. Latest'
  BY <1>0 DEF Elsewhere, Latest, SameEvents, Granted
<1>2. Untouched'
  BY <1>0 DEF Elsewhere, Untouched, SameEvents, Granted
<1>3. ProcessedInOrder'
  BY <1>0 DEF Elsewhere, ProcessedInOrder, SameEvents
<1>4. BatchFits'
  BY <1>0 DEF Elsewhere, BatchFits, Ascending
<1>5. SentInOrder'
  BY <1>0 DEF Elsewhere, SentInOrder, BatchFits, SameEvents
<1>6. Standing'
  <2>1. Known' = Known /\ late' = late /\ lingering' = lingering
    BY <1>0 DEF Known, spicedb, requests
  <2> QED
    BY <1>0, <2>1, StandingKeeps DEF Elsewhere, Standing, SameEvents
<1> QED
  BY <1>1, <1>2, <1>3, <1>4, <1>5, <1>6 DEF Elsewhere

\* The events of a writer are open.
LEMMA OwnAreOpen ==
  ASSUME OutboxInv, NEW w \in Writers, writer[w] # Idle
  PROVE  \A s \in writer[w].seqs : s \in DOMAIN outbox /\ outbox[s].status = "open"
BY DEF OutboxInv, OwnEvents, WriteFits

\* A write that fails leaves its events undone, which nothing looks at.
LEMMA AbortEvents ==
  ASSUME ScopeInv, OutboxInv, NEW w \in Writers, AbortWrite(w)
  PROVE  OutboxInv'
<1>1. writer[w] # Idle /\ Become(writer[w].seqs, "undone") /\ Go(w, Idle) /\ UNCHANGED <<rows, spicedb>>
  BY DEF AbortWrite
<1>2. /\ SameEvents /\ outbox' \in Seq(EventRecords)
      /\ \A s \in DOMAIN outbox :
           /\ outbox'[s].covers = outbox[s].covers
           /\ outbox'[s].status = IF s \in writer[w].seqs THEN "undone" ELSE outbox[s].status
  BY <1>1, BecomeEvents DEF OutboxInv
<1>3. EventsType'
  BY <1>1, <1>2, SameEventsType DEF OutboxInv
<1>4. OwnEvents' /\ OpenIsOwned'
  <2>1. ASSUME NEW v \in Writers \ {w}, Written(v)
        PROVE  /\ Changed(writer[v].write)' = Changed(writer[v].write)
               /\ \A r \in Changed(writer[v].write) : Held(writer[v].write, r)' = Held(writer[v].write, r)
    <3>1. writer'[v] = writer[v] /\ grants' = grants
      BY <1>1 DEF Go, rows, ScopeInv, RowsType
    <3> QED
      BY <3>1 DEF Changed, Ended, Held, GrantsAfter
  <2> QED
    BY <1>1, <2>1, OthersOwn
<1>5. Committed' = Committed /\ Processed' = Processed /\ Undelivered' = Undelivered
  BY <1>1, <1>2, OwnAreOpen DEF Committed, Processed, Undelivered, SameEvents
<1>6. Elsewhere'
  BY <1>1, <1>2, <1>5, CommittedSame DEF OutboxInv
<1> QED
  BY <1>3, <1>4, <1>6 DEF OutboxInv

\* What other writers will change, and how, is left as it is by a commit.
LEMMA ChangesStand ==
  ASSUME ScopeInv, NEW v \in Writers, NEW w \in Writers, v # w, Written(v), Written(w),
         grants' = GrantsAfter(writer[w].write), writer'[v] = writer[v]
  PROVE  /\ Changed(writer[v].write)' = Changed(writer[v].write)
         /\ \A r \in Changed(writer[v].write) : Held(writer[v].write, r)' = Held(writer[v].write, r)
<1> DEFINE write == writer[v].write
<1>1. write \in Writes /\ writer[w].write \in Writes
  BY LocksOfWrite DEF Written
<1>2. write.by # writer[w].write.by /\ Touched(write) \cap Touched(writer[w].write) = {}
  BY WritesApart DEF Written
<1>3. write.on \in Resources /\ write.by \in Organizations
      /\ write.does \in {"grant", "revoke", "leave", "add", "remove"}
  BY <1>1 DEF Writes
<1>4. /\ \A r \in Touched(write) : r \in Resources => grants'[r] = grants[r]
      /\ \A r \in Resources : write.by \in grants'[r] <=> write.by \in grants[r]
  BY <1>1, <1>2, <1>3, Effect DEF ScopeInv
<1>5. {r \in Resources : write.by \in grants'[r]} = {r \in Resources : write.by \in grants[r]}
  BY <1>4
<1>7. Changed(write) \subseteq Touched(write) /\ Changed(write) \subseteq Resources
  BY <1>3 DEF Changed, Touched, Ended
<1>8. ASSUME NEW r \in Changed(write)
      PROVE  Held(writer[v].write, r)' = Held(write, r)
  <2>1. r \in Resources /\ grants'[r] = grants[r]
    BY <1>4, <1>7
  <2>2. GrantsAfter(writer[v].write)'[r] = GrantsAfter(write)[r]
    <3>1. Ended(writer[v].write)' = Ended(write)
      <4>1. Ended(writer[v].write)' = Ended(write)'
        OBVIOUS
      <4> QED
        BY <1>5 DEF Ended
    <3> QED
      BY <2>1, <3>1 DEF GrantsAfter
  <2> QED
    BY <2>2 DEF Held
<1>9. Changed(writer[v].write)' = Changed(write)
  BY <1>5 DEF Ended, Changed
<1> QED
  BY <1>8, <1>9

\* A write changes the grants of the tuples it has events for, and of no others.
LEMMA GrantsOfEvents ==
  ASSUME NEW write, NEW r \in Resources
  PROVE  /\ r \notin Changed(write) => GrantsAfter(write)[r] = grants[r]
         /\ Held(write, r) = (GrantsAfter(write)[r] # {})
BY DEF Changed, GrantsAfter, Held

\* A commit makes its events the last of their tuples, with what the grants ask for now.
LEMMA CommitEvents ==
  ASSUME ScopeInv, OutboxInv, NEW w \in Writers, CommitWrite(w)
  PROVE  OutboxInv'
<1> DEFINE write == writer[w].write
           seqs == writer[w].seqs
<1>1. /\ writer[w] # Idle /\ Written(w) /\ Become(seqs, "pending") /\ Go(w, Idle)
      /\ grants' = GrantsAfter(write) /\ UNCHANGED spicedb
  BY DEF CommitWrite, Written, Idle
<1>2. /\ SameEvents /\ outbox' \in Seq(EventRecords)
      /\ \A s \in DOMAIN outbox :
           /\ outbox'[s].covers = outbox[s].covers
           /\ outbox'[s].status = IF s \in seqs THEN "pending" ELSE outbox[s].status
  BY <1>1, BecomeEvents DEF OutboxInv
<1>3. EventsType /\ Elsewhere /\ AllEvents(w) /\ \A s \in seqs : WriteFits(s, w)
  BY <1>1 DEF OutboxInv, OwnEvents
<1>4. EventsType'
  BY <1>1, <1>2, <1>3, SameEventsType
<1>5. OwnEvents' /\ OpenIsOwned'
  <2>1. ASSUME NEW v \in Writers \ {w}, Written(v)
        PROVE  /\ Changed(writer[v].write)' = Changed(writer[v].write)
               /\ \A r \in Changed(writer[v].write) : Held(writer[v].write, r)' = Held(writer[v].write, r)
    <3>1. writer'[v] = writer[v]
      BY <1>1 DEF Go, ScopeInv, RowsType
    <3> QED
      BY <1>1, <2>1, <3>1, ChangesStand
  <2> QED
    BY <1>1, <2>1, OthersOwn
<1>6. \A s \in seqs : s \in DOMAIN outbox /\ outbox[s].status = "open"
  BY <1>1, OwnAreOpen
<1>7. /\ Committed' = Committed \cup seqs /\ Undelivered' = Undelivered \cup seqs
      /\ Processed' = Processed
  BY <1>2, <1>6 DEF Committed, Processed, Undelivered, SameEvents
<1>8. /\ delivery' = delivery /\ tuples' = tuples /\ Batch' = Batch /\ Sent' = Sent
      /\ \A s, t \in DOMAIN outbox : Crossing(s, t)' = Crossing(s, t)
      /\ Committed \subseteq DOMAIN outbox /\ Undelivered \subseteq DOMAIN outbox
      /\ Processed \subseteq DOMAIN outbox
  BY <1>1, <1>2 DEF spicedb, Batch, Sent, SameEvents, Crossing, Committed, Undelivered, Processed
<1>9. \A s \in seqs, t \in Committed : ~(s < t /\ Crossing(s, t))
  BY <1>6, OpenIsLast
<1>10. Latest'
  <2> SUFFICES ASSUME NEW s \in Committed'
               PROVE  \/ outbox'[s].touch = Granted(outbox[s].of)'
                      \/ \E t \in Committed' : s < t /\ outbox'[t].of = outbox'[s].of
    BY <1>2, <1>7, <1>8, <1>6 DEF Latest, SameEvents, Granted
  <2> DEFINE r == outbox[s].of
  <2>1. s \in DOMAIN outbox /\ r \in Resources /\ s \in Int
    BY <1>3, <1>6, <1>7, <1>8, EventType
  <2>2. outbox'[s].of = r /\ outbox'[s].touch = outbox[s].touch
    BY <1>2, <2>1 DEF SameEvents
  <2>3. CASE s \in seqs
    <3>1. outbox[s].touch = Held(write, r)
      BY <1>3, <2>3 DEF WriteFits
    <3>2. Held(write, r) = (grants'[r] # {})
      BY <1>1, <2>1, GrantsOfEvents
    <3>3. Granted(outbox[s].of)' = (grants'[r] # {})
      BY <2>2 DEF Granted
    <3> QED
      BY <2>2, <3>1, <3>2, <3>3
  <2>4. CASE s \notin seqs /\ r \in Changed(write)
    <3>1. PICK t \in seqs : outbox[t].of = r
      BY <1>3, <2>4 DEF AllEvents
    <3>2. t \in DOMAIN outbox /\ t \in Int /\ Crossing(t, s) /\ s \in Committed
      BY <1>3, <1>6, <1>7, <2>1, <2>4, <3>1, SameTupleCrosses, EventType
    <3>3. s < t
      BY <1>9, <2>1, <2>4, <3>1, <3>2
    <3>4. t \in Committed' /\ outbox'[t].of = outbox'[s].of
      BY <1>2, <1>7, <2>2, <3>1, <3>2 DEF SameEvents
    <3> QED
      BY <3>3, <3>4
  <2>5. CASE s \notin seqs /\ r \notin Changed(write)
    <3>1. s \in Committed /\ grants'[r] = grants[r]
      BY <1>1, <1>7, <2>1, <2>5, GrantsOfEvents
    <3>2. \/ outbox[s].touch = Granted(r)
          \/ \E t \in Committed : s < t /\ outbox[t].of = r
      BY <1>3, <3>1 DEF Elsewhere, Latest
    <3>3. CASE outbox[s].touch = Granted(r)
      <4>1. Granted(outbox[s].of)' = Granted(r)
        BY <2>2, <3>1 DEF Granted
      <4> QED
        BY <2>2, <3>3, <4>1
    <3>4. CASE \E t \in Committed : s < t /\ outbox[t].of = r
      <4>1. PICK t \in Committed : s < t /\ outbox[t].of = r
        BY <3>4
      <4>2. t \in Committed' /\ outbox'[t].of = outbox'[s].of
        BY <1>2, <1>7, <1>8, <2>2, <4>1 DEF SameEvents
      <4> QED
        BY <4>1, <4>2
    <3> QED
      BY <3>2, <3>3, <3>4
  <2> QED
    BY <2>3, <2>4, <2>5
<1>11. Untouched'
  <2> SUFFICES ASSUME NEW r \in Resources
               PROVE  (\E s \in Committed' : outbox'[s].of = r) \/ tuples'[r] = Granted(r)'
    BY DEF Untouched
  <2>1. CASE r \in Changed(write)
    <3>1. PICK s \in seqs : outbox[s].of = r
      BY <1>3, <2>1 DEF AllEvents
    <3> QED
      BY <1>2, <1>6, <1>7, <3>1 DEF SameEvents
  <2>2. CASE r \notin Changed(write)
    <3>1. grants'[r] = grants[r]
      BY <1>1, <2>2, GrantsOfEvents
    <3>2. (\E s \in Committed : outbox[s].of = r) \/ tuples[r] = Granted(r)
      BY <1>3 DEF Elsewhere, Untouched
    <3>3. CASE \E s \in Committed : outbox[s].of = r
      BY <1>2, <1>7, <1>8, <3>3 DEF SameEvents
    <3>4. CASE tuples[r] = Granted(r)
      BY <1>8, <3>1, <3>4 DEF Granted
    <3> QED
      BY <3>2, <3>3, <3>4
  <2> QED
    BY <2>1, <2>2
<1>12. ProcessedInOrder'
  BY <1>2, <1>3, <1>6, <1>7, <1>8 DEF Elsewhere, ProcessedInOrder, SameEvents
<1>13. BatchFits'
  <2>1. Batch' \cup Sent' \cup delivery'.failed \subseteq Undelivered'
    BY <1>3, <1>7, <1>8 DEF Elsewhere, BatchFits
  <2>2. Ascending(delivery.batch)' /\ Ascending(delivery.settled)' /\ \A s \in Sent', t \in Batch' : s < t
    BY <1>3, <1>8 DEF Elsewhere, BatchFits, Ascending
  <2>3. ASSUME NEW t \in Batch', NEW s \in Undelivered', s < t, Crossing(s, t)'
        PROVE  s \in Batch' \cup Sent'
    <3>1. t \in Batch /\ t \in Undelivered /\ t \in DOMAIN outbox /\ s \in DOMAIN outbox
      BY <1>3, <1>6, <1>7, <1>8 DEF Elsewhere, BatchFits
    <3>2. Crossing(s, t) /\ s \notin seqs
      BY <1>8, <1>9, <2>3, <3>1, CommittedIs
    <3>3. s \in Undelivered
      BY <1>7, <3>2
    <3> QED
      BY <1>3, <1>8, <2>3, <3>1, <3>2, <3>3 DEF Elsewhere, BatchFits
  <2> QED
    BY <2>1, <2>2, <2>3 DEF BatchFits
<1>14. SentInOrder'
  <2>1. Sent \subseteq DOMAIN outbox
    BY <1>3, <1>8 DEF Elsewhere, BatchFits
  <2> QED
    BY <1>2, <1>3, <1>6, <1>7, <1>8, <2>1 DEF Elsewhere, SentInOrder, SameEvents
<1>15. Standing'
  <2>1. Known' = Known /\ late' = late /\ lingering' = lingering
    BY <1>1, <1>7, <1>8 DEF Known, spicedb, requests
  <2> QED
    BY <1>2, <1>3, <1>7, <1>8, <2>1, StandingKeeps DEF Elsewhere, Standing, SameEvents
<1> QED
  BY <1>4, <1>5, <1>10, <1>11, <1>12, <1>13, <1>14, <1>15 DEF OutboxInv, Elsewhere

\* The events of a write follow those there are, one for each tuple it changes.
LEMMA WriteAppends ==
  ASSUME RelationshipAssumption, ScopeInv, OutboxInv, NEW w \in Writers, Write(w)
  PROVE  \E n \in Nat : \E order \in [Len(outbox) + 1 .. Len(outbox) + n -> Changed(writer[w].write)] :
           /\ \A s, t \in DOMAIN order : s # t => order[s] # order[t]
           /\ \A r \in Changed(writer[w].write) : \E s \in DOMAIN order : order[s] = r
           /\ outbox' \in Seq(EventRecords)
           /\ DOMAIN outbox' = DOMAIN outbox \cup DOMAIN order
           /\ \A s \in DOMAIN outbox : outbox'[s] = outbox[s] /\ s \notin DOMAIN order
           /\ \A s \in DOMAIN order : outbox'[s] = NewEvent(w, order[s]) /\ s \notin DOMAIN outbox
           /\ Go(w, [writer[w] EXCEPT !.at = "written", !.seqs = DOMAIN order])
<1> DEFINE write == writer[w].write
           changed == Changed(write)
           n == Cardinality(changed)
           new == Len(outbox) + 1 .. Len(outbox) + n
           added(order) == [i \in 1 .. n |-> NewEvent(w, order[Len(outbox) + i])]
<1>1. writer[w] \in WritesAtWork /\ write \in Writes
  BY DEF Write, Locked, ScopeInv, RowsType, Idle, WritesAtWork
<1>2. changed \subseteq Resources /\ IsFiniteSet(changed) /\ n \in Nat
  <2>1. changed \subseteq Resources
    BY <1>1 DEF Changed, Ended, Writes
  <2> HIDE DEF changed
  <2> QED
    BY <2>1, FS_Subset, FS_CardinalityType DEF RelationshipAssumption
<1>3. outbox \in Seq(EventRecords) /\ Len(outbox) \in Nat /\ DOMAIN outbox = 1 .. Len(outbox)
  BY LenProperties DEF OutboxInv, EventsType
<1>4. PICK order \in [new -> changed] :
        /\ \A s, t \in new : s # t => order[s] # order[t]
        /\ outbox' = outbox \o added(order)
  BY DEF Write
<1>5. Go(w, [writer[w] EXCEPT !.at = "written", !.seqs = new])
  BY DEF Write
<1>6. \A r \in changed : \E s \in new : order[s] = r
  <2>1. order \in Injection(new, changed)
    BY <1>4 DEF Injection, IsInjective
  <2>2. IsFiniteSet(new) /\ Cardinality(new) = n
    <3> HIDE DEF n
    <3>0. Len(outbox) + 1 \in Int /\ Len(outbox) + n \in Int
      BY <1>2, <1>3
    <3>1. \A a, b \in Int : Cardinality(a .. b) = IF a > b THEN 0 ELSE b - a + 1
      BY FS_Interval
    <3>2. IsFiniteSet(new)
      BY <1>2, <1>3, FS_Interval
    <3> QED
      BY <1>2, <1>3, <3>0, <3>1, <3>2
  <2>3. order \in Surjection(new, changed)
    <3> HIDE DEF new, changed
    <3> QED
      BY <1>2, <2>1, <2>2, FS_Injection
  <2> QED
    BY <2>3 DEF Surjection
<1>7. ASSUME NEW r \in changed
      PROVE  NewEvent(w, r) \in EventRecords
  BY <1>1, <1>2 DEF NewEvent, EventRecords, WritesAtWork, Held
<1>8. added(order) \in Seq(EventRecords) /\ Len(added(order)) = n
      /\ \A i \in 1 .. n : added(order)[i] = NewEvent(w, order[Len(outbox) + i])
  <2> DEFINE e(i) == NewEvent(w, order[Len(outbox) + i])
  <2>1. ASSUME NEW i \in 1 .. n PROVE e(i) \in EventRecords
    <3>1. Len(outbox) + i \in new
      <4> HIDE DEF n
      <4> QED
        BY <1>2, <1>3
    <3>2. order[Len(outbox) + i] \in changed
      BY <1>4, <3>1
    <3> QED
      BY <1>7, <3>2
  <2>2. added(order) = [i \in 1 .. n |-> e(i)]
    OBVIOUS
  <2> HIDE DEF e, n
  <2>3. [i \in 1 .. n |-> e(i)] \in Seq(EventRecords)
    BY <1>2, <2>1, IsASeq
  <2>4. Len([i \in 1 .. n |-> e(i)]) = n
    BY <1>2
  <2> QED
    BY <2>2, <2>3, <2>4 DEF e
<1> HIDE DEF n, added
<1>9. /\ outbox' \in Seq(EventRecords) /\ Len(outbox') = Len(outbox) + n
      /\ \A i \in 1 .. Len(outbox) + n :
           outbox'[i] = IF i <= Len(outbox) THEN outbox[i] ELSE added(order)[i - Len(outbox)]
  BY <1>3, <1>4, <1>8, ConcatProperties
<1>10. DOMAIN outbox' = 1 .. Len(outbox) + n
  BY <1>9, LenProperties
<1>11. \A s \in DOMAIN outbox : outbox'[s] = outbox[s] /\ s \notin new
  BY <1>2, <1>3, <1>9
<1>12. ASSUME NEW s \in new
       PROVE  outbox'[s] = NewEvent(w, order[s]) /\ s \notin DOMAIN outbox
  <2>1. s \in Int /\ s > Len(outbox) /\ s <= Len(outbox) + n /\ s - Len(outbox) \in 1 .. n
        /\ Len(outbox) + (s - Len(outbox)) = s /\ s \in 1 .. Len(outbox) + n
    BY <1>2, <1>3
  <2> QED
    BY <1>3, <1>8, <1>9, <2>1
<1>13. DOMAIN outbox' = DOMAIN outbox \cup new /\ DOMAIN order = new
  BY <1>2, <1>3, <1>4, <1>10
<1>14. /\ \A s, t \in DOMAIN order : s # t => order[s] # order[t]
       /\ \A r \in changed : \E s \in DOMAIN order : order[s] = r
       /\ \A s \in DOMAIN outbox : outbox'[s] = outbox[s] /\ s \notin DOMAIN order
       /\ \A s \in DOMAIN order : outbox'[s] = NewEvent(w, order[s]) /\ s \notin DOMAIN outbox
       /\ Go(w, [writer[w] EXCEPT !.at = "written", !.seqs = DOMAIN order])
       /\ DOMAIN outbox' = DOMAIN outbox \cup DOMAIN order
  BY <1>4, <1>5, <1>6, <1>11, <1>12, <1>13
<1> HIDE DEF changed
<1>15. \E o \in [Len(outbox) + 1 .. Len(outbox) + n -> changed] : o = order
  BY <1>4
<1> QED
  BY <1>2, <1>9, <1>14, <1>15 DEF changed

\* New events follow all others, and cross none that another write has open.
LEMMA WriteEvents ==
  ASSUME RelationshipAssumption, ScopeInv, OutboxInv, NEW w \in Writers, Write(w)
  PROVE  OutboxInv'
<1> DEFINE write == writer[w].write
<1>0. PICK n \in Nat : \E order \in [Len(outbox) + 1 .. Len(outbox) + n -> Changed(write)] :
        /\ \A s, t \in DOMAIN order : s # t => order[s] # order[t]
        /\ \A r \in Changed(write) : \E s \in DOMAIN order : order[s] = r
        /\ outbox' \in Seq(EventRecords)
        /\ DOMAIN outbox' = DOMAIN outbox \cup DOMAIN order
        /\ \A s \in DOMAIN outbox : outbox'[s] = outbox[s] /\ s \notin DOMAIN order
        /\ \A s \in DOMAIN order : outbox'[s] = NewEvent(w, order[s]) /\ s \notin DOMAIN outbox
        /\ Go(w, [writer[w] EXCEPT !.at = "written", !.seqs = DOMAIN order])
  BY WriteAppends
<1>1. PICK order \in [Len(outbox) + 1 .. Len(outbox) + n -> Changed(write)] :
        /\ \A s, t \in DOMAIN order : s # t => order[s] # order[t]
        /\ \A r \in Changed(write) : \E s \in DOMAIN order : order[s] = r
        /\ outbox' \in Seq(EventRecords)
        /\ DOMAIN outbox' = DOMAIN outbox \cup DOMAIN order
        /\ \A s \in DOMAIN outbox : outbox'[s] = outbox[s] /\ s \notin DOMAIN order
        /\ \A s \in DOMAIN order : outbox'[s] = NewEvent(w, order[s]) /\ s \notin DOMAIN outbox
        /\ Go(w, [writer[w] EXCEPT !.at = "written", !.seqs = DOMAIN order])
  BY <1>0
<1> DEFINE new == DOMAIN order
<1>2. /\ writer[w] \in WritesAtWork /\ write \in Writes /\ writer[w] # Idle /\ ~Written(w)
      /\ Scope(write) \subseteq writer[w].held /\ Permitted(write)
      /\ UNCHANGED <<rows, spicedb>>
  BY DEF Write, Locked, Grown, ScopeInv, RowsType, Idle, WritesAtWork, Written
<1>3. scope' = scope /\ grants' = grants /\ delivery' = delivery /\ tuples' = tuples
      /\ Batch' = Batch /\ Sent' = Sent
  BY <1>2 DEF rows, spicedb, Batch, Sent
<1>4. /\ writer'[w] # Idle /\ Written(w)' /\ writer'[w].seqs = new
      /\ writer'[w].write = write /\ writer'[w].held = writer[w].held
      /\ \A v \in Writers \ {w} : writer'[v] = writer[v]
  BY <1>1, <1>2 DEF Go, ScopeInv, RowsType, WritesAtWork, Idle, Written
<1>5. EventsType /\ OwnEvents /\ OpenIsOwned /\ Elsewhere
  BY DEF OutboxInv
<1>6. \A s \in new : /\ order[s] \in Changed(write)
                     /\ outbox'[s].of = order[s] /\ outbox'[s].touch = Held(write, order[s])
                     /\ outbox'[s].locked = writer[w].held /\ outbox'[s].status = "open"
  <2> SUFFICES ASSUME NEW s \in new
               PROVE  /\ order[s] \in Changed(write)
                      /\ outbox'[s].of = order[s] /\ outbox'[s].touch = Held(write, order[s])
                      /\ outbox'[s].locked = writer[w].held /\ outbox'[s].status = "open"
    OBVIOUS
  <2>1. order[s] \in Changed(write)
    BY <1>1
  <2>2. outbox'[s] = NewEvent(w, order[s])
    BY <1>1
  <2> QED
    BY <2>1, <2>2 DEF NewEvent
<1>7. /\ Committed' = Committed /\ Processed' = Processed /\ Undelivered' = Undelivered
      /\ Committed \subseteq DOMAIN outbox /\ Undelivered \subseteq DOMAIN outbox
      /\ Processed \subseteq DOMAIN outbox
      /\ \A s, t \in DOMAIN outbox : Crossing(s, t)' = Crossing(s, t)
  BY <1>1, <1>6 DEF Committed, Processed, Undelivered, Crossing
<1>8. \A s \in DOMAIN outbox, t \in new : s < t /\ s \in Int /\ t \in Int
  <2>1. outbox \in Seq(EventRecords)
    BY <1>5 DEF EventsType
  <2> QED
    BY <1>1, <2>1, LenProperties
<1>9. EventsType'
  <2>1. ASSUME NEW s \in DOMAIN outbox' PROVE Home[outbox'[s].of] \in outbox'[s].locked
    <3>1. CASE s \in DOMAIN outbox
      BY <1>1, <1>5, <3>1 DEF EventsType
    <3>2. CASE s \in new
      <4>1. Home[order[s]] \in writer[w].held
        <5>1. order[s] \in Changed(write)
          BY <1>6, <3>2
        <5>2. order[s] \in Resources /\ scope[order[s]] \subseteq Scope(write)
          <6>1. write.does = "leave" => \A r \in Changed(write) : scope[r] \subseteq Scope(write)
            BY DEF Changed, Ended, Scope
          <6>2. write.does # "leave" => \A r \in Changed(write) : scope[r] \subseteq Scope(write)
            BY DEF Changed, Ended, Scope
          <6>3. Changed(write) \subseteq Resources
            BY <1>2 DEF Changed, Ended, Writes
          <6> QED
            BY <5>1, <6>1, <6>2, <6>3
        <5>3. Home[order[s]] \in scope[order[s]]
          BY <5>2 DEF ScopeInv, HomeInScope
        <5> QED
          BY <1>2, <5>2, <5>3
      <4> QED
        BY <1>6, <3>2, <4>1
    <3> QED
      BY <1>1, <3>1, <3>2
  <2> QED
    BY <1>1, <1>3, <1>5, <2>1 DEF EventsType
<1>10. OwnEvents'
  <2> SUFFICES ASSUME NEW v \in Writers
               PROVE  /\ writer'[v] # Idle /\ ~Written(v)' => writer'[v].seqs = {}
                      /\ Written(v)' => AllEvents(v)' /\ \A s \in writer'[v].seqs : WriteFits(s, v)'
    BY DEF OwnEvents
  <2>1. CASE v = w
    <3>1. AllEvents(w)'
      <4>1. Changed(writer[w].write)' = Changed(write)
        BY <1>3, <1>4 DEF Changed, Ended
      <4> QED
        BY <1>1, <1>4, <1>6, <4>1 DEF AllEvents
    <3>2. ASSUME NEW s \in new PROVE WriteFits(s, w)'
      <4>0. Changed(writer[w].write)' = Changed(write)
        BY <1>3, <1>4 DEF Changed, Ended
      <4>1. Held(writer[w].write, outbox[s].of)' = Held(write, order[s])
        <5>1. GrantsAfter(writer[w].write)' = GrantsAfter(write)
          BY <1>3, <1>4 DEF Ended, GrantsAfter
        <5>2. outbox'[s].of = order[s]
          BY <1>6
        <5> QED
          BY <5>1, <5>2 DEF Held
      <4>2. \A t \in DOMAIN outbox' : s < t => t \in new
        BY <1>1, <1>8
      <4>3. \A t \in new : outbox'[t].of = outbox'[s].of => t = s
        BY <1>1, <1>6
      <4> QED
        BY <1>1, <1>4, <1>6, <4>0, <4>1, <4>2, <4>3 DEF WriteFits
    <3> QED
      BY <1>4, <2>1, <3>1, <3>2
  <2>2. CASE v # w
    <3>1. writer'[v] = writer[v]
      BY <1>4, <2>2
    <3>2. writer'[v] # Idle /\ ~Written(v)' => writer'[v].seqs = {}
      BY <1>5, <3>1 DEF OwnEvents, Written
    <3>3. ASSUME Written(v)'
          PROVE  AllEvents(v)' /\ \A s \in writer'[v].seqs : WriteFits(s, v)'
      <4>1. Written(v) /\ AllEvents(v) /\ \A s \in writer[v].seqs : WriteFits(s, v)
        BY <1>5, <3>1, <3>3 DEF OwnEvents, Written
      <4>2. /\ Changed(writer[v].write)' = Changed(writer[v].write)
            /\ \A r : Held(writer[v].write, r)' = Held(writer[v].write, r)
        BY <1>3, <3>1 DEF Changed, Ended, Held, GrantsAfter
      <4>3. \A s \in writer[v].seqs : s \in DOMAIN outbox /\ outbox'[s] = outbox[s]
        BY <1>1, <4>1 DEF WriteFits
      <4>4. AllEvents(v)'
        BY <3>1, <4>1, <4>2, <4>3 DEF AllEvents
      <4>5. ASSUME NEW s \in writer[v].seqs PROVE WriteFits(s, v)'
        <5>1. WriteFits(s, v) /\ s \in DOMAIN outbox /\ s \in DOMAIN outbox' /\ outbox'[s] = outbox[s]
          BY <1>1, <4>1, <4>3
        <5>2. Held(writer[v].write, outbox[s].of)' = Held(writer[v].write, outbox[s].of)
          BY <1>3, <3>1, <5>1 DEF Held, GrantsAfter, Ended
        <5>3. ASSUME NEW t \in DOMAIN outbox', s < t, Crossing(s, t)' PROVE t \in writer[v].seqs
          <6>1. CASE t \in DOMAIN outbox
            BY <1>7, <5>1, <5>3, <6>1 DEF WriteFits
          <6>2. CASE t \in new
            <7>1. outbox'[t].locked = writer[w].held /\ outbox'[s].locked = writer[v].held
              BY <1>6, <5>1, <6>2 DEF WriteFits
            <7>2. writer[w].held \cap writer[v].held = {}
              BY <1>2, <2>2, <4>1 DEF ScopeInv, LocksExclude, Written
            <7> QED
              BY <5>3, <7>1, <7>2 DEF Crossing
          <6> QED
            BY <1>1, <6>1, <6>2
        <5>4. \A t \in writer[v].seqs : outbox'[t].of = outbox'[s].of => t = s
          BY <4>3, <5>1 DEF WriteFits
        <5> QED
          BY <3>1, <4>2, <5>1, <5>2, <5>3, <5>4 DEF WriteFits
      <4> QED
        BY <3>1, <4>4, <4>5
    <3> QED
      BY <3>2, <3>3
  <2> QED
    BY <2>1, <2>2
<1>11. OpenIsOwned'
  <2> SUFFICES ASSUME NEW s \in DOMAIN outbox', outbox'[s].status = "open"
               PROVE  \E v \in Writers : Written(v)' /\ s \in writer'[v].seqs
    BY DEF OpenIsOwned
  <2>1. CASE s \in new
    BY <1>4, <2>1
  <2>2. CASE s \in DOMAIN outbox
    <3>1. PICK v \in Writers : Written(v) /\ s \in writer[v].seqs
      BY <1>1, <1>5, <2>2 DEF OpenIsOwned
    <3>2. writer'[v] = writer[v]
      BY <1>2, <1>4, <3>1
    <3> QED
      BY <3>1, <3>2 DEF Written
  <2> QED
    BY <1>1, <2>1, <2>2
<1>12. Elsewhere'
  <2>0. \A s \in Committed : outbox'[s] = outbox[s]
    BY <1>1, <1>7
  <2>1. Latest'
    <3> SUFFICES ASSUME NEW s \in Committed
                 PROVE  \/ outbox'[s].touch = Granted(outbox[s].of)'
                        \/ \E t \in Committed : s < t /\ outbox'[t].of = outbox'[s].of
      BY <1>7 DEF Latest
    <3>1. Granted(outbox[s].of)' = Granted(outbox[s].of)
      BY <1>3, <2>0 DEF Granted
    <3> QED
      BY <1>5, <2>0, <3>1 DEF Elsewhere, Latest
  <2>1a. Untouched'
    <3> SUFFICES ASSUME NEW r \in Resources
                 PROVE  (\E s \in Committed : outbox'[s].of = r) \/ tuples'[r] = Granted(r)'
      BY <1>7 DEF Untouched
    <3>1. Granted(r)' = Granted(r)
      BY <1>3 DEF Granted
    <3> QED
      BY <1>3, <1>5, <2>0, <3>1 DEF Elsewhere, Untouched
  <2>2. ASSUME NEW t \in Processed, NEW s \in DOMAIN outbox', s < t, Crossing(s, t)'
        PROVE  outbox'[s].status = "undone" \/ (s \in Processed' /\ s \in outbox'[t].covers)
    <3>1. t \in DOMAIN outbox /\ s \in DOMAIN outbox
      BY <1>1, <1>7, <1>8, <2>2
    <3> QED
      BY <1>1, <1>5, <1>7, <2>2, <3>1 DEF Elsewhere, ProcessedInOrder
  <2>3. ProcessedInOrder'
    BY <1>7, <2>2 DEF ProcessedInOrder
  <2>4. BatchFits'
    BY <1>3, <1>5, <1>7 DEF Elsewhere, BatchFits, Ascending
  <2>5. Sent \subseteq DOMAIN outbox
    BY <1>5, <1>7 DEF Elsewhere, BatchFits
  <2>6. ASSUME NEW t \in Sent, NEW s \in DOMAIN outbox', s < t, Crossing(s, t)'
        PROVE  outbox'[s].status = "undone" \/ s \in Processed' \/ s \in Sent'
    <3>1. t \in DOMAIN outbox /\ s \in DOMAIN outbox
      BY <1>1, <1>8, <2>5, <2>6
    <3> QED
      BY <1>1, <1>3, <1>5, <1>7, <2>6, <3>1 DEF Elsewhere, SentInOrder
  <2>7. SentInOrder'
    BY <1>3, <2>6 DEF SentInOrder
  <2>8. Standing'
    <3>1. Known' = Known /\ late' = late /\ lingering' = lingering
      BY <1>2, <1>3, <1>7 DEF Known, spicedb, requests
    <3> QED
      BY <1>1, <1>3, <1>5, <1>7, <3>1, StandingKeeps DEF Elsewhere, Standing
  <2> QED
    BY <2>1, <2>1a, <2>3, <2>4, <2>7, <2>8 DEF Elsewhere
<1> QED
  BY <1>9, <1>10, <1>11, <1>12 DEF OutboxInv

-----------------------------------------------------------------------------
(* Deliveries.                                                              *)

\* A finite set of numbers has, for each number up to its size, a member with as
\* many members up to it, and only one.
LEMMA RanksExist ==
  ASSUME NEW S \in SUBSET Int, IsFiniteSet(S), NEW Rank,
         Rank = [s \in S |-> Cardinality({t \in S : t <= s})]
  PROVE  /\ Cardinality(S) \in Nat
         /\ \A s \in S : Rank[s] \in 1 .. Cardinality(S)
         /\ \A s, t \in S : s < t => Rank[s] < Rank[t]
         /\ \A i \in 1 .. Cardinality(S) : \E s \in S : Rank[s] = i
<1> DEFINE upTo(s) == {t \in S : t <= s}
           n == Cardinality(S)
<1>1. n \in Nat /\ \A s \in S : Rank[s] = Cardinality(upTo(s))
  BY FS_CardinalityType
<1>2. ASSUME NEW s \in S
      PROVE  IsFiniteSet(upTo(s)) /\ Rank[s] \in Nat /\ Rank[s] <= n /\ Rank[s] # 0
  <2>1. upTo(s) \in SUBSET S /\ s \in upTo(s)
    OBVIOUS
  <2> HIDE DEF upTo
  <2>2. IsFiniteSet(upTo(s)) /\ Cardinality(upTo(s)) <= n
    BY <2>1, FS_Subset
  <2>3. Cardinality(upTo(s)) \in Nat /\ Cardinality(upTo(s)) # 0
    BY <2>1, <2>2, FS_CardinalityType, FS_EmptySet
  <2> QED
    BY <1>1, <2>2, <2>3
<1>3. ASSUME NEW s \in S, NEW t \in S, s < t
      PROVE  Rank[s] < Rank[t]
  <2>1. upTo(s) \in SUBSET upTo(t) /\ t \in upTo(t) /\ t \notin upTo(s)
    <3>1. s \in Int /\ t \in Int /\ \A u \in S : u \in Int
      OBVIOUS
    <3>2. t <= t /\ ~(t <= s) /\ \A u \in S : u <= s => u <= t
      BY <1>3, <3>1
    <3> QED
      BY <3>2
  <2>2. IsFiniteSet(upTo(t))
    BY <1>2
  <2> HIDE DEF upTo
  <2>3. Cardinality(upTo(s)) <= Cardinality(upTo(t)) /\ Cardinality(upTo(s)) # Cardinality(upTo(t))
    BY <2>1, <2>2, FS_Subset
  <2>4. Rank[s] \in Nat /\ Rank[t] \in Nat /\ Rank[s] = Cardinality(upTo(s)) /\ Rank[t] = Cardinality(upTo(t))
    BY <1>1, <1>2
  <2> QED
    BY <2>3, <2>4
<1>4. \A s \in S : Rank[s] \in 1 .. n
  <2> SUFFICES ASSUME NEW s \in S PROVE Rank[s] \in 1 .. n
    OBVIOUS
  <2>1. Rank[s] \in Nat /\ Rank[s] <= n /\ Rank[s] # 0
    BY <1>2
  <2> HIDE DEF n
  <2> QED
    BY <1>1, <2>1
<1>5. Rank \in Injection(S, 1 .. n)
  <2>1. Rank \in [S -> 1 .. n]
    BY <1>4
  <2>2. ASSUME NEW s \in S, NEW t \in S, Rank[s] = Rank[t] PROVE s = t
    <3>1. Rank[s] \in Nat /\ Rank[t] \in Nat
      BY <1>2
    <3>2. ~(s < t) /\ ~(t < s)
      BY <1>3, <2>2, <3>1
    <3> QED
      BY <3>2
  <2> HIDE DEF n
  <2> QED
    BY <2>1, <2>2 DEF Injection, IsInjective
<1>6. IsFiniteSet(1 .. n) /\ Cardinality(1 .. n) = n
  <2> HIDE DEF n
  <2>1. \A a, b \in Int : IsFiniteSet(a .. b) /\ Cardinality(a .. b) = IF a > b THEN 0 ELSE b - a + 1
    BY FS_Interval
  <2> QED
    BY <1>1, <2>1
<1>7. Rank \in Surjection(S, 1 .. n)
  <2>1. Cardinality(S) = Cardinality(1 .. n)
    BY <1>6
  <2> HIDE DEF n
  <2> QED
    BY <1>5, <1>6, <2>1, FS_Injection
<1>8. \A i \in 1 .. n : \E s \in S : Rank[s] = i
  BY <1>7 DEF Surjection
<1> QED
  BY <1>1, <1>3, <1>4, <1>8

\* A delivery begins with the oldest events there are, in their order.
LEMMA DueIsOldest ==
  ASSUME RelationshipAssumption, EventsType, NEW through \in Int
  PROVE  /\ Due(through) \in Seq(Int) /\ Ascending(Due(through))
         /\ \A i \in DOMAIN Due(through) :
              /\ Due(through)[i] \in Undelivered
              /\ \A s \in Undelivered : s < Due(through)[i] =>
                   \E j \in DOMAIN Due(through) : Due(through)[j] = s
<1> DEFINE wanted == {s \in Undelivered : s <= through}
           Rank(s) == Cardinality({t \in wanted : t <= s})
           size == IF Cardinality(wanted) < BatchSize THEN Cardinality(wanted) ELSE BatchSize
           due(i) == CHOOSE s \in wanted : Rank(s) = i
           rank == [s \in wanted |-> Cardinality({t \in wanted : t <= s})]
<1>1. wanted \in SUBSET Int /\ IsFiniteSet(wanted)
  <2>1. DOMAIN outbox = 1 .. Len(outbox) /\ Len(outbox) \in Nat
    BY LenProperties DEF EventsType
  <2>2. IsFiniteSet(1 .. Len(outbox))
    BY <2>1, FS_Interval
  <2>3. wanted \in SUBSET (1 .. Len(outbox))
    BY <2>1 DEF Undelivered
  <2> HIDE DEF wanted
  <2>4. IsFiniteSet(wanted)
    BY <2>2, <2>3, FS_Subset
  <2> QED
    BY <2>1, <2>3, <2>4
<1>2. Due(through) = [i \in 1 .. size |-> due(i)]
  BY DEF Due
<1>3. wanted \subseteq Undelivered /\ \A s \in Undelivered, t \in wanted : s < t => s \in wanted
  BY <1>1 DEF EventsType, Undelivered
<1>4. /\ Cardinality(wanted) \in Nat
      /\ \A s \in wanted : rank[s] \in 1 .. Cardinality(wanted)
      /\ \A s, t \in wanted : s < t => rank[s] < rank[t]
      /\ \A i \in 1 .. Cardinality(wanted) : \E s \in wanted : rank[s] = i
  <2> HIDE DEF wanted
  <2> QED
    BY <1>1, RanksExist
<1>5. \A s \in wanted : rank[s] = Rank(s)
  OBVIOUS
<1> HIDE DEF rank, wanted
<1>6. size \in Nat /\ size <= Cardinality(wanted)
  BY <1>4 DEF RelationshipAssumption
<1>7. ASSUME NEW i \in 1 .. size PROVE due(i) \in wanted /\ rank[due(i)] = i
  <2>1. i \in 1 .. Cardinality(wanted)
    <3> HIDE DEF size
    <3> QED
      BY <1>4, <1>6
  <2>2. \E s \in wanted : Rank(s) = i
    BY <1>4, <1>5, <2>1
  <2> QED
    BY <1>5, <2>2
<1> HIDE DEF size, due, Rank
<1>8. ASSUME NEW s \in wanted, NEW t \in wanted, rank[s] = rank[t] PROVE s = t
  <2>1. rank[s] \in Int /\ rank[t] \in Int /\ s \in Int /\ t \in Int
    BY <1>1, <1>4
  <2>2. ~(s < t) /\ ~(t < s)
    BY <1>4, <1>8, <2>1
  <2> QED
    BY <2>1, <2>2
<1>9. Due(through) \in Seq(Int)
  <2>1. \A i \in 1 .. size : due(i) \in Int
    BY <1>1, <1>7
  <2>2. [i \in 1 .. size |-> due(i)] \in Seq(Int)
    BY <1>6, <2>1, IsASeq
  <2> QED
    BY <1>2, <2>2
<1>10. DOMAIN Due(through) = 1 .. size /\ \A i \in 1 .. size : Due(through)[i] = due(i)
  BY <1>2
<1>11. ASSUME NEW i \in 1 .. size, NEW j \in 1 .. size, i < j PROVE due(i) < due(j)
  <2>1. due(i) \in wanted /\ due(j) \in wanted /\ rank[due(i)] = i /\ rank[due(j)] = j
    BY <1>7
  <2>2. due(i) \in Int /\ due(j) \in Int /\ ~(due(j) < due(i)) /\ due(i) # due(j)
    <3>1. due(i) \in Int /\ due(j) \in Int /\ i \in Int /\ j \in Int
      <4>1. due(i) \in Int /\ due(j) \in Int
        BY <1>1, <2>1
      <4>2. 1 .. size \subseteq Int
        BY <1>6
      <4> QED
        BY <4>1, <4>2
    <3>2. ~(due(j) < due(i))
      <4> SUFFICES ASSUME due(j) < due(i) PROVE FALSE
        OBVIOUS
      <4>1. rank[due(j)] < rank[due(i)]
        BY <1>4, <2>1
      <4> QED
        BY <1>11, <2>1, <3>1, <4>1
    <3>3. due(i) # due(j)
      BY <1>11, <2>1, <3>1
    <3> QED
      BY <3>1, <3>2, <3>3
  <2> QED
    BY <2>2
<1>12. Ascending(Due(through))
  BY <1>10, <1>11 DEF Ascending
<1>13. ASSUME NEW i \in 1 .. size, NEW s \in Undelivered, s < due(i)
       PROVE  \E j \in 1 .. size : due(j) = s
  <2>1. due(i) \in wanted /\ rank[due(i)] = i
    BY <1>7
  <2>2. s \in wanted
    BY <1>3, <1>13, <2>1
  <2>3. rank[s] \in 1 .. Cardinality(wanted) /\ rank[s] < i
    BY <1>4, <1>13, <2>1, <2>2
  <2>4. rank[s] \in 1 .. size
    BY <1>4, <1>6, <2>3
  <2>5. due(rank[s]) \in wanted /\ rank[due(rank[s])] = rank[s]
    BY <1>7, <2>4
  <2>6. due(rank[s]) = s
    BY <1>8, <2>2, <2>5
  <2> QED
    BY <2>4, <2>6
<1> QED
  BY <1>3, <1>7, <1>9, <1>10, <1>12, <1>13

\* A delivery step leaves the rows, the writers and the events; what only they
\* tell stays.
LEMMA DeliveryKeeps ==
  ASSUME OutboxInv, UNCHANGED <<rows, writer, outbox>>
  PROVE  /\ OwnEvents' /\ OpenIsOwned' /\ Latest' /\ ProcessedInOrder'
         /\ Committed' = Committed /\ Processed' = Processed /\ Undelivered' = Undelivered
         /\ \A s, t : Crossing(s, t)' = Crossing(s, t)
<1>1. scope' = scope /\ grants' = grants /\ writer' = writer /\ outbox' = outbox
  BY DEF rows
<1>2. OwnEvents' /\ OpenIsOwned'
  <2>1. \A w \in Writers : Written(w)' <=> Written(w)
    BY <1>1 DEF Written
  <2>2. \A w \in Writers : AllEvents(w)' <=> AllEvents(w)
    BY <1>1 DEF AllEvents, Changed, Ended
  <2>3. ASSUME NEW w \in Writers, NEW s PROVE WriteFits(s, w)' <=> WriteFits(s, w)
    <3>1. /\ Changed(writer[w].write)' = Changed(writer[w].write)
          /\ Held(writer[w].write, outbox[s].of)' = Held(writer[w].write, outbox[s].of)
      BY <1>1 DEF Changed, Ended, Held, GrantsAfter
    <3>2. \A t : Crossing(s, t)' <=> Crossing(s, t)
      BY <1>1 DEF Crossing
    <3> QED
      BY <1>1, <3>1, <3>2 DEF WriteFits
  <2> QED
    BY <1>1, <2>1, <2>2, <2>3 DEF OutboxInv, OwnEvents, OpenIsOwned
<1>3. Latest' /\ ProcessedInOrder'
  BY <1>1 DEF OutboxInv, Elsewhere, Latest, ProcessedInOrder, Granted, Committed, Processed, Crossing
<1> QED
  BY <1>1, <1>2, <1>3 DEF Committed, Processed, Undelivered, Crossing

\* A batch begins with nothing sent.
LEMMA StartEvents ==
  ASSUME RelationshipAssumption, OutboxInv, NEW through \in Int, StartDelivery(through)
  PROVE  OutboxInv'
<1>1. /\ delivery = NoDelivery /\ delivery' = [NoDelivery EXCEPT !.batch = Due(through)]
      /\ UNCHANGED <<rows, writer, outbox>> /\ tuples' = tuples
      /\ late' = late /\ lingering' = lingering
  BY DEF StartDelivery, requests
<1>2. /\ OwnEvents' /\ OpenIsOwned' /\ Latest' /\ ProcessedInOrder'
      /\ Committed' = Committed /\ Processed' = Processed /\ Undelivered' = Undelivered
  BY <1>1, DeliveryKeeps
<1>3. EventsType /\ Elsewhere /\ outbox' = outbox /\ grants' = grants
  BY <1>1 DEF OutboxInv, rows
<1>4. /\ Due(through) \in Seq(Int) /\ Ascending(Due(through))
      /\ \A i \in DOMAIN Due(through) :
           /\ Due(through)[i] \in Undelivered
           /\ \A s \in Undelivered : s < Due(through)[i] =>
                \E j \in DOMAIN Due(through) : Due(through)[j] = s
  BY <1>3, DueIsOldest
<1>5. /\ delivery'.batch = Due(through) /\ delivery'.landed = FALSE
      /\ delivery'.settled = <<>> /\ delivery'.failed = {}
  BY <1>1 DEF NoDelivery
<1>6. EventsType'
  <2>1. delivery' \in [batch : Seq(Int), landed : BOOLEAN, settled : Seq(Int), failed : SUBSET Int]
    <3>1. delivery' = [batch |-> Due(through), landed |-> FALSE, settled |-> <<>>, failed |-> {}]
      BY <1>1 DEF NoDelivery
    <3>2. <<>> \in Seq(Int)
      OBVIOUS
    <3> QED
      BY <1>4, <3>1, <3>2
  <2> QED
    BY <1>1, <1>3, <2>1 DEF EventsType
<1>7. Sent' = {} /\ Batch' = {Due(through)[i] : i \in DOMAIN Due(through)}
  BY <1>5 DEF Sent, Batch
<1>8. BatchFits'
  <2>1. Batch' \cup Sent' \cup delivery'.failed \subseteq Undelivered'
    BY <1>2, <1>4, <1>5, <1>7
  <2>2. Ascending(delivery.batch)' /\ Ascending(delivery.settled)'
    BY <1>4, <1>5 DEF Ascending
  <2>3. \A t \in Batch', s \in Undelivered' : s < t => s \in Batch'
    BY <1>2, <1>4, <1>7
  <2> QED
    BY <1>7, <2>1, <2>2, <2>3 DEF BatchFits
<1>9. SentInOrder'
  BY <1>7 DEF SentInOrder
<1>10. Untouched'
  BY <1>1, <1>2, <1>3 DEF Elsewhere, Untouched, Granted
<1>11. Standing'
  <2>1. Known' \subseteq Known
    BY <1>2, <1>5, <1>7 DEF Known
  <2> QED
    BY <1>1, <1>2, <1>3, <1>5, <2>1, StandingKeeps
<1> QED
  BY <1>2, <1>6, <1>8, <1>9, <1>10, <1>11 DEF OutboxInv, Elsewhere

\* A tuple is written for an event that is newer than all that were sent for it.
LEMMA LandEvents ==
  ASSUME OutboxInv, Land
  PROVE  OutboxInv'
<1> DEFINE h == Head(delivery.batch)
<1>1. /\ delivery.batch # <<>> /\ tuples' = [tuples EXCEPT ![outbox[h].of] = outbox[h].touch]
      /\ late' = late \ {outbox[h].of} /\ lingering' = lingering
      /\ delivery' = [delivery EXCEPT !.landed = TRUE] /\ UNCHANGED <<rows, writer, outbox>>
  BY DEF Land, Underway
<1>2. /\ OwnEvents' /\ OpenIsOwned' /\ Latest' /\ ProcessedInOrder'
      /\ Committed' = Committed /\ Processed' = Processed /\ Undelivered' = Undelivered
      /\ \A s, t : Crossing(s, t)' = Crossing(s, t)
  BY <1>1, DeliveryKeeps
<1>3. EventsType /\ Elsewhere /\ outbox' = outbox /\ grants' = grants
  BY <1>1 DEF OutboxInv, rows
<1>4. /\ delivery'.batch = delivery.batch /\ delivery'.settled = delivery.settled
      /\ delivery'.failed = delivery.failed /\ Batch' = Batch /\ Sent' = Sent
  BY <1>1, <1>3 DEF EventsType, Batch, Sent
<1>5. h \in Batch /\ h \in Undelivered /\ h \in DOMAIN outbox /\ h \in Committed
  BY <1>1, <1>3, HeadIsEvent, CommittedIs
<1>6. /\ outbox[h].of \in Resources /\ outbox[h].touch \in BOOLEAN
      /\ tuples'[outbox[h].of] = outbox[h].touch
      /\ \A r \in Resources : r # outbox[h].of => tuples'[r] = tuples[r]
  BY <1>1, <1>3, <1>5, EventType DEF EventsType, EventRecords
<1>7. EventsType'
  <2>1. delivery' \in [batch : Seq(Int), landed : BOOLEAN, settled : Seq(Int), failed : SUBSET Int]
    BY <1>1, <1>3 DEF EventsType
  <2>2. tuples' \in [Resources -> BOOLEAN]
    BY <1>1, <1>3, <1>6 DEF EventsType
  <2> QED
    BY <1>3, <2>1, <2>2 DEF EventsType
<1>8. Untouched'
  <2> SUFFICES ASSUME NEW r \in Resources
               PROVE  (\E s \in Committed : outbox[s].of = r) \/ tuples'[r] = Granted(r)'
    BY <1>2, <1>3 DEF Untouched
  <2>1. CASE r = outbox[h].of
    BY <1>5, <2>1
  <2>2. CASE r # outbox[h].of
    BY <1>3, <1>6, <2>2 DEF Elsewhere, Untouched, Granted
  <2> QED
    BY <2>1, <2>2
<1>9. BatchFits' /\ SentInOrder'
  BY <1>2, <1>3, <1>4 DEF Elsewhere, BatchFits, SentInOrder, Ascending
<1>10. Known' \subseteq Known \cup {h}
  BY <1>2, <1>4 DEF Known
<1>11. ASSUME NEW s \in Known', outbox[s].of \notin late'
       PROVE  Stands(s)'
  <2>1. s \in DOMAIN outbox /\ s \in Committed /\ outbox[s].of \in Resources /\ s \in Int /\ h \in Int
    BY <1>3, <1>5, <1>10, EventType, KnownEvents
  <2>2. CASE outbox[s].of # outbox[h].of
    <3>1. PICK t \in Committed :
            s <= t /\ outbox[t].of = outbox[s].of /\ outbox[t].touch = tuples[outbox[s].of]
      <4>1. s \in Known /\ outbox[s].of \notin late
        BY <1>1, <1>10, <1>11, <2>1, <2>2
      <4> QED
        BY <1>3, <4>1 DEF Elsewhere, Standing, Stands
    <3>2. tuples'[outbox[s].of] = tuples[outbox[s].of]
      BY <1>6, <2>1, <2>2
    <3> QED
      BY <1>2, <1>3, <3>1, <3>2 DEF Stands
  <2>3. CASE outbox[s].of = outbox[h].of
    <3>1. Crossing(h, s)
      BY <1>3, <1>5, <2>1, <2>3, SameTupleCrosses
    <3>2. ~(h < s)
      <4>1. CASE s \in Processed
        <5>1. h \notin Processed /\ outbox[h].status # "undone"
          BY <1>5 DEF Undelivered, Processed
        <5> QED
          BY <1>3, <1>5, <3>1, <4>1, <5>1 DEF Elsewhere, ProcessedInOrder
      <4>2. CASE s \in Sent
        <5>1. s < h
          BY <1>3, <1>5, <4>2 DEF Elsewhere, BatchFits
        <5> QED
          BY <2>1, <5>1
      <4>3. s \in Processed \/ s \in Sent \/ s = h
        <5>1. delivery'.batch = delivery.batch
          BY <1>4
        <5> QED
          BY <1>2, <1>4, <1>11, <5>1 DEF Known
      <4> QED
        BY <2>1, <4>1, <4>2, <4>3
    <3>3. s <= h
      BY <2>1, <3>2
    <3> QED
      BY <1>2, <1>3, <1>5, <1>6, <2>3, <3>3 DEF Stands
  <2> QED
    BY <2>2, <2>3
<1>12. Standing'
  <2>1. delivery'.batch # <<>>
    BY <1>1, <1>4
  <2>2. \A request \in lingering' : request.event \in Committed'
    BY <1>1, <1>2, <1>3 DEF Elsewhere, Standing
  <2>3. \A s \in Known' : outbox'[s].of \in late' \/ Stands(s)'
    BY <1>3, <1>11
  <2> QED
    BY <2>1, <2>2, <2>3 DEF Standing
<1> QED
  BY <1>2, <1>7, <1>8, <1>9, <1>12 DEF OutboxInv, Elsewhere

\* What a batch loses when its first event is through.
LEMMA NextInBatch ==
  ASSUME EventsType, Elsewhere, delivery.batch # <<>>
  PROVE  /\ Tail(delivery.batch) \in Seq(Int) /\ Ascending(Tail(delivery.batch))
         /\ \A s : s \in Batch <=>
              \/ s = Head(delivery.batch)
              \/ \E i \in DOMAIN Tail(delivery.batch) : Tail(delivery.batch)[i] = s
         /\ \A i \in DOMAIN Tail(delivery.batch) : Head(delivery.batch) < Tail(delivery.batch)[i]
<1> DEFINE b == delivery.batch
<1>1. b \in Seq(Int)
  BY DeliveryType
<1>2. Ascending(b)
  BY DEF Elsewhere, BatchFits
<1>3. /\ Tail(b) \in Seq(Int) /\ Len(Tail(b)) = Len(b) - 1 /\ Len(b) \in Nat \ {0}
      /\ \A i \in 1 .. Len(Tail(b)) : Tail(b)[i] = b[i + 1]
      /\ DOMAIN b = 1 .. Len(b) /\ DOMAIN Tail(b) = 1 .. Len(Tail(b)) /\ Head(b) = b[1]
  BY <1>1, HeadTailProperties, LenProperties, EmptySeq
<1>4. \A i \in DOMAIN Tail(b) : i + 1 \in DOMAIN b /\ Tail(b)[i] = b[i + 1] /\ 1 \in DOMAIN b /\ 1 < i + 1
  BY <1>3
<1>5. Ascending(Tail(b))
  <2> SUFFICES ASSUME NEW i \in DOMAIN Tail(b), NEW j \in DOMAIN Tail(b), i < j
               PROVE  Tail(b)[i] < Tail(b)[j]
    BY DEF Ascending
  <2>1. i + 1 < j + 1
    BY <1>3
  <2> QED
    BY <1>2, <1>4, <2>1 DEF Ascending
<1>6. ASSUME NEW s
      PROVE  s \in Batch <=> s = Head(b) \/ \E i \in DOMAIN Tail(b) : Tail(b)[i] = s
  <2>1. \A i \in DOMAIN b : i = 1 \/ (i - 1 \in DOMAIN Tail(b) /\ (i - 1) + 1 = i)
    BY <1>3
  <2>2. \A i \in DOMAIN b : b[i] = Head(b) \/ (i - 1 \in DOMAIN Tail(b) /\ Tail(b)[i - 1] = b[i])
    BY <1>3, <1>4, <2>1
  <2>3. 1 \in DOMAIN b
    BY <1>3
  <2> QED
    BY <1>3, <1>4, <2>2, <2>3 DEF Batch
<1>7. \A i \in DOMAIN Tail(b) : Head(b) < Tail(b)[i]
  BY <1>2, <1>3, <1>4 DEF Ascending
<1> QED
  BY <1>3, <1>5, <1>6, <1>7

\* An event that was sent is the last of those sent, and older ones it crosses
\* were delivered before.
LEMMA AcknowledgeEvents ==
  ASSUME OutboxInv, Acknowledge
  PROVE  OutboxInv'
<1> DEFINE h == Head(delivery.batch)
<1>1. /\ delivery.batch # <<>> /\ delivery.landed
      /\ delivery' = [delivery EXCEPT !.batch = Tail(@), !.landed = FALSE, !.settled = Append(@, h)]
      /\ UNCHANGED <<rows, writer, outbox>> /\ tuples' = tuples
      /\ late' = late /\ lingering' = lingering
  BY DEF Acknowledge, Underway, requests
<1>2. /\ OwnEvents' /\ OpenIsOwned' /\ Latest' /\ ProcessedInOrder'
      /\ Committed' = Committed /\ Processed' = Processed /\ Undelivered' = Undelivered
      /\ \A s, t : Crossing(s, t)' = Crossing(s, t)
  BY <1>1, DeliveryKeeps
<1>3. EventsType /\ Elsewhere /\ outbox' = outbox /\ grants' = grants
  BY <1>1 DEF OutboxInv, rows
<1>4. /\ delivery'.batch = Tail(delivery.batch) /\ delivery'.landed = FALSE
      /\ delivery'.settled = Append(delivery.settled, h) /\ delivery'.failed = delivery.failed
  BY <1>1, <1>3 DEF EventsType
<1>5. h \in Batch /\ h \in Undelivered /\ h \in DOMAIN outbox /\ h \in Committed /\ h \in Int
  BY <1>1, <1>3, HeadIsEvent, CommittedIs, EventType
<1>6. /\ Tail(delivery.batch) \in Seq(Int) /\ Ascending(Tail(delivery.batch))
      /\ Batch = Batch' \cup {h} /\ \A s \in Batch' : h < s
  <2>1. /\ Tail(delivery.batch) \in Seq(Int) /\ Ascending(Tail(delivery.batch))
        /\ \A s : s \in Batch <=>
             \/ s = h \/ \E i \in DOMAIN Tail(delivery.batch) : Tail(delivery.batch)[i] = s
        /\ \A i \in DOMAIN Tail(delivery.batch) : h < Tail(delivery.batch)[i]
    BY <1>1, <1>3, NextInBatch
  <2>2. Batch' = {Tail(delivery.batch)[i] : i \in DOMAIN Tail(delivery.batch)}
    BY <1>4 DEF Batch
  <2> HIDE DEF h
  <2> QED
    BY <2>1, <2>2
<1>7. /\ delivery'.settled \in Seq(Int) /\ Ascending(delivery'.settled) /\ Sent' = Sent \cup {h}
  <2> DEFINE q == delivery.settled
  <2>1. q \in Seq(Int) /\ Ascending(q)
    BY <1>3, DeliveryType DEF Elsewhere, BatchFits
  <2>2. /\ Append(q, h) \in Seq(Int) /\ Len(Append(q, h)) = Len(q) + 1
        /\ \A i \in 1 .. Len(q) : Append(q, h)[i] = q[i]
        /\ Append(q, h)[Len(q) + 1] = h
    BY <1>5, <2>1, AppendProperties
  <2>3. /\ DOMAIN q = 1 .. Len(q) /\ Len(q) \in Nat
        /\ DOMAIN Append(q, h) = 1 .. Len(q) + 1
    BY <2>1, <2>2, LenProperties
  <2>4. \A i \in DOMAIN q : q[i] \in Sent /\ q[i] < h
    BY <1>3, <1>5 DEF Sent, Elsewhere, BatchFits
  <2>5. Ascending(Append(q, h))
    <3> SUFFICES ASSUME NEW i \in DOMAIN Append(q, h), NEW j \in DOMAIN Append(q, h), i < j
                 PROVE  Append(q, h)[i] < Append(q, h)[j]
      BY DEF Ascending
    <3>1. i \in DOMAIN q /\ (j \in DOMAIN q \/ j = Len(q) + 1)
      BY <2>3
    <3> QED
      BY <2>1, <2>2, <2>3, <2>4, <3>1 DEF Ascending
  <2>6. Sent' = {Append(q, h)[i] : i \in DOMAIN Append(q, h)}
    BY <1>4 DEF Sent
  <2>7. Sent' = Sent \cup {h}
    <3>1. \A i \in DOMAIN Append(q, h) : i \in DOMAIN q \/ i = Len(q) + 1
      BY <2>3
    <3>2. Len(q) + 1 \in DOMAIN Append(q, h) /\ \A i \in DOMAIN q : i \in DOMAIN Append(q, h)
      BY <2>3
    <3>3. \A i \in DOMAIN q : Append(q, h)[i] = q[i]
      BY <2>2, <2>3
    <3>4. Sent = {q[i] : i \in DOMAIN q}
      BY DEF Sent
    <3> HIDE DEF q, h
    <3> QED
      BY <2>2, <2>6, <3>1, <3>2, <3>3, <3>4
  <2> QED
    BY <1>4, <2>2, <2>5, <2>7
<1>8. EventsType'
  <2>1. delivery' \in [batch : Seq(Int), landed : BOOLEAN, settled : Seq(Int), failed : SUBSET Int]
    <3>1. delivery.failed \in SUBSET Int
      BY <1>3, DeliveryType
    <3>2. Append(delivery.settled, h) \in Seq(Int)
      BY <1>4, <1>7
    <3> HIDE DEF h
    <3> QED
      BY <1>1, <1>3, <1>6, <3>1, <3>2 DEF EventsType
  <2> QED
    BY <1>1, <1>3, <2>1 DEF EventsType
<1>9. Untouched'
  BY <1>1, <1>2, <1>3 DEF Elsewhere, Untouched, Granted
<1>10. BatchFits'
  <2>1. Batch' \cup Sent' \cup delivery'.failed \subseteq Undelivered'
    BY <1>2, <1>3, <1>4, <1>5, <1>6, <1>7 DEF Elsewhere, BatchFits
  <2>2. Ascending(delivery.batch)' /\ Ascending(delivery.settled)'
    BY <1>4, <1>6, <1>7 DEF Ascending
  <2>3. \A s \in Sent', t \in Batch' : s < t
    BY <1>3, <1>6, <1>7 DEF Elsewhere, BatchFits
  <2>4. \A t \in Batch', s \in Undelivered' : s < t /\ Crossing(s, t)' => s \in Batch' \cup Sent'
    BY <1>2, <1>3, <1>6, <1>7 DEF Elsewhere, BatchFits
  <2> QED
    BY <2>1, <2>2, <2>3, <2>4 DEF BatchFits
<1>11. SentInOrder'
  <2>1. ASSUME NEW s \in DOMAIN outbox, s < h, Crossing(s, h)
        PROVE  outbox[s].status = "undone" \/ s \in Processed \/ s \in Sent
    <3>1. outbox[s].status # "open"
      BY <1>5, <2>1, OpenIsLast
    <3>2. s \in Undelivered => s \in Sent
      <4>1. s \in Undelivered => s \in Batch \cup Sent
        BY <1>3, <1>5, <2>1 DEF Elsewhere, BatchFits
      <4>2. s \notin Batch
        <5>1. \A t \in Batch' : h < t /\ t \in Int
          BY <1>2, <1>3, <1>6, DeliveryType
        <5>2. s \in Int
          BY <1>3, EventType
        <5> QED
          BY <1>5, <1>6, <2>1, <5>1, <5>2
      <4> QED
        BY <4>1, <4>2
    <3>3. outbox[s].status \in {"open", "undone", "pending", "failed", "processed"}
      BY <1>3, EventType DEF EventRecords
    <3> QED
      BY <3>1, <3>2, <3>3 DEF Undelivered, Processed
  <2> QED
    BY <1>2, <1>3, <1>7, <2>1 DEF Elsewhere, SentInOrder
<1>12. Standing'
  <2>1. Known' \subseteq Known
    BY <1>1, <1>2, <1>4, <1>7 DEF Known
  <2> QED
    BY <1>1, <1>2, <1>3, <1>4, <2>1, StandingKeeps
<1> QED
  BY <1>2, <1>8, <1>9, <1>10, <1>11, <1>12 DEF OutboxInv, Elsewhere

\* A batch that failed, or whose transaction was lost, leaves no more to send.
LEMMA EndsBatch ==
  ASSUME OutboxInv, UNCHANGED <<rows, writer, outbox>>, tuples' = tuples, late' = late,
         \A request \in lingering' : request \in lingering \/ request.event \in Undelivered,
         delivery'.landed = FALSE, delivery' \in [batch : Seq(Int), landed : BOOLEAN, settled : Seq(Int), failed : SUBSET Int],
         delivery'.batch = <<>>, delivery'.settled \in {<<>>, delivery.settled},
         delivery'.failed \subseteq Undelivered
  PROVE  OutboxInv'
<1>1. /\ OwnEvents' /\ OpenIsOwned' /\ Latest' /\ ProcessedInOrder'
      /\ Committed' = Committed /\ Processed' = Processed /\ Undelivered' = Undelivered
      /\ \A s, t : Crossing(s, t)' = Crossing(s, t)
  BY DeliveryKeeps
<1>2. EventsType /\ Elsewhere /\ outbox' = outbox /\ grants' = grants
  BY DEF OutboxInv, rows
<1>3. Batch' = {} /\ Sent' \in {{}, Sent}
  BY DEF Batch, Sent
<1>4. EventsType'
  BY <1>2 DEF EventsType
<1>5. Untouched'
  BY <1>1, <1>2 DEF Elsewhere, Untouched, Granted
<1>6. Ascending(delivery.batch)' /\ Ascending(delivery.settled)'
  BY <1>2 DEF Elsewhere, BatchFits, Ascending
<1>7. BatchFits'
  BY <1>1, <1>2, <1>3, <1>6 DEF Elsewhere, BatchFits
<1>8. SentInOrder'
  BY <1>1, <1>2, <1>3 DEF Elsewhere, SentInOrder
<1>9. Standing'
  <2>1. Known' \subseteq Known
    BY <1>1, <1>3 DEF Known
  <2>2. Undelivered \subseteq Committed
    BY CommittedIs
  <2> QED
    BY <1>1, <1>2, <2>1, <2>2, StandingKeeps
<1> QED
  BY <1>1, <1>4, <1>5, <1>7, <1>8, <1>9 DEF OutboxInv, Elsewhere

\* A failed event, or a lost transaction, leaves what was sent to be sent again.
LEMMA FailedEvents ==
  ASSUME OutboxInv, FailEvent \/ AbortDelivery
  PROVE  OutboxInv'
<1>1. EventsType /\ Elsewhere /\ <<>> \in Seq(Int)
  BY DEF OutboxInv
<1>0. ASSUME GiveUp, NEW request \in lingering'
      PROVE  request \in lingering \/ request.event \in Undelivered
  <2>1. CASE request \notin lingering
    <3>1. delivery.batch # <<>> /\ request.event = Head(delivery.batch)
      BY <1>0, <2>1 DEF GiveUp, Underway
    <3> QED
      BY <1>1, <3>1, HeadIsEvent
  <2> QED
    BY <2>1
<1>2. CASE FailEvent
  <2>1. /\ delivery.batch # <<>> /\ UNCHANGED <<rows, writer, outbox>> /\ tuples' = tuples
        /\ late' = late /\ GiveUp
        /\ delivery' = [delivery EXCEPT !.batch = <<>>, !.landed = FALSE,
                          !.failed = {Head(delivery.batch)}]
    BY <1>2 DEF FailEvent, Underway
  <2>2. Head(delivery.batch) \in Undelivered /\ Head(delivery.batch) \in Int
    BY <1>1, <2>1, HeadIsEvent, EventType
  <2>3. delivery' \in [batch : Seq(Int), landed : BOOLEAN, settled : Seq(Int), failed : SUBSET Int]
        /\ delivery'.batch = <<>> /\ delivery'.settled = delivery.settled
        /\ delivery'.failed = {Head(delivery.batch)} /\ delivery'.landed = FALSE
    BY <1>1, <2>1, <2>2 DEF EventsType
  <2> QED
    BY <1>0, <2>1, <2>2, <2>3, EndsBatch
<1>3. CASE AbortDelivery
  <2>1. UNCHANGED <<rows, writer, outbox>> /\ tuples' = tuples /\ delivery' = NoDelivery
        /\ late' = late /\ GiveUp
    BY <1>3 DEF AbortDelivery
  <2>2. delivery' \in [batch : Seq(Int), landed : BOOLEAN, settled : Seq(Int), failed : SUBSET Int]
        /\ delivery'.batch = <<>> /\ delivery'.settled = <<>> /\ delivery'.failed = {}
        /\ delivery'.landed = FALSE
    BY <1>1, <2>1 DEF NoDelivery
  <2> QED
    BY <1>0, <2>1, <2>2, EndsBatch
<1> QED
  BY <1>2, <1>3

\* Events keep what they are about, and those a writer has are open still.
LEMMA OwnEventsKeep ==
  ASSUME OutboxInv, SameEvents, UNCHANGED <<rows, writer>>,
         \A s \in DOMAIN outbox : outbox'[s].status = "open" <=> outbox[s].status = "open"
  PROVE  OwnEvents' /\ OpenIsOwned'
<1>1. grants' = grants /\ writer' = writer /\ DOMAIN outbox' = DOMAIN outbox
  BY DEF rows, SameEvents
<1>2. OwnEvents /\ OpenIsOwned
  BY DEF OutboxInv
<1>3. \A w \in Writers : Written(w)' <=> Written(w)
  BY <1>1 DEF Written
<1>4. ASSUME NEW w \in Writers, NEW s \in writer[w].seqs, WriteFits(s, w),
             \A t \in writer[w].seqs : t \in DOMAIN outbox
      PROVE  WriteFits(s, w)'
  <2>1. s \in DOMAIN outbox /\ outbox'[s].of = outbox[s].of /\ outbox'[s].touch = outbox[s].touch
        /\ outbox'[s].locked = outbox[s].locked /\ outbox'[s].status = "open"
    BY <1>4 DEF WriteFits, SameEvents
  <2>2. /\ Changed(writer[w].write)' = Changed(writer[w].write)
        /\ Held(writer[w].write, outbox[s].of)' = Held(writer[w].write, outbox[s].of)
    BY <1>1, <2>1 DEF Changed, Ended, Held, GrantsAfter
  <2>3. \A t \in DOMAIN outbox : Crossing(s, t)' <=> Crossing(s, t)
    BY <2>1 DEF Crossing, SameEvents
  <2>4. \A t \in writer[w].seqs : outbox'[t].of = outbox'[s].of => t = s
    BY <1>4, <2>1 DEF WriteFits, SameEvents
  <2> QED
    BY <1>1, <1>4, <2>1, <2>2, <2>3, <2>4 DEF WriteFits
<1>5. OwnEvents'
  <2> SUFFICES ASSUME NEW w \in Writers, Written(w)
               PROVE  AllEvents(w)' /\ \A s \in writer[w].seqs : WriteFits(s, w)'
    BY <1>1, <1>2, <1>3 DEF OwnEvents
  <2>1. AllEvents(w) /\ \A s \in writer[w].seqs : WriteFits(s, w) /\ s \in DOMAIN outbox
    BY <1>2 DEF OwnEvents, WriteFits
  <2>2. \A s \in writer[w].seqs : WriteFits(s, w)'
    BY <1>4, <2>1
  <2>3. Changed(writer[w].write)' = Changed(writer[w].write)
    BY <1>1 DEF Changed, Ended
  <2>4. AllEvents(w)'
    BY <1>1, <2>1, <2>3 DEF AllEvents, SameEvents
  <2> QED
    BY <2>2, <2>4
<1>6. OpenIsOwned'
  BY <1>1, <1>2, <1>3 DEF OpenIsOwned
<1> QED
  BY <1>5, <1>6

\* An event that no longer waits is otherwise as it was.
LEMMA WaitEvents ==
  ASSUME OutboxInv, NEW s \in Seqs, EndWait(s)
  PROVE  OutboxInv'
<1>1. /\ s \in DOMAIN outbox /\ outbox' = [outbox EXCEPT ![s].waits = FALSE]
      /\ UNCHANGED <<rows, writer, spicedb>>
  BY DEF EndWait
<1>2. EventsType /\ Elsewhere /\ outbox \in Seq(EventRecords) /\ outbox[s] \in EventRecords
  BY <1>1, EventType DEF OutboxInv, EventsType
<1>3. [outbox[s] EXCEPT !.waits = FALSE] \in EventRecords
  BY <1>2 DEF EventRecords
<1>4. outbox' \in Seq(EventRecords)
  <2>1. s \in 1 .. Len(outbox) /\ outbox' = [outbox EXCEPT ![s] = [outbox[s] EXCEPT !.waits = FALSE]]
    BY <1>1, <1>2, LenProperties
  <2> QED
    BY <1>2, <1>3, <2>1, ExceptSeq
<1>5. DOMAIN outbox' = DOMAIN outbox /\ \A t \in DOMAIN outbox :
        /\ outbox'[t].of = outbox[t].of /\ outbox'[t].touch = outbox[t].touch
        /\ outbox'[t].locked = outbox[t].locked /\ outbox'[t].covers = outbox[t].covers
        /\ outbox'[t].status = outbox[t].status
  BY <1>1, <1>2 DEF EventRecords
<1>6. SameEvents /\ Committed' = Committed /\ Processed' = Processed /\ Undelivered' = Undelivered
  BY <1>5 DEF SameEvents, Committed, Processed, Undelivered
<1>7. EventsType'
  BY <1>1, <1>2, <1>4, <1>6, SameEventsType
<1>8. OwnEvents' /\ OpenIsOwned'
  BY <1>1, <1>5, <1>6, OwnEventsKeep
<1>9. Elsewhere'
  BY <1>1, <1>2, <1>5, <1>6, CommittedSame
<1> QED
  BY <1>7, <1>8, <1>9 DEF OutboxInv

\* A batch that ends records what was sent, and what failed.
LEMMA CommitDeliveryEvents ==
  ASSUME OutboxInv, CommitDelivery
  PROVE  OutboxInv'
<1>1. /\ outbox' = [s \in DOMAIN outbox |-> Outcome(s)] /\ delivery' = NoDelivery
      /\ UNCHANGED <<rows, writer>> /\ tuples' = tuples
      /\ late' = late /\ lingering' = lingering
  BY DEF CommitDelivery, requests
<1>2. EventsType /\ Elsewhere /\ grants' = grants
  BY <1>1 DEF OutboxInv, rows
<1>3. /\ Sent \subseteq Undelivered /\ delivery.failed \subseteq Undelivered
      /\ Undelivered \subseteq DOMAIN outbox /\ Processed \subseteq DOMAIN outbox
      /\ Ascending(delivery.settled) /\ delivery.settled \in Seq(Int)
      /\ Sent \subseteq Int /\ Processed \subseteq Int
  BY <1>2, DeliveryType, EventType DEF Elsewhere, BatchFits, Undelivered, Processed
<1> DEFINE q == delivery.settled
           before(i) == Processed \cup {q[j] : j \in 1 .. i}
<1>4. ASSUME NEW s \in Sent
      PROVE  \E i \in DOMAIN q : q[i] = s /\ Outcome(s) = Settled(s, i)
  <2>1. \E i \in DOMAIN q : q[i] = s
    BY DEF Sent
  <2> DEFINE i == CHOOSE i \in DOMAIN q : q[i] = s
  <2>2. i \in DOMAIN q /\ q[i] = s
    BY <2>1
  <2>3. Outcome(s) = Settled(s, i)
    BY <2>1 DEF Outcome
  <2> QED
    BY <2>2, <2>3
<1>5. \A s : s \notin Sent =>
        Outcome(s) = IF s \in delivery.failed THEN [outbox[s] EXCEPT !.status = "failed", !.waits = TRUE]
                     ELSE outbox[s]
  BY DEF Outcome, Sent
<1>6. ASSUME NEW s \in DOMAIN outbox
      PROVE  /\ Outcome(s) \in EventRecords
             /\ Outcome(s).of = outbox[s].of /\ Outcome(s).touch = outbox[s].touch
             /\ Outcome(s).locked = outbox[s].locked
             /\ Outcome(s).status = IF s \in Sent THEN "processed"
                                    ELSE IF s \in delivery.failed THEN "failed" ELSE outbox[s].status
             /\ s \notin Sent => Outcome(s).covers = outbox[s].covers
             /\ s \in Sent => \E i \in DOMAIN q : q[i] = s /\ Outcome(s).covers = before(i)
  <2>1. outbox[s] \in EventRecords
    BY <1>2, EventType
  <2>2. CASE s \in Sent
    <3>1. PICK i \in DOMAIN q : q[i] = s /\ Outcome(s) = Settled(s, i)
      BY <1>4, <2>2
    <3>2. Outcome(s) = [outbox[s] EXCEPT !.status = "processed", !.covers = before(i)]
      BY <3>1 DEF Settled
    <3>3. before(i) \in SUBSET Int
      <4>1. DOMAIN q = 1 .. Len(q) /\ Len(q) \in Nat /\ \A j \in 1 .. Len(q) : q[j] \in Int
        BY <1>3, LenProperties, ElementOfSeq
      <4>2. \A j \in 1 .. i : j \in 1 .. Len(q)
        BY <4>1
      <4> QED
        BY <1>3, <4>1, <4>2
    <3> HIDE DEF before
    <3>4. Outcome(s).covers = before(i)
      BY <2>1, <3>2 DEF EventRecords
    <3> QED
      BY <2>1, <2>2, <3>1, <3>2, <3>3, <3>4 DEF EventRecords
  <2>3. CASE s \notin Sent
    BY <1>5, <2>1, <2>3 DEF EventRecords
  <2> QED
    BY <2>2, <2>3
<1>7. outbox' \in Seq(EventRecords) /\ DOMAIN outbox' = DOMAIN outbox
      /\ \A s \in DOMAIN outbox : outbox'[s] = Outcome(s)
  <2>1. DOMAIN outbox = 1 .. Len(outbox) /\ Len(outbox) \in Nat
    BY <1>2, LenProperties DEF EventsType
  <2>2. [s \in 1 .. Len(outbox) |-> Outcome(s)] \in Seq(EventRecords)
    <3>1. \A s \in 1 .. Len(outbox) : Outcome(s) \in EventRecords
      BY <1>6, <2>1
    <3> QED
      BY <2>1, <3>1, IsASeq
  <2> QED
    BY <1>1, <2>1, <2>2
<1>8. SameEvents
  BY <1>6, <1>7 DEF SameEvents
<1>9. \A s \in DOMAIN outbox :
        outbox'[s].status = IF s \in Sent THEN "processed"
                            ELSE IF s \in delivery.failed THEN "failed" ELSE outbox[s].status
  BY <1>6, <1>7
<1>10. /\ Processed' = Processed \cup Sent /\ Committed' = Committed /\ Sent' = {} /\ Batch' = {}
       /\ delivery'.batch = <<>> /\ delivery'.settled = <<>> /\ delivery'.failed = {}
  <2>1. \A s \in DOMAIN outbox : s \in Processed' <=> s \in Processed \cup Sent
    BY <1>3, <1>7, <1>9 DEF Processed, Undelivered
  <2>2. \A s \in DOMAIN outbox : s \in Committed' <=> s \in Committed
    BY <1>3, <1>7, <1>9 DEF Committed, Undelivered
  <2>3. Processed' \subseteq DOMAIN outbox /\ Committed' \subseteq DOMAIN outbox
        /\ Committed \subseteq DOMAIN outbox /\ Sent \subseteq DOMAIN outbox
    BY <1>3, <1>7 DEF Processed, Committed
  <2>4. delivery'.batch = <<>> /\ delivery'.settled = <<>> /\ delivery'.failed = {}
    BY <1>1 DEF NoDelivery
  <2>5. Sent' = {} /\ Batch' = {}
    BY <2>4 DEF Sent, Batch
  <2> QED
    BY <1>3, <2>1, <2>2, <2>3, <2>4, <2>5
<1>11. EventsType'
  <2>1. delivery' \in [batch : Seq(Int), landed : BOOLEAN, settled : Seq(Int), failed : SUBSET Int]
    <3>1. <<>> \in Seq(Int)
      OBVIOUS
    <3> QED
      BY <1>1, <3>1 DEF NoDelivery
  <2> QED
    BY <1>1, <1>2, <1>7, <1>8, <2>1 DEF EventsType, SameEvents
<1>12. OwnEvents' /\ OpenIsOwned'
  <2>1. \A s \in DOMAIN outbox : outbox'[s].status = "open" <=> outbox[s].status = "open"
    BY <1>3, <1>9 DEF Undelivered
  <2> QED
    BY <1>1, <1>8, <2>1, OwnEventsKeep
<1>13. Committed \subseteq DOMAIN outbox /\ \A s, t \in DOMAIN outbox : Crossing(s, t)' <=> Crossing(s, t)
  BY <1>8 DEF Committed, Crossing, SameEvents
<1>14. Latest' /\ Untouched'
  <2>1. Latest'
    BY <1>2, <1>8, <1>10, <1>13 DEF Elsewhere, Latest, Granted, SameEvents
  <2>2. Untouched'
    BY <1>1, <1>2, <1>8, <1>10, <1>13 DEF Elsewhere, Untouched, Granted, SameEvents
  <2> QED
    BY <2>1, <2>2
<1>15. ProcessedInOrder'
  <2> SUFFICES ASSUME NEW t \in Processed', NEW s \in DOMAIN outbox, s < t, Crossing(s, t)'
               PROVE  outbox'[s].status = "undone" \/ (s \in Processed' /\ s \in outbox'[t].covers)
    BY <1>7 DEF ProcessedInOrder
  <2>1. t \in DOMAIN outbox /\ Crossing(s, t)
    BY <1>3, <1>10, <1>13
  <2>2. outbox[s].status = "undone" => outbox'[s].status = "undone"
    BY <1>3, <1>9 DEF Undelivered
  <2>3. CASE t \in Sent
    <3>1. PICK i \in DOMAIN q : q[i] = t /\ outbox'[t].covers = before(i)
      BY <1>6, <1>7, <2>1, <2>3
    <3>2. outbox[s].status = "undone" \/ s \in Processed \/ s \in Sent
      BY <1>2, <2>1, <2>3 DEF Elsewhere, SentInOrder
    <3>3. CASE s \in Processed
      BY <1>10, <3>1, <3>3
    <3>4. CASE s \in Sent
      <4>1. PICK k \in DOMAIN q : q[k] = s
        BY <3>4 DEF Sent
      <4>2. DOMAIN q = 1 .. Len(q) /\ Len(q) \in Nat
        BY <1>3, LenProperties
      <4>3. ~(i <= k)
        <5> SUFFICES ASSUME i <= k PROVE FALSE
          OBVIOUS
        <5>1. i = k \/ i < k
          BY <4>2
        <5>2. t <= s /\ s \in Int /\ t \in Int
          BY <1>3, <2>3, <3>1, <3>4, <4>1, <5>1 DEF Ascending
        <5> QED
          BY <5>2
      <4>4. k \in 1 .. i
        BY <4>2, <4>3
      <4> QED
        BY <1>10, <3>1, <3>4, <4>1, <4>4
    <3> QED
      BY <2>2, <3>2, <3>3, <3>4
  <2>4. CASE t \notin Sent
    <3>1. t \in Processed /\ outbox'[t].covers = outbox[t].covers
      BY <1>6, <1>7, <1>10, <2>1, <2>4
    <3> QED
      BY <1>2, <1>10, <2>1, <2>2, <3>1 DEF Elsewhere, ProcessedInOrder
  <2> QED
    BY <2>3, <2>4
<1>16. SentInOrder' /\ BatchFits'
  BY <1>10 DEF SentInOrder, BatchFits, Ascending
<1>17. Standing'
  <2>1. delivery'.landed = FALSE
    BY <1>1 DEF NoDelivery
  <2>2. Known' \subseteq Known
    BY <1>10, <2>1 DEF Known
  <2> QED
    BY <1>1, <1>2, <1>8, <1>10, <2>1, <2>2, StandingKeeps DEF SameEvents
<1> QED
  BY <1>11, <1>12, <1>14, <1>15, <1>16, <1>17 DEF OutboxInv, Elsewhere

\* A request nobody waits for makes its tuple what its event asks for: it is as
\* that event left it, or, where a newer one was delivered, it is marked.
LEMMA LateEvents ==
  ASSUME OutboxInv, NEW request \in lingering, LandLate(request)
  PROVE  OutboxInv'
<1> DEFINE n == request.event
           r == outbox[n].of
<1>1. /\ tuples' = [tuples EXCEPT ![r] = outbox[n].touch] /\ lingering' \subseteq lingering
      /\ late' = late \cup {q \in {r} : \E t \in Known : t > n /\ outbox[t].of = q}
      /\ UNCHANGED <<rows, writer, outbox>> /\ delivery' = delivery
  BY DEF LandLate
<1>2. /\ OwnEvents' /\ OpenIsOwned' /\ Latest' /\ ProcessedInOrder'
      /\ Committed' = Committed /\ Processed' = Processed /\ Undelivered' = Undelivered
      /\ \A s, t : Crossing(s, t)' = Crossing(s, t)
  BY <1>1, DeliveryKeeps
<1>3. EventsType /\ Elsewhere /\ outbox' = outbox /\ grants' = grants
  BY <1>1 DEF OutboxInv, rows
<1>4. Batch' = Batch /\ Sent' = Sent /\ Known' = Known
  BY <1>1, <1>2 DEF Batch, Sent, Known
<1>5. n \in Committed /\ n \in DOMAIN outbox /\ n \in Int
  <2>1. n \in Committed
    BY <1>3 DEF Elsewhere, Standing
  <2> QED
    BY <1>3, <2>1, KnownEvents, EventType
<1>6. /\ r \in Resources /\ outbox[n].touch \in BOOLEAN /\ tuples'[r] = outbox[n].touch
      /\ \A q \in Resources : q # r => tuples'[q] = tuples[q]
  BY <1>1, <1>3, <1>5, EventType DEF EventsType, EventRecords
<1>7. EventsType'
  <2>1. tuples' \in [Resources -> BOOLEAN]
    BY <1>1, <1>3, <1>6 DEF EventsType
  <2> QED
    BY <1>1, <1>3, <2>1 DEF EventsType
<1>8. Untouched'
  <2> SUFFICES ASSUME NEW q \in Resources
               PROVE  (\E s \in Committed : outbox[s].of = q) \/ tuples'[q] = Granted(q)'
    BY <1>2, <1>3 DEF Untouched
  <2>1. CASE q = r
    BY <1>5, <2>1
  <2>2. CASE q # r
    BY <1>3, <1>6, <2>2 DEF Elsewhere, Untouched, Granted
  <2> QED
    BY <2>1, <2>2
<1>9. BatchFits' /\ SentInOrder'
  BY <1>1, <1>2, <1>3, <1>4 DEF Elsewhere, BatchFits, SentInOrder, Ascending
<1>10. ASSUME NEW s \in Known, outbox[s].of \notin late'
       PROVE  Stands(s)'
  <2>1. s \in DOMAIN outbox /\ s \in Int /\ outbox[s].of \in Resources
    BY <1>3, KnownEvents, EventType
  <2>2. CASE outbox[s].of = r
    <3>1. ~(s > n)
      BY <1>1, <1>10, <2>2
    <3>2. s <= n
      BY <1>5, <2>1, <3>1
    <3> QED
      BY <1>2, <1>3, <1>5, <1>6, <2>2, <3>2 DEF Stands
  <2>3. CASE outbox[s].of # r
    <3>1. outbox[s].of \notin late
      BY <1>1, <1>10
    <3>2. PICK t \in Committed :
            s <= t /\ outbox[t].of = outbox[s].of /\ outbox[t].touch = tuples[outbox[s].of]
      BY <1>3, <3>1 DEF Elsewhere, Standing, Stands
    <3>3. tuples'[outbox[s].of] = tuples[outbox[s].of]
      BY <1>6, <2>1, <2>3
    <3> QED
      BY <1>2, <1>3, <3>2, <3>3 DEF Stands
  <2> QED
    BY <2>2, <2>3
<1>11. Standing'
  <2>1. \A s \in Known' : outbox'[s].of \in late' \/ Stands(s)'
    BY <1>3, <1>4, <1>10
  <2>2. \A l \in lingering' : l.event \in Committed'
    BY <1>1, <1>2, <1>3 DEF Elsewhere, Standing
  <2>3. delivery'.landed => delivery'.batch # <<>>
    BY <1>1, <1>3 DEF Elsewhere, Standing
  <2> QED
    BY <2>1, <2>2, <2>3 DEF Standing
<1> QED
  BY <1>2, <1>7, <1>8, <1>9, <1>11 DEF OutboxInv, Elsewhere

-----------------------------------------------------------------------------
(* The theorems.                                                            *)

\* Without events the tuples are what the grants ask for.
LEMMA InitEvents ==
  ASSUME RelationshipAssumption, Init
  PROVE  OutboxInv
<1>1. outbox = <<>> /\ delivery = NoDelivery /\ DOMAIN outbox = {}
      /\ tuples = [r \in Resources |-> grants[r] # {}] /\ \A w \in Writers : writer[w] = Idle
  BY DEF Init
<1>2. /\ Committed = {} /\ Processed = {} /\ Undelivered = {} /\ Batch = {} /\ Sent = {}
      /\ delivery.failed = {} /\ delivery.batch = <<>> /\ delivery.settled = <<>>
  BY <1>1 DEF Committed, Processed, Undelivered, Batch, Sent, NoDelivery
<1>3. EventsType
  <2>1. outbox \in Seq(EventRecords) /\ <<>> \in Seq(Int)
    BY <1>1
  <2>2. delivery \in [batch : Seq(Int), landed : BOOLEAN, settled : Seq(Int), failed : SUBSET Int]
    BY <1>1, <2>1 DEF NoDelivery
  <2>3. tuples \in [Resources -> BOOLEAN]
    BY <1>1
  <2> QED
    BY <1>1, <2>1, <2>2, <2>3 DEF EventsType
<1>4. OwnEvents /\ OpenIsOwned
  BY <1>1 DEF OwnEvents, OpenIsOwned, Written
<1>5. Untouched
  BY <1>1 DEF Untouched, Granted
<1>6. Latest /\ ProcessedInOrder /\ SentInOrder /\ BatchFits
  BY <1>2 DEF Latest, ProcessedInOrder, SentInOrder, BatchFits, Ascending
<1>7. Standing
  <2>1. delivery.landed = FALSE /\ lingering = {}
    BY <1>1 DEF Init, NoDelivery
  <2> QED
    BY <1>2, <2>1 DEF Standing, Known
<1> QED
  BY <1>3, <1>4, <1>5, <1>6, <1>7 DEF OutboxInv, Elsewhere

\* Every step keeps what is said of the events.
LEMMA NextEvents ==
  ASSUME RelationshipAssumption, ScopeInv, OutboxInv, [Next]_vars
  PROVE  OutboxInv'
<1>1. ASSUME NEW w \in Writers,
             (\E write \in Writes : Begin(w, write)) \/ LockOrganization(w) \/ Proceed(w) \/ AbortWrite(w)
      PROVE  OutboxInv'
  BY <1>1, LockingEvents, WriteEvents, CommitEvents, AbortEvents DEF Proceed
<1>2. ASSUME DeliverAll \/ \E through \in Seqs : StartDelivery(through)
      PROVE  OutboxInv'
  <2>1. PICK through \in Int : StartDelivery(through)
    <3>1. Len(outbox) \in Int
      BY LenProperties DEF OutboxInv, EventsType
    <3>2. Seqs \subseteq Int
      BY DEF Seqs
    <3> QED
      BY <1>2, <3>1, <3>2 DEF DeliverAll
  <2> QED
    BY <2>1, StartEvents
<1>3. ASSUME Deliver \/ FailEvent \/ AbortDelivery PROVE OutboxInv'
  BY <1>3, LandEvents, AcknowledgeEvents, CommitDeliveryEvents, FailedEvents DEF Deliver
<1>3a. ASSUME NEW request \in lingering, LandLate(request) PROVE OutboxInv'
  BY <1>3a, LateEvents
<1>4. ASSUME NEW s \in Seqs, EndWait(s) PROVE OutboxInv'
  BY <1>4, WaitEvents
<1>5. CASE UNCHANGED vars
  <2>1. /\ UNCHANGED <<rows, writer, outbox>> /\ UNCHANGED <<rows, outbox, spicedb>>
        /\ delivery' = delivery /\ tuples' = tuples /\ outbox' = outbox
    BY <1>5 DEF vars, rows, spicedb, requests
  <2>2. OwnEvents' /\ OpenIsOwned'
    BY <2>1, DeliveryKeeps
  <2>3. EventsType' /\ Elsewhere'
    BY <2>1, ElsewhereSame DEF OutboxInv, EventsType
  <2> QED
    BY <2>2, <2>3 DEF OutboxInv
<1> QED
  BY <1>1, <1>2, <1>3, <1>3a, <1>4, <1>5 DEF Next

\* The invariant holds of every event, however writes overlap and whatever
\* request, deliverer or writer fails: an event is delivered after the older ones
\* whose writes shared a lock with its own, and what is older undoes it only by a
\* request that was given up and landed late, until the tuple is written again
\* (enqueueRelationshipMutations under the locks, the deliverer's batch by seq).
THEOREM OutboxInvariant == Spec => []OutboxInv
<1>1. Init => ScopeInv /\ OutboxInv
  BY RelationshipAssumption, InitScope, InitEvents
<1>2. ScopeInv /\ OutboxInv /\ [Next]_vars => ScopeInv' /\ OutboxInv'
  BY RelationshipAssumption, NextScope, NextEvents
<1> QED
  BY <1>1, <1>2, PTL DEF Spec

\* What a delivered event changed in SpiceDB is only changed again by a newer
\* event: no retry and no other deliverer brings back what was before.  The one
\* exception is a request that was given up before and lands late (settle's
\* timeout does not cancel it); it lasts until the tuple is written again.
THEOREM DeliveriesStay == Spec => []DeliveredStays
<1>1. OutboxInv => DeliveredStays
  <2> SUFFICES ASSUME OutboxInv, NEW r \in Resources \ late, NEW s \in About(r) \cap Processed
               PROVE  \E t \in About(r) : t >= s /\ outbox[t].touch = tuples[r]
    BY DEF DeliveredStays, AsDelivered
  <2>1. outbox[s].of = r /\ s \in DOMAIN outbox
    BY DEF About
  <2>2. PICK t \in Committed : s <= t /\ outbox[t].of = r /\ outbox[t].touch = tuples[r]
    BY <2>1 DEF OutboxInv, Elsewhere, Standing, Known, Stands
  <2>3. t \in About(r) /\ t \in Int /\ s \in Int
    <3>1. t \in DOMAIN outbox
      BY DEF Committed
    <3> QED
      BY <2>1, <2>2, <3>1, EventType DEF OutboxInv, About, Committed
  <2> QED
    BY <2>2, <2>3
<1> QED
  BY <1>1, OutboxInvariant, PTL

\* The token stored with an event shows every older event of the same
\* organisation, so the token of the newest one answers for all.
THEOREM TokensCover == Spec => []TokensCoverOlder
<1>1. OutboxInv => TokensCoverOlder
  <2> SUFFICES ASSUME OutboxInv, NEW s \in Processed, NEW t \in Processed, s < t,
                      outbox[s].locked \cap outbox[t].locked # {}
               PROVE  s \in outbox[t].covers
    BY DEF TokensCoverOlder
  <2>1. s \in DOMAIN outbox /\ outbox[s].status # "undone" /\ Crossing(s, t)
    BY DEF Processed, Crossing
  <2> QED
    BY <2>1 DEF OutboxInv, Elsewhere, ProcessedInOrder
<1> QED
  BY <1>1, OutboxInvariant, PTL

\* A resource with events has a last one.
LEMMA LastEvent ==
  ASSUME EventsType, NEW S \in SUBSET DOMAIN outbox, S # {}
  PROVE  \E s \in S : \A t \in S : ~(s < t)
<1> DEFINE last == Len(outbox)
           D == {n \in Nat : last - n \in S}
           Less == {ss \in Nat \X Nat : ss[1] < ss[2]}
<1>1. last \in Nat /\ \A s \in S : s \in Int /\ 1 <= s /\ s <= last
  <2>1. DOMAIN outbox = 1 .. last /\ last \in Nat
    BY LenProperties DEF EventsType
  <2> HIDE DEF last
  <2> QED
    BY <2>1
<1> HIDE DEF last
<1>2. \A s \in S : last - s \in D
  <2>1. \A s \in S : last - s \in Nat /\ last - (last - s) = s
    BY <1>1
  <2> QED
    BY <2>1
<1>3. D \subseteq Nat /\ D # {}
  BY <1>2
<1>4. IsWellFoundedOn(Less, Nat)
  BY NatLessThanWellFounded DEF OpToRel
<1>5. \E n \in D : \A m \in D : <<m, n>> \notin Less
  <2> HIDE DEF D, Less
  <2> QED
    BY <1>3, <1>4, WFMin
<1>6. PICK n \in D : \A m \in D : <<m, n>> \notin Less
  BY <1>5
<1>7. last - n \in S
  OBVIOUS
<1>8. ASSUME NEW t \in S PROVE ~(last - n < t)
  <2>1. last - t \in D /\ <<last - t, n>> \notin Less
    BY <1>2, <1>6
  <2>2. last - t \in Nat /\ n \in Nat /\ t \in Int
    BY <1>1, <1>3, <2>1
  <2>3. ~(last - t < n)
    BY <2>1, <2>2
  <2> QED
    BY <1>1, <2>2, <2>3
<1> QED
  BY <1>7, <1>8

\* Once its events are delivered, a tuple is there exactly while a grant is,
\* whichever organisations granted, revoked, left and were left meanwhile.  The
\* one exception is a tuple that a request given up before has written since its
\* last event landed.
THEOREM TuplesMirrorGrants == Spec => []SpiceDbMirrors
<1>1. OutboxInv => SpiceDbMirrors
  <2> SUFFICES ASSUME OutboxInv, NEW r \in Resources \ late, About(r) \subseteq Processed
               PROVE  tuples[r] = (grants[r] # {})
    BY DEF SpiceDbMirrors
  <2> DEFINE S == {s \in Committed : outbox[s].of = r}
  <2>1. EventsType /\ Elsewhere
    BY DEF OutboxInv
  <2>2. CASE S = {}
    BY <2>1, <2>2 DEF Elsewhere, Untouched, Granted
  <2>3. CASE S # {}
    <3>1. S \in SUBSET DOMAIN outbox
      BY DEF Committed
    <3>2. PICK s \in S : \A t \in S : ~(s < t)
      <4> HIDE DEF S
      <4> QED
        BY <2>1, <2>3, <3>1, LastEvent
    <3>3. s \in DOMAIN outbox /\ s \in Processed /\ s \in Int
      <4>1. s \in DOMAIN outbox /\ s \in About(r)
        BY DEF Committed, About
      <4> QED
        BY <2>1, <4>1, EventType
    <3>4. PICK t \in Committed : s <= t /\ outbox[t].of = r /\ outbox[t].touch = tuples[r]
      BY <2>1, <3>3 DEF Elsewhere, Standing, Known, Stands
    <3>5. t = s
      <4>1. t \in Int
        BY <2>1, EventType DEF Committed
      <4> QED
        BY <3>2, <3>3, <3>4, <4>1
    <3>6. outbox[s].touch = Granted(r)
      BY <2>1, <3>2 DEF Elsewhere, Latest
    <3> QED
      BY <3>4, <3>5, <3>6 DEF Granted
  <2> QED
    BY <2>2, <2>3
<1> QED
  BY <1>1, OutboxInvariant, PTL

==============================================================================
