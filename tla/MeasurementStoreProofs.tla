------------------------ MODULE MeasurementStoreProofs ------------------------
(***************************************************************************)
(* Theorems about MeasurementStore, for any number of requests, callers,   *)
(* repetitions and deaths of the Supervisor.                               *)
(***************************************************************************)
EXTENDS MeasurementStore, TLAPS

-----------------------------------------------------------------------------
(* Types.  A marker with a status names a record, and so does a request    *)
(* past its look at the marker; both are what a record is indexed with.    *)

Working == {"mark", "run", "wait", "record", "marked", "close", "leave"}
Named ==
    /\ marker.status # "none" => marker.record # 0
    /\ \A c \in Caller : pc[c] \in Working => at[c] # 0
TypeInv == TypeOK /\ Named

\* Leaving a reservation, by return or exception, keeps every type.
LEMMA LeaveTypes ==
    ASSUME TypeInv, NEW c \in Caller, Leave(c), UNCHANGED <<task, spent>>
    PROVE  TypeInv'
<1> USE MeasurementAssumption DEF TypeInv, TypeOK, Named, task, spent
<1>1. /\ pc' \in [Caller -> Location] /\ at' \in [Caller -> 0 .. MaxCalls]
      /\ repetition' \in [Caller -> Repetition]
      /\ cacheable' \in [Caller -> BOOLEAN] /\ pending' \in [Caller -> BOOLEAN]
  BY DEF Leave, Forget, Location, Repetition
<1>2. executors' \subseteq Executor
  BY DEF Leave
<1>3. lock' \in Caller \cup {Nobody} /\ active' \in Caller \cup {Nobody}
  BY DEF Leave
<1>4. \A d \in Caller : pc'[d] \in Working => at'[d] # 0
  BY DEF Leave, Forget, Working
<1> QED BY <1>1, <1>2, <1>3, <1>4

\* The death of the Supervisor keeps every type, whatever becomes of executors.
LEMMA DieTypes ==
    ASSUME TypeInv, Die, executors' \subseteq Executor, orphaned' \in 0 .. crashes'
    PROVE  TypeInv'
<1> USE MeasurementAssumption DEF TypeInv, TypeOK, Named, task
<1>1. /\ pc' \in [Caller -> Location] /\ at' \in [Caller -> 0 .. MaxCalls]
      /\ repetition' \in [Caller -> Repetition]
      /\ cacheable' \in [Caller -> BOOLEAN] /\ pending' \in [Caller -> BOOLEAN]
  BY DEF Die, Location, Repetition
<1>2. \A d \in Caller : pc'[d] \in Working => at'[d] # 0
  BY DEF Die, Working
<1> QED BY <1>1, <1>2 DEF Die

\* A checkpoint written by an executor keeps every type.
LEMMA WriteTypes ==
    ASSUME TypeInv, NEW e \in executors, NEW evidence \in Evidence, Write(e, evidence)
    PROVE  TypeInv'
<1> USE MeasurementAssumption DEF TypeInv, TypeOK, Named, locals, spent
<1>1. e \in Executor
  OBVIOUS
<1>2. [e EXCEPT !.mem = evidence] \in Executor
  BY <1>1 DEF Executor
<1>3. executors' \subseteq Executor
  BY <1>2 DEF Write
<1>4. jobs' \in [Record -> [Repetition -> Evidence]]
  BY <1>1 DEF Write, Executor
<1> QED BY <1>3, <1>4 DEF Write

\* The steps of a request up to its first dispatch keep every type.
LEMMA ReservationTypes ==
    ASSUME TypeInv, NEW c \in Caller, Reservation(c)
    PROVE  TypeInv'
<1> USE MeasurementAssumption DEF TypeInv, TypeOK, Named
<1>1. CASE Reserve(c)
  <2>1. pc' \in [Caller -> Location] BY <1>1 DEF Reserve, Location
  <2>2. \A d \in Caller : pc'[d] \in Working => pc[d] \in Working
    BY <1>1 DEF Reserve, Working
  <2> QED BY <1>1, <2>1, <2>2 DEF Reserve, task, locals
<1>2. CASE Refuse(c)
  BY <1>2 DEF Refuse, task, locals
<1>3. CASE Reuse(c)
  BY <1>3, LeaveTypes DEF Reuse
<1>4. CASE Resume(c)
  <2>1. marker.record \in Record
    BY <1>4 DEF Resume, Resumable, Record
  <2>2. pc' \in [Caller -> Location] /\ at' \in [Caller -> 0 .. MaxCalls]
    BY <1>4, <2>1 DEF Resume, Location, Record
  <2>3. \A d \in Caller : pc'[d] \in Working => at'[d] # 0
    BY <1>4, <2>1 DEF Resume, Working, Record
  <2> QED BY <1>4, <2>2, <2>3 DEF Resume, task, spent
<1>5. CASE NewRecord(c)
  <2>1. made + 1 \in 1 .. MaxCalls
    BY <1>5 DEF NewRecord
  <2>2. pc' \in [Caller -> Location] /\ at' \in [Caller -> 0 .. MaxCalls]
    BY <1>5, <2>1 DEF NewRecord, Location
  <2>3. \A d \in Caller : pc'[d] \in Working => at'[d] # 0
    BY <1>5, <2>1 DEF NewRecord, Working
  <2> QED BY <1>5, <2>1, <2>2, <2>3 DEF NewRecord, spent
<1>6. CASE MarkRunning(c)
  <2>1. at[c] # 0
    BY <1>6 DEF MarkRunning, Working, Location
  <2>2. /\ pc' \in [Caller -> Location] /\ repetition' \in [Caller -> Repetition]
        /\ cacheable' \in [Caller -> BOOLEAN] /\ pending' \in [Caller -> BOOLEAN]
    BY <1>6 DEF MarkRunning, Location, Repetition
  <2>3. marker' \in [status : Status, record : 0 .. MaxCalls] /\ marker'.record # 0
    BY <1>6, <2>1 DEF MarkRunning, Status
  <2>4. \A d \in Caller : pc'[d] \in Working => at[d] # 0
    BY <1>6, <2>1 DEF MarkRunning
  <2> QED BY <1>6, <2>2, <2>3, <2>4 DEF MarkRunning, spent
<1> QED BY <1>1, <1>2, <1>3, <1>4, <1>5, <1>6 DEF Reservation

\* So do its measurements and its publication.
LEMMA MeasurementTypes ==
    ASSUME TypeInv, NEW c \in Caller, Measurement(c)
    PROVE  TypeInv'
<1> USE MeasurementAssumption DEF TypeInv, TypeOK, Named
<1>1. CASE Dispatch(c)
  <2>1. at[c] \in Record
    BY <1>1 DEF Dispatch, Working, Location, Record
  <2>2. jobs[at[c]][repetition[c]] \in Evidence
    BY <2>1
  <2>3. [record |-> at[c], repetition |-> repetition[c], owner |-> c, death |-> 0,
         mem |-> jobs[at[c]][repetition[c]]] \in Executor
    BY <2>1, <2>2 DEF Executor
  <2>4. executors' \subseteq Executor
    BY <1>1, <2>3 DEF Dispatch
  <2>5. pc' \in [Caller -> Location] /\ \A d \in Caller : pc'[d] \in Working => at[d] # 0
    BY <1>1, <2>1 DEF Dispatch, Location, Record
  <2> QED BY <1>1, <2>4, <2>5 DEF Dispatch, task, locals, spent
<1>2. CASE Collect(c)
  <2>1. /\ executors' \subseteq executors
        /\ UNCHANGED <<lock, task, active, at, calls, crashes, orphaned>>
    BY <1>2 DEF Collect, Ends
  <2>2. PICK answered \in BOOLEAN :
          /\ unread' \in {unread, unread + 1}
          /\ unread' # unread => unread < MaxUnread
          /\ pending' \in [Caller -> BOOLEAN] /\ cacheable' \in [Caller -> BOOLEAN]
          /\ IF answered /\ Another(c, jobs[at[c]][repetition[c]])
             THEN /\ repetition' = [repetition EXCEPT ![c] = @ + 1]
                  /\ pc' = [pc EXCEPT ![c] = "run"]
             ELSE /\ pc' = [pc EXCEPT ![c] = "record"]
                  /\ UNCHANGED repetition
    BY <1>2, ZenonT(40) DEF Collect, Answers
  <2>3. pc' \in [Caller -> Location] /\ repetition' \in [Caller -> Repetition]
    <3>1. CASE UNCHANGED repetition
      BY <2>2, <3>1 DEF Location
    <3>2. CASE repetition[c] < Repetitions /\ repetition' = [repetition EXCEPT ![c] = @ + 1]
      <4>1. repetition[c] + 1 \in Repetition
        BY <3>2 DEF Repetition
      <4> QED BY <2>2, <3>2, <4>1 DEF Location
    <3> QED BY <2>2, <3>1, <3>2 DEF Another
  <2>4. at[c] # 0
    BY <1>2 DEF Collect, Working, Location
  <2>5. \A d \in Caller : pc'[d] \in Working => at[d] # 0
    BY <2>2, <2>4
  <2>6. unread' \in 0 .. MaxUnread
    BY <2>2
  <2> QED BY <2>1, <2>2, <2>3, <2>5, <2>6 DEF task
<1>3. CASE WriteRecord(c)
  <2>1. /\ verdict' \in [Record -> Verdict] /\ cacheable' \in [Caller -> BOOLEAN]
        /\ pc' \in [Caller -> Location]
    <3>1. PICK reusable \in BOOLEAN :
            /\ cacheable' = [cacheable EXCEPT ![c] = reusable]
            /\ verdict' = [verdict EXCEPT ![at[c]] =
                               IF reusable THEN "cacheable" ELSE "uncertain"]
      BY <1>3 DEF WriteRecord
    <3>2. verdict' \in [Record -> Verdict]
      BY <3>1 DEF Verdict
    <3>3. pc' \in [Caller -> Location]
      BY <1>3 DEF WriteRecord, Location
    <3>4. cacheable' \in [Caller -> BOOLEAN]
      BY <3>1, Zenon
    <3> QED BY <3>2, <3>3, <3>4
  <2>2. \A d \in Caller : pc'[d] \in Working => pc[d] \in Working
    BY <1>3 DEF WriteRecord, Working, Location
  <2> QED BY <1>3, <2>1, <2>2 DEF WriteRecord, spent
<1>4. CASE MarkPending(c) \/ Close(c)
  <2>1. pc[c] \in Working /\ at[c] # 0
    BY <1>4 DEF MarkPending, Close, Working, Location
  <2>2. /\ marker'.record = at[c]
        /\ marker' \in [status : Status, record : 0 .. MaxCalls]
    BY <1>4 DEF MarkPending, Close, Status
  <2>3. /\ pc' \in [Caller -> Location]
        /\ \A d \in Caller : pc'[d] \in Working => pc[d] \in Working
    BY <1>4, <2>1 DEF MarkPending, Close, Working, Location
  <2> QED BY <1>4, <2>1, <2>2, <2>3 DEF MarkPending, Close, locals, spent
<1> QED BY <1>1, <1>2, <1>3, <1>4 DEF Measurement

\* TypeInv is inductive.
LEMMA TypeInvStep ==
    ASSUME TypeInv, [Next]_vars
    PROVE  TypeInv'
<1>1. CASE UNCHANGED vars
  BY <1>1 DEF vars, task, locals, spent, TypeInv, TypeOK, Named
<1>2. CASE \E c \in Caller : Reservation(c) \/ Measurement(c) \/ Finish(c) \/ Abandon(c)
  BY <1>2, ReservationTypes, MeasurementTypes, LeaveTypes DEF Finish, Abandon
<1>3. CASE \E e \in executors : Execution(e)
  <2> SUFFICES ASSUME NEW e \in executors, Execution(e) PROVE TypeInv'
    BY <1>3
  <2>1. CASE OrphanEnds(e)
    BY <2>1 DEF OrphanEnds, TypeInv, TypeOK, Named, task, locals, spent
  <2>2. CASE JobOpens(e) \/ \E evidence \in Terminal : JobEnds(e, evidence)
    BY <2>2, WriteTypes DEF JobOpens, JobEnds, Terminal, Complete, Evidence
  <2> QED BY <2>1, <2>2 DEF Execution
<1>4. CASE Crash
  <2>1. orphaned' \in 0 .. crashes'
    BY <1>4, MeasurementAssumption DEF Crash, Die, TypeInv, TypeOK
  <2> QED BY <1>4, <2>1, DieTypes DEF Crash
<1>5. CASE Killed
  <2>1. crashes \in Nat /\ crashes + 1 \in 0 .. MaxCrashes /\ orphaned' \in 0 .. crashes'
    <3>1. crashes \in 0 .. MaxCrashes /\ orphaned \in 0 .. crashes
      BY DEF TypeInv, TypeOK
    <3>2. crashes < MaxCrashes /\ crashes' = crashes + 1 /\ orphaned' = orphaned + 1
      BY <1>5 DEF Killed, Die
    <3> QED BY <3>1, <3>2, MeasurementAssumption
  <2>2. ASSUME NEW e \in executors
        PROVE  [e EXCEPT !.owner = Nobody, !.death = crashes + 1] \in Executor
    BY <2>1 DEF TypeInv, TypeOK, Executor
  <2>3. executors' \subseteq Executor
    BY <1>5, <2>2 DEF Killed, TypeInv, TypeOK
  <2> QED BY <1>5, <2>1, <2>3, DieTypes DEF Killed
<1> QED BY <1>1, <1>2, <1>3, <1>4, <1>5 DEF Next

\* The store before its first request is typed.
LEMMA TypeInvInit == Init => TypeInv
BY MeasurementAssumption DEF Init, TypeInv, TypeOK, Named, NoMarker, Status, Verdict,
   Evidence, Location, Working, Repetition, Executor

\* Every variable keeps the type of what the store, the Supervisor and the
\* executors put into it (reserve, execute, finish).
THEOREM TypeCorrect == Spec => []TypeOK
<1>1. TypeInv => TypeOK BY DEF TypeInv
<1> QED BY <1>1, TypeInvInit, TypeInvStep, PTL DEF Spec

-----------------------------------------------------------------------------
(* The reservation.  Whatever a step does, the lock and the places of the  *)
(* requests change in one of five ways.                                    *)

Early == {"idle", "lookup", "mark"}
Held == \A c \in Caller : (pc[c] # "idle") <=> (lock = c)

MovesOn(c, place) ==
    /\ pc[c] # "idle" /\ place # "idle"
    /\ pc' = [pc EXCEPT ![c] = place] /\ lock' = lock
    /\ IF pc[c] = "mark" THEN place \notin Early /\ active' = c
       ELSE (pc[c] \in Early <=> place \in Early) /\ active' = active

\* Only these change the lock, a place or the entry of the active call.
LEMMA ReservationKinds ==
    ASSUME TypeInv, [Next]_vars
    PROVE  \/ UNCHANGED <<lock, pc, active>>
           \/ \E c \in Caller : Reserve(c)
           \/ \E c \in Caller : pc[c] # "idle" /\ Leave(c)
           \/ \E c \in Caller : \E place \in Location : MovesOn(c, place)
           \/ Die
<1> DEFINE Kinds == \/ UNCHANGED <<lock, pc, active>>
                    \/ \E c \in Caller : Reserve(c)
                    \/ \E c \in Caller : pc[c] # "idle" /\ Leave(c)
                    \/ \E c \in Caller : \E place \in Location : MovesOn(c, place)
                    \/ Die
<1> SUFFICES Kinds OBVIOUS
<1>1. CASE UNCHANGED vars
  BY <1>1 DEF vars
<1>2. CASE \E c \in Caller : Reservation(c) \/ Measurement(c) \/ Finish(c) \/ Abandon(c)
  <2> SUFFICES ASSUME NEW c \in Caller,
                      Reservation(c) \/ Measurement(c) \/ Finish(c) \/ Abandon(c)
               PROVE  Kinds
    BY <1>2
  <2>1. CASE Reserve(c) \/ Refuse(c) \/ Reuse(c) \/ Finish(c) \/ Abandon(c)
    BY <2>1 DEF Refuse, Reuse, Finish, Abandon
  <2>2. CASE Resume(c) \/ NewRecord(c)
    <3>1. MovesOn(c, "mark")
      BY <2>2 DEF Resume, NewRecord, MovesOn, Early
    <3> QED BY <3>1 DEF Location
  <2>3. CASE MarkRunning(c)
    <3>1. MovesOn(c, "run")
      BY <2>3 DEF MarkRunning, MovesOn, Early
    <3> QED BY <3>1 DEF Location
  <2>4. CASE Dispatch(c) \/ WriteRecord(c) \/ MarkPending(c) \/ Close(c)
    <3>1. \E place \in {"wait", "marked", "close", "leave"} : MovesOn(c, place)
      BY <2>4 DEF Dispatch, WriteRecord, MarkPending, Close, MovesOn, Early
    <3> QED BY <3>1 DEF Location
  <2>5. CASE Collect(c)
    <3>1. \E place \in {"run", "record"} : pc' = [pc EXCEPT ![c] = place]
      BY <2>5 DEF Collect, Answers
    <3>2. \E place \in {"run", "record"} : MovesOn(c, place)
      BY <2>5, <3>1 DEF Collect, MovesOn, Early
    <3> QED BY <3>2 DEF Location
  <2> QED BY <2>1, <2>2, <2>3, <2>4, <2>5 DEF Reservation, Measurement
<1>3. CASE \E e \in executors : Execution(e)
  BY <1>3 DEF Execution, JobOpens, JobEnds, OrphanEnds, Write
<1>4. CASE Crash \/ Killed
  BY <1>4 DEF Crash, Killed
<1> QED BY <1>1, <1>2, <1>3, <1>4 DEF Next

\* The lock is held by the one request that is under way (flock), and the active
\* entry is its, from the dispatch on.
LEMMA HeldStep ==
    ASSUME TypeInv, Held, RunningIsSeen, [Next]_vars
    PROVE  Held' /\ RunningIsSeen'
<1> USE MeasurementAssumption
<1>0. /\ lock \in Caller \cup {Nobody} /\ active \in Caller \cup {Nobody}
      /\ pc \in [Caller -> Location]
  BY DEF TypeInv, TypeOK
<1>1. CASE UNCHANGED <<lock, pc, active>>
  BY <1>1 DEF Held, RunningIsSeen
<1>2. CASE \E c \in Caller : Reserve(c)
  <2> PICK c \in Caller : Reserve(c) BY <1>2
  <2>1. lock = Nobody /\ lock' = c /\ active' = active
        /\ pc' = [pc EXCEPT ![c] = "lookup"]
    BY DEF Reserve
  <2>2. Held'
    BY <1>0, <2>1 DEF Held
  <2>3. active = Nobody
    BY <2>1 DEF RunningIsSeen
  <2> QED BY <1>0, <2>1, <2>2, <2>3 DEF RunningIsSeen
<1>3. CASE \E c \in Caller : pc[c] # "idle" /\ Leave(c)
  <2> PICK c \in Caller : pc[c] # "idle" /\ Leave(c) BY <1>3
  <2>1. lock = c BY DEF Held
  <2>2. lock' = Nobody /\ active' = Nobody /\ pc' = [pc EXCEPT ![c] = "idle"]
    BY DEF Leave, Forget
  <2> QED BY <1>0, <2>1, <2>2 DEF Held, RunningIsSeen
<1>4. CASE \E c \in Caller : \E place \in Location : MovesOn(c, place)
  <2> PICK c \in Caller, place \in Location : MovesOn(c, place) BY <1>4
  <2>1. lock = c BY DEF Held, MovesOn
  <2>2. Held' BY <1>0 DEF Held, MovesOn
  <2>3. pc'[lock'] = place /\ lock' = c /\ c # Nobody
    BY <1>0, <2>1 DEF MovesOn
  <2>4. active = IF pc[c] \in Early THEN Nobody ELSE c
    BY <2>1, <2>3 DEF RunningIsSeen, Early, MovesOn
  <2>5. active' = IF place \in Early THEN Nobody ELSE c
    BY <2>4 DEF MovesOn, Early
  <2>6. RunningIsSeen'
    BY <2>3, <2>5 DEF RunningIsSeen, Early, MovesOn
  <2> QED BY <2>2, <2>6
<1>5. CASE Die
  BY <1>5 DEF Die, Held, RunningIsSeen
<1> QED BY <1>1, <1>2, <1>3, <1>4, <1>5, ReservationKinds

-----------------------------------------------------------------------------
(* What a reservation protects *)

\* Nobody measures a task that has a cacheable record, and the marker names it.
Announced ==
    /\ \A r \in Record : verdict[r] = "cacheable" => marker.record = r
    /\ \A c \in Caller : pc[c] \in {"mark", "run", "wait", "record"} => ~ Published
    /\ \A c \in Caller : pc[c] \in Working \ {"mark"} => marker.record = at[c]

\* An executor with a living Supervisor is waited for, and it is alone.
Alone ==
    orphaned = 0 => \A e \in executors :
        e.owner \in Caller /\ pc[e.owner] = "wait" /\ executors = {e}

MeasurementInv == TypeInv /\ Held /\ RunningIsSeen /\ Announced /\ Alone

\* Only one request is past the lock.
LEMMA OneHolder ==
    ASSUME Held, NEW c \in Caller, NEW d \in Caller, pc[c] # "idle", pc[d] # "idle"
    PROVE  c = d
BY DEF Held

\* A published record is the one the marker names, so the look-up finds it.
LEMMA PublishedIsCached ==
    ASSUME TypeInv, Announced, Published
    PROVE  Cached
BY DEF Announced, Published, Cached, Record

\* Announced is inductive: a record is looked up before another is made or resumed,
\* and is published while the marker names it.
LEMMA AnnouncedStep ==
    ASSUME TypeInv, Held, Announced, [Next]_vars
    PROVE  Announced'
<1>0. pc \in [Caller -> Location] /\ at \in [Caller -> 0 .. MaxCalls]
      /\ verdict \in [Record -> Verdict]
  BY DEF TypeInv, TypeOK
<1>1. CASE UNCHANGED <<marker, verdict, pc, at>>
  BY <1>1 DEF Announced, Published
<1>2. ASSUME UNCHANGED <<marker, verdict>>, NEW c \in Caller, Leave(c)
      PROVE  Announced'
  BY <1>0, <1>2 DEF Announced, Published, Leave, Forget, Working
<1>3. CASE Die
  BY <1>3 DEF Announced, Published, Die, task, Working
<1>4. ASSUME NEW c \in Caller, Reservation(c)
      PROVE  Announced'
  <2>1. CASE Reserve(c)
    BY <1>0, <2>1 DEF Reserve, Announced, Published, task, locals, Working
  <2>2. CASE Refuse(c)
    BY <1>1, <2>2 DEF Refuse, task, locals
  <2>3. CASE Reuse(c)
    BY <1>2, <2>3 DEF Reuse, task
  <2>4. CASE Resume(c) \/ NewRecord(c)
    <3>1. ~ Published
      BY <2>4, PublishedIsCached DEF Resume, NewRecord
    <3>2. /\ pc' = [pc EXCEPT ![c] = "mark"] /\ UNCHANGED <<marker, verdict>>
          /\ \A d \in Caller : d # c => at'[d] = at[d]
      BY <1>0, <2>4 DEF Resume, NewRecord, task
    <3>3. ~ Published'
      BY <3>1, <3>2 DEF Published
    <3>4. \A d \in Caller : pc'[d] \in Working \ {"mark"} =>
              d # c /\ pc[d] \in Working \ {"mark"}
      BY <1>0, <3>2
    <3> QED BY <3>2, <3>3, <3>4 DEF Announced, Published
  <2>5. CASE MarkRunning(c)
    <3>1. pc[c] = "mark" /\ ~ Published
      BY <2>5 DEF MarkRunning, Announced
    <3>2. /\ marker'.record = at[c] /\ UNCHANGED <<verdict, at>>
          /\ pc' = [pc EXCEPT ![c] = "run"]
      BY <2>5 DEF MarkRunning
    <3>3. ~ Published'
      BY <3>1, <3>2 DEF Published
    <3>4. \A d \in Caller : pc'[d] \in Working => d = c
      BY <1>0, <3>1, <3>2, OneHolder DEF Working
    <3> QED BY <3>2, <3>3, <3>4 DEF Announced, Published
  <2> QED BY <1>4, <2>1, <2>2, <2>3, <2>4, <2>5 DEF Reservation
<1>5. ASSUME NEW c \in Caller, Measurement(c)
      PROVE  Announced'
  <2>1. CASE Dispatch(c) \/ Collect(c)
    <3>1. pc[c] \in {"run", "wait"} /\ UNCHANGED <<marker, verdict, at>>
      BY <2>1 DEF Dispatch, Collect, task, locals
    <3>2. \E place \in {"run", "wait", "record"} : pc' = [pc EXCEPT ![c] = place]
      BY <2>1 DEF Dispatch, Collect
    <3> QED BY <1>0, <3>1, <3>2 DEF Announced, Published, Working
  <2>2. CASE WriteRecord(c)
    <3>1. pc[c] = "record" /\ ~ Published /\ marker.record = at[c]
      BY <2>2 DEF WriteRecord, Announced, Working
    <3>2. /\ pc' = [pc EXCEPT ![c] = "marked"] /\ UNCHANGED <<marker, at>>
          /\ \A r \in Record : r # at[c] => verdict'[r] = verdict[r]
      BY <1>0, <2>2 DEF WriteRecord
    <3>3. \A d \in Caller : pc'[d] \in Working => d = c
      BY <1>0, <3>1, <3>2, OneHolder DEF Working
    <3>4. \A d \in Caller : pc'[d] \notin {"mark", "run", "wait", "record"}
      BY <1>0, <3>2, <3>3 DEF Working
    <3> QED BY <3>1, <3>2, <3>3, <3>4 DEF Announced, Published
  <2>3. CASE MarkPending(c) \/ Close(c)
    <3>1. pc[c] \in {"marked", "close"} /\ marker.record = at[c]
      BY <2>3 DEF MarkPending, Close, Announced, Working
    <3>2. /\ marker'.record = at[c] /\ UNCHANGED <<verdict, at>>
          /\ \E place \in {"close", "leave"} : pc' = [pc EXCEPT ![c] = place]
      BY <2>3 DEF MarkPending, Close, locals
    <3> QED BY <1>0, <3>1, <3>2 DEF Announced, Published, Working
  <2> QED BY <1>5, <2>1, <2>2, <2>3 DEF Measurement
<1>6. CASE \E c \in Caller : Reservation(c) \/ Measurement(c) \/ Finish(c) \/ Abandon(c)
  BY <1>2, <1>4, <1>5, <1>6 DEF Finish, Abandon, task
<1>7. CASE \E e \in executors : Execution(e)
  BY <1>1, <1>7 DEF Execution, JobOpens, JobEnds, OrphanEnds, Write, task, locals
<1>8. CASE Crash \/ Killed
  BY <1>3, <1>8 DEF Crash, Killed
<1>9. CASE UNCHANGED vars
  BY <1>1, <1>9 DEF vars, task, locals
<1> QED BY <1>6, <1>7, <1>8, <1>9 DEF Next

\* Alone is inductive: an executor is started by the request that holds the lock and
\* waits for no other, and is gone before the lock is.
LEMMA AloneStep ==
    ASSUME TypeInv, Held, Alone, [Next]_vars
    PROVE  Alone'
<1> USE MeasurementAssumption
<1>0. pc \in [Caller -> Location] /\ orphaned \in Nat /\ executors \subseteq Executor
  BY DEF TypeInv, TypeOK
<1>1. CASE UNCHANGED <<pc, executors, orphaned>>
  BY <1>1 DEF Alone
<1>2. CASE executors' = {}
  BY <1>2 DEF Alone
<1>3. ASSUME NEW c \in Caller, pc[c] # "idle", Leave(c), UNCHANGED orphaned
      PROVE  Alone'
  <2>1. ASSUME orphaned = 0, NEW e \in executors
        PROVE  e.owner = c
    BY <2>1, <1>3, OneHolder DEF Alone
  <2>2. orphaned = 0 => executors' = {}
    BY <1>3, <2>1 DEF Leave, Own
  <2> QED BY <1>3, <2>2 DEF Alone
<1>4. ASSUME NEW c \in Caller, NEW place \in Location, pc[c] # "wait",
             pc' = [pc EXCEPT ![c] = place], UNCHANGED <<executors, orphaned>>
      PROVE  Alone'
  BY <1>0, <1>4 DEF Alone
<1>5. ASSUME NEW c \in Caller, Reservation(c)
      PROVE  Alone'
  <2>1. CASE Reserve(c)
    BY <1>4, <2>1 DEF Reserve, Location
  <2>2. CASE Refuse(c)
    BY <1>1, <2>2 DEF Refuse
  <2>3. CASE Reuse(c)
    BY <1>3, <2>3 DEF Reuse, spent
  <2>4. CASE Resume(c) \/ NewRecord(c)
    BY <1>4, <2>4 DEF Resume, NewRecord, Location, spent
  <2>5. CASE MarkRunning(c)
    BY <1>4, <2>5 DEF MarkRunning, Location, spent
  <2> QED BY <1>5, <2>1, <2>2, <2>3, <2>4, <2>5 DEF Reservation
<1>6. ASSUME NEW c \in Caller, Measurement(c)
      PROVE  Alone'
  <2>1. CASE Dispatch(c)
    <3>1. orphaned = 0 => executors = {}
      BY <2>1, OneHolder DEF Dispatch, Alone
    <3>2. /\ pc'[c] = "wait" /\ UNCHANGED orphaned
          /\ \E e : e.owner = c /\ executors' = executors \cup {e}
      BY <1>0, <2>1 DEF Dispatch, spent
    <3> QED BY <3>1, <3>2 DEF Alone
  <2>2. CASE Collect(c)
    <3>1. orphaned = 0 => executors' = {}
      BY <2>2 DEF Collect, Ends, Own, Alone
    <3> QED BY <2>2, <3>1 DEF Collect, Alone
  <2>3. CASE WriteRecord(c) \/ MarkPending(c) \/ Close(c)
    BY <1>4, <2>3 DEF WriteRecord, MarkPending, Close, Location, spent
  <2> QED BY <1>6, <2>1, <2>2, <2>3 DEF Measurement
<1>7. CASE \E c \in Caller : Reservation(c) \/ Measurement(c) \/ Finish(c) \/ Abandon(c)
  BY <1>3, <1>5, <1>6, <1>7 DEF Finish, Abandon, spent
<1>8. ASSUME NEW e \in executors, Execution(e)
      PROVE  Alone'
  <2>1. CASE OrphanEnds(e)
    BY <2>1 DEF OrphanEnds, Alone, spent
  <2>2. CASE \E evidence : Write(e, evidence)
    <3> PICK evidence : Write(e, evidence) BY <2>2
    <3>1. UNCHANGED <<pc, orphaned>>
          /\ executors' = (executors \ {e}) \cup {[e EXCEPT !.mem = evidence]}
      BY DEF Write, spent
    <3>2. [e EXCEPT !.mem = evidence].owner = e.owner
      BY <1>0 DEF Executor
    <3> QED BY <3>1, <3>2 DEF Alone
  <2> QED BY <1>8, <2>1, <2>2 DEF Execution, JobOpens, JobEnds
<1>9. CASE Killed
  <2>1. orphaned' = orphaned + 1 BY <1>9 DEF Killed
  <2>2. orphaned' # 0 BY <1>0, <2>1
  <2> QED BY <2>2 DEF Alone
<1> QED BY <1>1, <1>2, <1>7, <1>8, <1>9 DEF Next, Crash, vars, spent

\* The store before its first request satisfies the whole invariant, and every step
\* keeps it.
LEMMA MeasurementInvInit == Init => MeasurementInv
<1> SUFFICES ASSUME Init PROVE MeasurementInv
  OBVIOUS
<1>1. TypeInv BY TypeInvInit
<1>2. Held /\ RunningIsSeen
  BY MeasurementAssumption DEF Init, Held, RunningIsSeen
<1>3. Announced
  BY DEF Init, Announced, Working
<1>4. Alone BY DEF Init, Alone
<1> QED BY <1>1, <1>2, <1>3, <1>4 DEF MeasurementInv

LEMMA MeasurementInvStep == MeasurementInv /\ [Next]_vars => MeasurementInv'
BY TypeInvStep, HeldStep, AnnouncedStep, AloneStep DEF MeasurementInv

\* It holds in every state of every run.
LEMMA MeasurementInvAlways == Spec => []MeasurementInv
BY MeasurementInvInit, MeasurementInvStep, PTL DEF Spec

\* check_running sees the request that may have dispatched work, and no other.
THEOREM RunningSeen == Spec => []RunningIsSeen
<1>1. MeasurementInv => RunningIsSeen BY DEF MeasurementInv
<1> QED BY <1>1, MeasurementInvAlways, PTL

\* While no Supervisor was killed over a running executor, a task has at most one
\* executor, that of the request that holds its lock (reserve, run_gateway).
THEOREM ExecutorsExclusive == Spec => []OneExecutor
<1>1. MeasurementInv => OneExecutor
  <2> SUFFICES ASSUME MeasurementInv, orphaned = 0, NEW e \in executors
               PROVE  e.owner = lock /\ executors = {e}
    BY DEF OneExecutor
  <2>1. e.owner \in Caller /\ pc[e.owner] = "wait" /\ executors = {e}
    BY DEF MeasurementInv, Alone
  <2> QED BY <2>1 DEF MeasurementInv, Held
<1> QED BY <1>1, MeasurementInvAlways, PTL

\* No step after the publication makes a record, changes one or starts an executor.
LEMMA FinalStep ==
    ASSUME TypeInv, Announced, Published, [Next]_vars
    PROVE  verdict' = verdict /\ made' = made /\ Started' \subseteq Started
<1> DEFINE Final == verdict' = verdict /\ made' = made /\ Started' \subseteq Started
<1>0. executors \subseteq Executor /\ Nobody \notin Caller
  BY MeasurementAssumption DEF TypeInv, TypeOK
<1>1. ASSUME UNCHANGED <<verdict, made>>, executors' \subseteq executors
      PROVE  Final
  BY <1>1 DEF Started
<1>2. ASSUME NEW c \in Caller, Leave(c), UNCHANGED task
      PROVE  Final
  BY <1>1, <1>2 DEF Leave, task
<1>3. ASSUME NEW c \in Caller, Reservation(c)
      PROVE  Final
  <2>1. CASE Reserve(c) \/ Refuse(c) \/ MarkRunning(c) \/ Resume(c)
    BY <1>1, <2>1 DEF Reserve, Refuse, MarkRunning, Resume, task
  <2>2. CASE Reuse(c)
    BY <1>2, <2>2 DEF Reuse
  <2>3. ~ NewRecord(c)
    BY PublishedIsCached DEF NewRecord
  <2> QED BY <1>3, <2>1, <2>2, <2>3 DEF Reservation
<1>4. ASSUME NEW c \in Caller, Measurement(c)
      PROVE  Final
  <2>1. pc[c] \notin {"run", "record"}
    BY DEF Announced
  <2>2. ~ Dispatch(c) /\ ~ WriteRecord(c)
    BY <2>1 DEF Dispatch, WriteRecord
  <2>3. CASE Collect(c)
    BY <1>1, <2>3 DEF Collect, Ends, task
  <2>4. CASE MarkPending(c) \/ Close(c)
    BY <1>1, <2>4 DEF MarkPending, Close
  <2> QED BY <1>4, <2>2, <2>3, <2>4 DEF Measurement
<1>5. CASE \E c \in Caller : Reservation(c) \/ Measurement(c) \/ Finish(c) \/ Abandon(c)
  BY <1>2, <1>3, <1>4, <1>5 DEF Finish, Abandon
<1>6. ASSUME NEW e \in executors, Execution(e)
      PROVE  Final
  <2>1. CASE OrphanEnds(e)
    BY <1>1, <2>1 DEF OrphanEnds, task
  <2>2. CASE \E evidence : Write(e, evidence)
    <3> PICK evidence : Write(e, evidence) BY <2>2
    <3> DEFINE written == [e EXCEPT !.mem = evidence]
    <3>1. UNCHANGED <<verdict, made>> /\ executors' = (executors \ {e}) \cup {written}
      BY DEF Write
    <3>2. written.owner = e.owner /\ written.record = e.record
      BY <1>0 DEF Executor
    <3>3. ASSUME NEW x \in executors', x.owner # Nobody
          PROVE  \E y \in executors : y.owner # Nobody /\ y.owner = x.owner /\ y.record = x.record
      BY <3>1, <3>2, <3>3
    <3> HIDE DEF written
    <3> QED BY <3>1, <3>3 DEF Started
  <2> QED BY <1>6, <2>1, <2>2 DEF Execution, JobOpens, JobEnds
<1>7. CASE Crash
  BY <1>1, <1>7 DEF Crash, Die, task
<1>8. CASE Killed
  <2>1. UNCHANGED <<verdict, made>>
    BY <1>8 DEF Killed, Die, task
  <2>2. ASSUME NEW x \in executors', x.owner # Nobody
        PROVE  FALSE
    <3>1. PICK e \in executors :
            x = IF e.owner = Nobody THEN e
                ELSE [e EXCEPT !.owner = Nobody, !.death = crashes + 1]
      BY <1>8, <2>2 DEF Killed
    <3>2. [e EXCEPT !.owner = Nobody, !.death = crashes + 1].owner = Nobody
      BY <1>0 DEF Executor
    <3> QED BY <2>2, <3>1, <3>2
  <2>3. Started' = {}
    BY <2>2 DEF Started
  <2> QED BY <2>1, <2>3
<1>9. CASE UNCHANGED vars
  BY <1>1, <1>9 DEF vars, task
<1> QED BY <1>5, <1>6, <1>7, <1>8, <1>9 DEF Next

\* "A later filesystem error cannot cause a completed GPU task to run again"
\* (execute): a published record is final, and the task is never measured again.
THEOREM PublishedForGood == Spec => PublishedIsFinal
<1>1. MeasurementInv /\ [Next]_vars =>
          [Published => verdict' = verdict /\ made' = made /\ Started' \subseteq Started]_vars
  BY FinalStep DEF MeasurementInv
<1> QED BY <1>1, MeasurementInvAlways, PTL DEF Spec, PublishedIsFinal
-----------------------------------------------------------------------------
(* What a record rests on.  While no Supervisor was killed over a running  *)
(* executor, the jobs of a task are written by the executor of the request *)
(* that holds its lock, at the repetition that request is in.              *)

\* An executor works for the repetition its request is in, from the checkpoint on disk.
Bound ==
    \A e \in executors :
        /\ e.record = at[e.owner] /\ e.repetition = repetition[e.owner]
        /\ e.mem = jobs[e.record][e.repetition]

\* No repetition has jobs before the ones before it passed.
InOrder ==
    \A r \in Record : \A i, j \in Repetition :
        i < j /\ jobs[r][j] # "none" => jobs[r][i] = "passed"

PassedSoFar ==
    \A c \in Caller : pc[c] \in {"run", "wait", "record"} =>
        \A i \in 1 .. repetition[c] - 1 : jobs[at[c]][i] = "passed"

\* The jobs of a record decide it at this repetition.
Conclusive(r, last) ==
    /\ \A i \in 1 .. last - 1 : jobs[r][i] = "passed"
    /\ jobs[r][last] \in Complete
    /\ jobs[r][last] = "passed" => last = Repetitions

Judged ==
    /\ \A c \in Caller :
           pc[c] = "record" /\ cacheable[c] => Conclusive(at[c], repetition[c])
    /\ \A r \in Record :
           verdict[r] = "cacheable" => \E last \in Repetition : Conclusive(r, last)

\* The marker says running until the record is written, then that it is validated.
Statuses ==
    \A c \in Caller :
        /\ pc[c] \in {"run", "wait", "record", "marked"} => marker.status = "running"
        /\ pc[c] = "close" => marker.status = "validation_pending"

OpenIn(r) == \E i \in Repetition : jobs[r][i] = "open"

\* A job that is not terminal is one of the record under work, or of the record that
\* the marker says to resume; a request that saw none leaves none.
Followed ==
    /\ \A r \in Record : OpenIn(r) => marker.record = r /\ marker.status \in Resumable
    /\ \A c \in Caller : pc[c] \in Working => \A r \in Record : OpenIn(r) => r = at[c]
    /\ \A c \in Caller :
           pc[c] \in {"record", "marked", "close"} /\ ~ pending[c] => ~ OpenIn(at[c])

EvidenceInv ==
    orphaned = 0 =>
        /\ Bound /\ InOrder /\ PassedSoFar /\ Judged /\ Statuses
        /\ unread = 0 => Followed

\* The death of a Supervisor over an executor and an answer without a result are never
\* forgotten.
LEMMA CountersGrow ==
    ASSUME TypeInv, [Next]_vars
    PROVE  /\ orphaned' = 0 => orphaned = 0
           /\ unread' = 0 => unread = 0
<1>0. unread \in Nat /\ orphaned \in Nat
  BY MeasurementAssumption DEF TypeInv, TypeOK
<1>1. orphaned' = orphaned \/ orphaned' = orphaned + 1
  BY DEF Next, Reservation, Measurement, Reserve, Refuse, Reuse, Resume, NewRecord,
         MarkRunning, Dispatch, Collect, WriteRecord, MarkPending, Close, Finish, Abandon,
         Execution, JobOpens, JobEnds, Write, OrphanEnds, Crash, Killed, spent, vars
<1>2. unread' = unread \/ unread' = unread + 1
  <2>1. CASE \E c \in Caller : Collect(c)
    BY <2>1 DEF Collect
  <2>2. CASE ~ \E c \in Caller : Collect(c)
    BY <2>2 DEF Next, Reservation, Measurement, Reserve, Refuse, Reuse, Resume, NewRecord,
         MarkRunning, Dispatch, WriteRecord, MarkPending, Close, Finish, Abandon,
         Execution, JobOpens, JobEnds, Write, OrphanEnds, Crash, Killed, Die, spent, vars
  <2> QED BY <2>1, <2>2
<1> QED BY <1>0, <1>1, <1>2

\* The one request that is under way, if any, is the one that moves.
LEMMA Sole ==
    ASSUME MeasurementInv, NEW c \in Caller, pc[c] # "idle", NEW d \in Caller, pc[d] # "idle"
    PROVE  c = d
BY OneHolder DEF MeasurementInv

\* A record that a request works on is one.
LEMMA AtRecord ==
    ASSUME MeasurementInv, NEW c \in Caller, pc[c] \in Working
    PROVE  at[c] \in Record /\ repetition[c] \in Repetition
BY MeasurementAssumption DEF MeasurementInv, TypeInv, TypeOK, Named, Record

\* Steps that move no request, write no file and touch no executor.
LEMMA EvidenceKept ==
    ASSUME EvidenceInv, orphaned = 0, unread' = 0 => unread = 0,
           UNCHANGED <<marker, verdict, jobs, executors, pc, at, repetition, cacheable, pending>>
    PROVE  EvidenceInv'
BY DEF EvidenceInv, Bound, InOrder, PassedSoFar, Judged, Conclusive, Statuses, Followed, OpenIn

\* A request that leaves takes its executor along and leaves the files as they are.
LEMMA EvidenceLeave ==
    ASSUME MeasurementInv, EvidenceInv, orphaned = 0,
           NEW c \in Caller, pc[c] # "idle", Leave(c), UNCHANGED <<task, spent>>
    PROVE  EvidenceInv'
<1> USE DEF task, spent
<1>1. /\ \A d \in Caller : pc'[d] = "idle"
      /\ UNCHANGED <<marker, verdict, jobs, orphaned, unread>>
  BY Sole DEF Leave, Forget, MeasurementInv, TypeInv, TypeOK
<1>2. executors' = {}
  <2>1. \A e \in executors : e.owner = c
    BY Sole DEF MeasurementInv, Alone
  <2> QED BY <2>1 DEF Leave, Own
<1> QED BY <1>1, <1>2 DEF EvidenceInv, Bound, InOrder, PassedSoFar, Judged, Conclusive,
           Statuses, Followed, OpenIn, Working

\* So does its Supervisor when the machine dies.
LEMMA EvidenceCrash ==
    ASSUME EvidenceInv, orphaned = 0, Crash
    PROVE  EvidenceInv'
BY DEF Crash, Die, task, EvidenceInv, Bound, InOrder, PassedSoFar, Judged, Conclusive,
       Statuses, Followed, OpenIn, Working

\* The steps up to the first dispatch: a record is made or resumed over no open job
\* but its own, and named before anything is dispatched.
LEMMA EvidenceReservation ==
    ASSUME MeasurementInv, EvidenceInv, orphaned = 0, NEW c \in Caller, Reservation(c)
    PROVE  EvidenceInv'
<1> USE DEF task, spent, locals
<1>0. /\ pc \in [Caller -> Location] /\ at \in [Caller -> 0 .. MaxCalls]
      /\ repetition \in [Caller -> Repetition]
      /\ cacheable \in [Caller -> BOOLEAN] /\ pending \in [Caller -> BOOLEAN]
  BY DEF MeasurementInv, TypeInv, TypeOK
<1>1. CASE Reserve(c)
  <2>1. \A d \in Caller : pc[d] = "idle"
    BY <1>1, MeasurementAssumption DEF Reserve, MeasurementInv, Held
  <2>2. \A d \in Caller : pc'[d] = IF d = c THEN "lookup" ELSE "idle"
    BY <1>0, <1>1, <2>1 DEF Reserve
  <2>3. executors = {}
    BY <2>1 DEF MeasurementInv, Alone
  <2>4. UNCHANGED <<marker, verdict, jobs, executors, orphaned, unread>>
    BY <1>1 DEF Reserve
  <2> QED BY <2>2, <2>3, <2>4 DEF EvidenceInv, Bound, InOrder, PassedSoFar, Judged,
             Conclusive, Statuses, Followed, OpenIn, Working
<1>2. CASE Refuse(c)
  BY <1>2, EvidenceKept DEF Refuse
<1>3. CASE Reuse(c)
  BY <1>3, EvidenceLeave DEF Reuse
<1>4. CASE Resume(c) \/ NewRecord(c)
  <2>1. pc[c] = "lookup"
    BY <1>4 DEF Resume, NewRecord
  <2>2. /\ pc' = [pc EXCEPT ![c] = "mark"] /\ at'[c] \in Record
        /\ UNCHANGED <<marker, verdict, jobs, executors, orphaned, unread>>
    <3>1. CASE Resume(c)
      BY <1>0, <3>1 DEF Resume, MeasurementInv, TypeInv, TypeOK, Named, Resumable, Record
    <3>2. CASE NewRecord(c)
      <4>1. made + 1 \in Record
        BY <3>2, MeasurementAssumption DEF NewRecord, MeasurementInv, TypeInv, TypeOK, Record
      <4> QED BY <1>0, <3>2, <4>1 DEF NewRecord
    <3> QED BY <1>4, <3>1, <3>2
  <2>3. \A d \in Caller : pc'[d] = IF d = c THEN "mark" ELSE "idle"
    BY <1>0, <2>1, <2>2, Sole
  <2>4. executors = {}
    BY <2>1, Sole DEF MeasurementInv, Alone
  <2>5. unread = 0 => \A r \in Record : OpenIn(r) => r = at'[c]
    <3>1. CASE Resume(c)
      BY <1>0, <3>1 DEF Resume, EvidenceInv, Followed
    <3>2. CASE NewRecord(c)
      BY <3>2 DEF NewRecord, EvidenceInv, Followed
    <3> QED BY <1>4, <3>1, <3>2
  <2> QED BY <2>2, <2>3, <2>4, <2>5 DEF EvidenceInv, Bound, InOrder, PassedSoFar, Judged,
             Conclusive, Statuses, Followed, OpenIn, Working
<1>5. CASE MarkRunning(c)
  <2>1. /\ pc[c] = "mark" /\ at[c] \in Record
        /\ marker' = [status |-> "running", record |-> at[c]]
        /\ pc' = [pc EXCEPT ![c] = "run"] /\ repetition'[c] = 1
        /\ UNCHANGED <<verdict, jobs, executors, at, orphaned, unread>>
    BY <1>0, <1>5, AtRecord DEF MarkRunning, Working
  <2>2. \A d \in Caller : pc'[d] = IF d = c THEN "run" ELSE "idle"
    BY <1>0, <2>1, Sole
  <2>3. executors = {}
    BY <2>1, Sole DEF MeasurementInv, Alone
  <2>4. unread = 0 => \A r \in Record : OpenIn(r) => r = at[c]
    BY <2>1 DEF EvidenceInv, Followed, Working
  <2> QED BY <2>1, <2>2, <2>3, <2>4 DEF EvidenceInv, Bound, InOrder, PassedSoFar, Judged,
             Conclusive, Statuses, Followed, OpenIn, Resumable
<1> QED BY <1>1, <1>2, <1>3, <1>4, <1>5 DEF Reservation

\* An executor writes at the repetition its request is in, which has no verdict yet:
\* what was judged stays, and nothing later has a job.
LEMMA EvidenceWrite ==
    ASSUME MeasurementInv, EvidenceInv, orphaned = 0,
           NEW e \in executors, NEW evidence \in Evidence \ {"none"}, Write(e, evidence),
           e.mem \notin Complete
    PROVE  EvidenceInv'
<1> USE DEF task, spent, locals
<1> DEFINE c == e.owner
           r == e.record
           k == e.repetition
<1>1. /\ c \in Caller /\ pc[c] = "wait" /\ executors = {e}
      /\ r = at[c] /\ k = repetition[c] /\ jobs[r][k] = e.mem
      /\ r \in Record /\ k \in Repetition
  BY DEF MeasurementInv, TypeInv, TypeOK, Alone, EvidenceInv, Bound, Executor
<1>2. \A d \in Caller : d # c => pc[d] = "idle"
  BY <1>1, Sole
<1>3. /\ jobs \in [Record -> [Repetition -> Evidence]]
      /\ jobs' = [jobs EXCEPT ![r][k] = evidence]
      /\ UNCHANGED <<marker, verdict, pc, at, repetition, cacheable, pending, orphaned, unread>>
  BY DEF Write, MeasurementInv, TypeInv, TypeOK
<1>4. /\ jobs'[r][k] = evidence
      /\ \A s \in Record : \A i \in Repetition :
             s # r \/ i # k => jobs'[s][i] = jobs[s][i]
  BY <1>1, <1>3
<1>5. executors' = {[e EXCEPT !.mem = evidence]}
  BY <1>1 DEF Write
<1>6. /\ [e EXCEPT !.mem = evidence].owner = c
      /\ [e EXCEPT !.mem = evidence].record = r
      /\ [e EXCEPT !.mem = evidence].repetition = k
      /\ [e EXCEPT !.mem = evidence].mem = evidence
  BY DEF MeasurementInv, TypeInv, TypeOK, Executor
<1> HIDE DEF c, r, k
<1>7. Bound'
  BY <1>1, <1>3, <1>4, <1>5, <1>6 DEF Bound
<1>8. \A i \in 1 .. k - 1 : jobs[r][i] = "passed"
  BY <1>1 DEF EvidenceInv, PassedSoFar
<1>9. jobs[r][k] # "passed"
  BY <1>1 DEF Complete
<1>10. InOrder'
  <2> SUFFICES ASSUME NEW s \in Record, NEW i \in Repetition, NEW j \in Repetition,
                      i < j, jobs'[s][j] # "none"
               PROVE  jobs'[s][i] = "passed"
    BY DEF InOrder
  <2>1. CASE s = r /\ j = k
    <3>1. i \in 1 .. k - 1 /\ i # k
      BY <2>1, MeasurementAssumption DEF Repetition
    <3> QED BY <1>4, <1>8, <2>1, <3>1
  <2>2. CASE ~ (s = r /\ j = k)
    <3>1. jobs[s][j] # "none"
      BY <1>4, <2>2
    <3>2. jobs[s][i] = "passed"
      BY <3>1 DEF EvidenceInv, InOrder
    <3> QED BY <1>4, <1>9, <3>2
  <2> QED BY <2>1, <2>2
<1>11. PassedSoFar'
  <2> SUFFICES ASSUME NEW d \in Caller, pc[d] \in {"run", "wait", "record"},
                      NEW i \in 1 .. repetition[d] - 1
               PROVE  jobs'[at[d]][i] = "passed"
    BY <1>3 DEF PassedSoFar
  <2>1. d = c
    BY <1>2
  <2>2. i \in Repetition /\ i # k
    BY <1>1, <2>1, MeasurementAssumption DEF Repetition
  <2> QED BY <1>1, <1>4, <1>8, <2>1, <2>2
<1>12. Judged'
  <2>1. \A s \in Record : verdict[s] # "cacheable"
    BY <1>1 DEF MeasurementInv, Announced, Published
  <2>2. \A d \in Caller : pc[d] # "record"
    BY <1>1, <1>2
  <2> QED BY <1>3, <2>1, <2>2 DEF Judged
<1>13. Statuses'
  BY <1>3 DEF EvidenceInv, Statuses
<1>14. unread = 0 => Followed'
  <2> SUFFICES ASSUME unread = 0 PROVE Followed'
    OBVIOUS
  <2>1. \A s \in Record : OpenIn(s)' => s = r
    <3> SUFFICES ASSUME NEW s \in Record, s # r, NEW i \in Repetition, jobs'[s][i] = "open"
                 PROVE  FALSE
      BY DEF OpenIn
    <3>1. OpenIn(s)
      BY <1>4 DEF OpenIn
    <3> QED BY <1>1, <3>1 DEF EvidenceInv, Followed, Working
  <2>2. marker.record = r /\ marker.status = "running"
    BY <1>1 DEF MeasurementInv, Announced, Working, EvidenceInv, Statuses
  <2>3. \A d \in Caller : pc[d] \in Working => d = c
    BY <1>2 DEF Working
  <2>4. \A d \in Caller : pc[d] \notin {"record", "marked", "close"}
    BY <1>1, <1>2
  <2> QED BY <1>1, <1>3, <2>1, <2>2, <2>3, <2>4 DEF Followed, Resumable
<1> QED BY <1>3, <1>7, <1>10, <1>11, <1>12, <1>13, <1>14 DEF EvidenceInv

\* A measurement goes from repetition to repetition while they pass; where it stops, the
\* jobs decide the record or a job is pending, unless an answer was lost.
LEMMA EvidenceMeasurement ==
    ASSUME MeasurementInv, EvidenceInv, orphaned = 0, unread' = 0 => unread = 0,
           NEW c \in Caller, Measurement(c)
    PROVE  EvidenceInv'
<1> USE DEF task, spent, locals
<1>0. /\ pc \in [Caller -> Location] /\ at \in [Caller -> 0 .. MaxCalls]
      /\ repetition \in [Caller -> Repetition]
      /\ cacheable \in [Caller -> BOOLEAN] /\ pending \in [Caller -> BOOLEAN]
      /\ verdict \in [Record -> Verdict] /\ jobs \in [Record -> [Repetition -> Evidence]]
      /\ unread \in Nat
  BY MeasurementAssumption DEF MeasurementInv, TypeInv, TypeOK
<1>1. pc[c] \in Working \ {"mark"}
  BY DEF Measurement, Dispatch, Collect, WriteRecord, MarkPending, Close, Working
<1>2. at[c] \in Record /\ repetition[c] \in Repetition /\ marker.record = at[c]
  BY <1>1, AtRecord DEF MeasurementInv, Announced
<1>3. \A d \in Caller : d # c => pc[d] = "idle"
  BY <1>1, Sole DEF Working
<1>4. pc[c] # "wait" => executors = {}
  BY <1>3 DEF MeasurementInv, Alone
<1>5. unread = 0 => \A r \in Record : OpenIn(r) => r = at[c]
  BY <1>1 DEF EvidenceInv, Followed, Working
<1>6. pc[c] \in {"run", "wait", "record"} =>
          \A i \in 1 .. repetition[c] - 1 : jobs[at[c]][i] = "passed"
  BY DEF EvidenceInv, PassedSoFar
<1>7. CASE Dispatch(c)
  <2> DEFINE e == [record |-> at[c], repetition |-> repetition[c], owner |-> c,
                   death |-> 0, mem |-> jobs[at[c]][repetition[c]]]
  <2>1. /\ pc[c] = "run" /\ executors' = {e} /\ pc' = [pc EXCEPT ![c] = "wait"]
        /\ UNCHANGED <<marker, verdict, jobs, at, repetition, cacheable, pending, orphaned, unread>>
    BY <1>4, <1>7 DEF Dispatch
  <2>2. \A d \in Caller : pc'[d] = IF d = c THEN "wait" ELSE "idle"
    BY <1>0, <1>3, <2>1
  <2>3. e.owner = c /\ e.record = at[c] /\ e.repetition = repetition[c]
        /\ e.mem = jobs[at[c]][repetition[c]]
    OBVIOUS
  <2> HIDE DEF e
  <2>4. Bound'
    BY <2>1, <2>3 DEF Bound
  <2>5. PassedSoFar'
    BY <1>6, <2>1, <2>2 DEF PassedSoFar
  <2>6. Statuses'
    BY <2>1, <2>2 DEF EvidenceInv, Statuses
  <2>7. Judged' /\ InOrder'
    BY <2>1, <2>2 DEF EvidenceInv, Judged, Conclusive, InOrder
  <2>8. unread = 0 => Followed'
    BY <2>1, <2>2, <1>5 DEF EvidenceInv, Followed, OpenIn
  <2> QED BY <2>1, <2>4, <2>5, <2>6, <2>7, <2>8 DEF EvidenceInv
<1>8. CASE Collect(c)
  <2> DEFINE r == at[c]
             k == repetition[c]
             evidence == jobs[r][k]
  <2>1. pc[c] = "wait" /\ UNCHANGED <<marker, verdict, jobs, at, orphaned>>
    BY <1>8 DEF Collect
  <2>2. executors' = {}
    BY <1>8 DEF Collect, Ends, Own, MeasurementInv, Alone
  <2>3. PICK answered \in Answers(evidence) :
          /\ unread' = IF evidence = "passed" /\ ~ answered THEN unread + 1 ELSE unread
          /\ pending' = [pending EXCEPT ![c] = @ \/ evidence = "open"]
          /\ cacheable' = [cacheable EXCEPT ![c] =
                 @ /\ Counts(evidence) /\ (evidence = "passed" => answered)]
          /\ IF answered /\ Another(c, evidence)
             THEN /\ repetition' = [repetition EXCEPT ![c] = @ + 1]
                  /\ pc' = [pc EXCEPT ![c] = "run"]
             ELSE /\ pc' = [pc EXCEPT ![c] = "record"]
                  /\ UNCHANGED repetition
    BY <1>8, Zenon DEF Collect
  <2>4. \A i \in 1 .. k - 1 : jobs[r][i] = "passed"
    BY <1>6, <2>1
  <2>5. r \in Record /\ k \in Repetition /\ k \in Nat /\ k > 0
    BY <1>2, MeasurementAssumption DEF Repetition
  <2>6. \A d \in Caller : pc'[d] = IF d = c THEN pc'[c] ELSE "idle"
    BY <1>0, <1>3, <2>3
  <2>7. pc'[c] \in {"run", "record"}
    BY <1>0, <2>3
  <2>8. Bound' /\ InOrder'
    BY <2>1, <2>2 DEF Bound, EvidenceInv, InOrder
  <2>9. Statuses'
    BY <2>1, <2>6, <2>7 DEF EvidenceInv, Statuses
  <2>10. CASE answered /\ Another(c, evidence)
    <3>1. evidence = "passed" /\ pc'[c] = "run" /\ repetition'[c] = k + 1
          /\ unread' = unread
      BY <1>0, <2>3, <2>10 DEF Another
    <3>2. \A i \in 1 .. (k + 1) - 1 : jobs[r][i] = "passed"
      <4> TAKE i \in 1 .. (k + 1) - 1
      <4>1. i = k \/ i \in 1 .. k - 1
        BY <2>5
      <4> QED BY <2>4, <3>1, <4>1
    <3>3. PassedSoFar'
      BY <2>1, <2>6, <3>1, <3>2 DEF PassedSoFar
    <3>4. Judged'
      BY <2>1, <2>6, <3>1 DEF EvidenceInv, Judged, Conclusive
    <3>5. unread = 0 => Followed'
      <4>1. \A s \in Record : OpenIn(s)' => OpenIn(s)
        BY <2>1 DEF OpenIn
      <4>2. \A d \in Caller : pc'[d] \in Working => d = c
        BY <2>6 DEF Working
      <4>3. \A d \in Caller : pc'[d] \notin {"record", "marked", "close"}
        BY <2>6, <3>1
      <4> QED BY <1>5, <2>1, <4>1, <4>2, <4>3 DEF EvidenceInv, Followed
    <3> QED BY <2>1, <2>8, <2>9, <3>1, <3>3, <3>4, <3>5 DEF EvidenceInv
  <2>11. CASE ~ (answered /\ Another(c, evidence))
    <3>1. pc'[c] = "record" /\ repetition' = repetition
      BY <1>0, <2>3, <2>11
    <3>2. PassedSoFar'
      BY <2>1, <2>4, <2>6, <3>1 DEF PassedSoFar
    <3>3. answered /\ evidence = "passed" => k = Repetitions
      BY <2>5, <2>11, MeasurementAssumption DEF Another, Repetition
    <3>4. cacheable'[c] => evidence \in Complete /\ (evidence = "passed" => answered)
      BY <1>0, <2>3, Zenon DEF Counts
    <3>5. cacheable'[c] => Conclusive(r, k)
      BY <2>4, <3>3, <3>4 DEF Conclusive
    <3>6. Judged'
      <4>1. \A d \in Caller : pc'[d] = "record" => d = c
        BY <2>6
      <4>2. \A s \in Record : \A last \in Repetition : Conclusive(s, last)' = Conclusive(s, last)
        BY <2>1 DEF Conclusive
      <4>3. (pc[c] = "record" /\ cacheable[c])' => Conclusive(at[c], repetition[c])'
        BY <2>1, <2>5, <3>1, <3>5, <4>2
      <4>4. \A s \in Record : verdict'[s] = "cacheable" => \E last \in Repetition : Conclusive(s, last)'
        BY <2>1, <4>2 DEF EvidenceInv, Judged
      <4> QED BY <4>1, <4>3, <4>4 DEF Judged
    <3>7. unread' = 0 => Followed'
      <4> SUFFICES ASSUME unread' = 0 PROVE Followed'
        OBVIOUS
      <4>1. unread = 0 /\ (evidence = "passed" => answered)
        BY <1>0, <2>3
      <4>2. pending'[c] \/ evidence # "open"
        BY <1>0, <2>3, Zenon
      <4>3. ~ pending'[c] => ~ OpenIn(r)
        <5> SUFFICES ASSUME ~ pending'[c], NEW i \in Repetition, jobs[r][i] = "open"
                     PROVE  FALSE
          BY DEF OpenIn
        <5>1. evidence # "open"
          BY <4>2
        <5>2. i # k /\ i > k
          BY <2>4, <2>5, <5>1 DEF Repetition
        <5>3. evidence = "passed"
          BY <2>5, <5>2 DEF EvidenceInv, InOrder
        <5>4. k = Repetitions
          BY <3>3, <4>1, <5>3
        <5> QED BY <5>2, <5>4, MeasurementAssumption DEF Repetition
      <4>4. \A s \in Record : OpenIn(s)' => OpenIn(s)
        BY <2>1 DEF OpenIn
      <4>5. \A d \in Caller : pc'[d] # "idle" => d = c
        BY <2>6
      <4> QED BY <1>5, <2>1, <2>5, <4>1, <4>3, <4>4, <4>5 DEF EvidenceInv, Followed, Working
    <3> QED BY <2>1, <2>8, <2>9, <3>2, <3>6, <3>7 DEF EvidenceInv
  <2> QED BY <2>10, <2>11
<1>9. CASE WriteRecord(c)
  <2>1. PICK reusable \in {cacheable[c], FALSE} :
          /\ cacheable' = [cacheable EXCEPT ![c] = reusable]
          /\ verdict' = [verdict EXCEPT ![at[c]] =
                             IF reusable THEN "cacheable" ELSE "uncertain"]
    BY <1>9, Zenon DEF WriteRecord
  <2>2. pc[c] = "record" /\ pc' = [pc EXCEPT ![c] = "marked"] /\ executors' = {}
        /\ UNCHANGED <<marker, jobs, at, repetition, pending, orphaned, unread>>
    BY <1>4, <1>9 DEF WriteRecord
  <2>3. \A d \in Caller : pc'[d] = IF d = c THEN "marked" ELSE "idle"
    BY <1>0, <1>3, <2>2
  <2>4. verdict'[at[c]] = "cacheable" => Conclusive(at[c], repetition[c])
    <3>1. verdict'[at[c]] = "cacheable" => reusable
      BY <1>0, <1>2, <2>1
    <3>2. reusable => cacheable[c]
      BY <2>1
    <3> QED BY <2>2, <3>1, <3>2 DEF EvidenceInv, Judged
  <2>5. Judged'
    <3>1. \A s \in Record : s # at[c] => verdict'[s] = verdict[s]
      BY <1>0, <2>1
    <3>2. \A s \in Record : \A last \in Repetition : Conclusive(s, last)' = Conclusive(s, last)
      BY <2>2 DEF Conclusive
    <3>3. \A s \in Record : verdict'[s] = "cacheable" => \E last \in Repetition : Conclusive(s, last)'
      BY <1>2, <2>4, <3>1, <3>2 DEF EvidenceInv, Judged
    <3> QED BY <2>3, <3>3 DEF Judged
  <2>6. Bound' /\ InOrder' /\ PassedSoFar' /\ Statuses'
    BY <2>2, <2>3 DEF EvidenceInv, Bound, InOrder, PassedSoFar, Statuses
  <2>7. unread = 0 => Followed'
    BY <1>5, <2>2, <2>3 DEF EvidenceInv, Followed, OpenIn
  <2> QED BY <2>2, <2>5, <2>6, <2>7 DEF EvidenceInv
<1>10. CASE MarkPending(c) \/ Close(c)
  <2>1. pc[c] \in {"marked", "close"} /\ executors' = {}
        /\ UNCHANGED <<verdict, jobs, at, repetition, cacheable, pending, orphaned, unread>>
    BY <1>4, <1>10 DEF MarkPending, Close
  <2>2. marker'.record = at[c]
        /\ \/ marker'.status = "validation_pending" /\ pc' = [pc EXCEPT ![c] = "close"]
           \/ pc' = [pc EXCEPT ![c] = "leave"] /\ (pending[c] => marker'.status = "running")
    BY <1>10 DEF MarkPending, Close
  <2>3. \A d \in Caller : pc'[d] = IF d = c THEN pc'[c] ELSE "idle"
    BY <1>0, <1>3, <2>2
  <2>4. \/ pc'[c] = "close" /\ marker'.status = "validation_pending"
        \/ pc'[c] = "leave" /\ (pending[c] => marker'.status = "running")
    BY <1>0, <2>2
  <2>5. Bound' /\ InOrder' /\ PassedSoFar' /\ Statuses' /\ Judged'
    BY <2>1, <2>3, <2>4 DEF EvidenceInv, Bound, InOrder, PassedSoFar, Statuses, Judged, Conclusive
  <2>6. unread = 0 => Followed'
    <3> SUFFICES ASSUME unread = 0 PROVE Followed'
      OBVIOUS
    <3>1. ~ pending[c] => ~ OpenIn(at[c])
      BY <2>1 DEF EvidenceInv, Followed
    <3>2. \A r \in Record : OpenIn(r) =>
              marker'.record = r /\ marker'.status \in {"running", "validation_pending"}
      BY <1>2, <1>5, <2>2, <2>4, <3>1
    <3>3. \A s \in Record : OpenIn(s)' => OpenIn(s)
      BY <2>1 DEF OpenIn
    <3>4. \A d \in Caller : pc'[d] # "idle" => d = c
      BY <2>3
    <3> QED BY <1>2, <1>5, <2>1, <3>1, <3>2, <3>3, <3>4 DEF Followed, Resumable, Working
  <2> QED BY <2>1, <2>5, <2>6 DEF EvidenceInv
<1> QED BY <1>7, <1>8, <1>9, <1>10 DEF Measurement

\* The invariant holds of the store before its first request, and every step keeps it.
LEMMA EvidenceAlways == Spec => []EvidenceInv
<1>1. Init => EvidenceInv
  BY DEF Init, EvidenceInv, Bound, InOrder, PassedSoFar, Judged, Statuses, Followed, OpenIn,
         Working
<1>2. ASSUME MeasurementInv, EvidenceInv, [Next]_vars
      PROVE  EvidenceInv'
  <2> SUFFICES ASSUME orphaned' = 0 PROVE EvidenceInv'
    BY DEF EvidenceInv
  <2>1. orphaned = 0 /\ (unread' = 0 => unread = 0)
    BY <1>2, CountersGrow DEF MeasurementInv
  <2>2. CASE \E c \in Caller : Reservation(c) \/ Measurement(c) \/ Finish(c) \/ Abandon(c)
    BY <1>2, <2>1, <2>2, EvidenceReservation, EvidenceMeasurement, EvidenceLeave
       DEF Finish, Abandon
  <2>3. CASE \E e \in executors : Execution(e)
    <3> PICK e \in executors : Execution(e)
      BY <2>3
    <3>1. CASE JobOpens(e) \/ \E evidence \in Terminal : JobEnds(e, evidence)
      BY <1>2, <2>1, <3>1, EvidenceWrite DEF JobOpens, JobEnds, Evidence, Terminal, Complete
    <3>2. ~ OrphanEnds(e)
      BY <1>2, <2>1, MeasurementAssumption DEF OrphanEnds, MeasurementInv, Alone
    <3> QED BY <3>1, <3>2 DEF Execution
  <2>4. CASE Crash
    BY <1>2, <2>1, <2>4, EvidenceCrash
  <2>5. ~ Killed
    BY <2>1 DEF Killed
  <2>6. CASE UNCHANGED vars
    BY <1>2, <2>1, <2>6, EvidenceKept DEF vars, task, locals, spent
  <2> QED BY <1>2, <2>2, <2>3, <2>4, <2>5, <2>6 DEF Next
<1>3. MeasurementInv /\ EvidenceInv /\ [Next]_vars => EvidenceInv'
  BY <1>2
<1> QED BY <1>1, <1>3, MeasurementInvAlways, PTL DEF Spec

\* "An incomplete or rejected repetition cannot become a successful median": whatever
\* was resumed, lost or killed, a record that execute marks as cacheable rests on the
\* complete evidence of every repetition up to the last or up to the first rejection.
THEOREM VerdictsRestOnEvidence == Spec => []VerdictHasEvidence
<1>1. EvidenceInv => VerdictHasEvidence
  BY DEF EvidenceInv, Judged, Conclusive, VerdictHasEvidence
<1> QED BY <1>1, EvidenceAlways, PTL

\* A job that is not terminal is never left behind by a closed marker, wherever requests
\* failed, timed out or died, unless the answer of a passed repetition was lost (execute).
THEOREM JobsAreFollowed == Spec => []NothingAbandoned
<1>1. EvidenceInv => NothingAbandoned
  BY DEF EvidenceInv, Followed, OpenIn, NothingAbandoned, InterruptedJobIsResumed
<1> QED BY <1>1, EvidenceAlways, PTL
=============================================================================
