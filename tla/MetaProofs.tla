------------------------------ MODULE MetaProofs ------------------------------
(***************************************************************************)
(* The meta worker, for any number of workers, runs, bodies, attempts and  *)
(* states of the provider, with leases that end at any moment: snapshots   *)
(* are persisted in order and a run that is over stays as it is, in Sync   *)
(* alone and in the worker's loop; and what the callback admitted is never *)
(* found foreign, whichever snapshots are persisted meanwhile.             *)
(***************************************************************************)
EXTENDS MetaWorker, TLAPS

Row == [state : {"NONE", "QUEUED", "RUNNING", "SUCCEEDED", "FAILED"}, count : Nat,
        token : Workers \cup {Nil}, leaseLeft : Nat, waitLeft : Nat]
Place == [pc : {"idle", "claimed", "open"}, run : Runs \cup {Nil}, no : Nat, got : Results,
          seen : 0..MaxRemote, inTime : {"yes", "no"}]

TypeInv ==
    /\ run \in [Runs -> Row]
    /\ remote \in 1..MaxRemote /\ stored \in 0..MaxRemote
    /\ place \in [Workers -> Place]
    /\ \A w \in Workers : place[w].pc # "idle" => place[w].run \in Runs

\* The partial unique index; tokens are of runs under way.
OneActive == \A r, q \in Runs : run[r].state \in Active /\ run[q].state \in Active => r = q
Tokens    == \A r \in Runs : run[r].token # Nil => run[r].state = "RUNNING"
Settled   == \A r \in Runs : run[r].state \in Over => run[r].leaseLeft = 0 /\ run[r].waitLeft = 0

\* Who still holds the lease has read nothing older than what is stored.
HolderIsNewest ==
    /\ stored <= remote /\ \A w \in Workers : place[w].seen <= remote
    /\ \A w \in Workers :
          place[w].pc = "open" /\ place[w].got = "READ" /\ run[place[w].run].token = w =>
              stored <= place[w].seen

Inv == TypeInv /\ OneActive /\ Tokens /\ Settled /\ HolderIsNewest

Order == /\ stored' >= stored
         /\ \A r \in Runs : run[r].state \in Over => run'[r] = run[r]

\* The invariant and the property for the steps that change no row.
LEMMA RowsStay ==
    ASSUME Inv, UNCHANGED <<run, stored>>, TypeInv', stored' <= remote',
           \A w \in Workers : place'[w].seen <= remote',
           \A w \in Workers : place'[w] = place[w] \/ place'[w].pc # "open"
    PROVE  Inv' /\ Order
BY DEF Inv, TypeInv, OneActive, Tokens, Settled, HolderIsNewest, Order

LEMMA InitHolds == SyncInit => Inv
BY SyncAssumption DEF SyncInit, Inv, TypeInv, OneActive, Tokens, Settled, HolderIsNewest, Row, Place,
   NoRun, Away, Active, Over, Results

\* A row whose state is written by the one that holds or takes the only active run.
LEMMA OneRow ==
    ASSUME Inv, NEW r \in Runs, NEW row \in Row, run' = [run EXCEPT ![r] = row],
           run[r].state \notin Over, TypeInv',
           row.token # Nil => row.state = "RUNNING",
           row.state \in Over => row.leaseLeft = 0 /\ row.waitLeft = 0,
           row.state \in Active => \A q \in Runs : run[q].state \in Active => q = r
    PROVE  /\ OneActive' /\ Tokens' /\ Settled'
           /\ \A q \in Runs : run[q].state \in Over => run'[q] = run[q]
BY DEF Inv, TypeInv, OneActive, Tokens, Settled

LEMMA StepHolds == Inv /\ [SyncNext]_syncVars => Inv' /\ Order
<1> SUFFICES ASSUME Inv, [SyncNext]_syncVars PROVE Inv' /\ Order
    OBVIOUS
<1> USE SyncAssumption
<1>t. /\ run \in [Runs -> Row] /\ remote \in 1..MaxRemote /\ stored \in 0..MaxRemote
      /\ place \in [Workers -> Place]
      /\ \A w \in Workers : place[w].pc # "idle" => place[w].run \in Runs
    BY DEF Inv, TypeInv
<1>1. CASE Change
    <2>1. TypeInv' BY <1>1, <1>t DEF Change, TypeInv
    <2>2. stored' <= remote' /\ \A w \in Workers : place'[w].seen <= remote'
        BY <1>1, <1>t DEF Change, Inv, HolderIsNewest, Place
    <2> QED BY <1>1, <2>1, <2>2, RowsStay DEF Change
<1>2. CASE SyncTick
    <2>1. \A r \in Runs : /\ run'[r] = Aged(run[r]) /\ run'[r] \in Row
                          /\ run'[r].state = run[r].state /\ run'[r].token = run[r].token
                          /\ run[r].leaseLeft = 0 => run'[r].leaseLeft = 0
                          /\ run[r].waitLeft = 0 => run'[r].waitLeft = 0
                          /\ run[r].leaseLeft = 0 /\ run[r].waitLeft = 0 => run'[r] = run[r]
        <3> SUFFICES ASSUME NEW r \in Runs
                     PROVE  /\ run'[r] = Aged(run[r]) /\ run'[r] \in Row
                            /\ run'[r].state = run[r].state /\ run'[r].token = run[r].token
                            /\ run[r].leaseLeft = 0 => run'[r].leaseLeft = 0
                            /\ run[r].waitLeft = 0 => run'[r].waitLeft = 0
                            /\ run[r].leaseLeft = 0 /\ run[r].waitLeft = 0 => run'[r] = run[r]
            OBVIOUS
        <3>1. run[r] \in Row /\ run'[r] = Aged(run[r]) BY <1>2, <1>t DEF SyncTick
        <3>2. Aged(run[r]) = [state |-> run[r].state, count |-> run[r].count, token |-> run[r].token,
                              leaseLeft |-> Less(run[r].leaseLeft), waitLeft |-> Less(run[r].waitLeft)]
            BY <3>1 DEF Aged, Row
        <3>3. \A n \in Nat : Less(n) \in Nat /\ (n = 0 => Less(n) = 0) BY DEF Less
        <3>4. run[r].leaseLeft = 0 /\ run[r].waitLeft = 0 => Aged(run[r]) = run[r]
            BY <3>1, <3>2, <3>3 DEF Row
        <3>5. Aged(run[r]) \in Row BY <3>1, <3>2, <3>3 DEF Row
        <3> QED BY <3>1, <3>2, <3>3, <3>4, <3>5
    <2>2. TypeInv' BY <1>2, <1>t, <2>1 DEF SyncTick, TypeInv
    <2>3. OneActive' /\ Tokens' /\ Settled'
        BY <2>1 DEF Inv, OneActive, Tokens, Settled
    <2>4. UNCHANGED <<remote, stored, place>> BY <1>2 DEF SyncTick
    <2>5. HolderIsNewest' BY <1>t, <2>1, <2>4 DEF Inv, HolderIsNewest
    <2>6. Order BY <1>t, <2>1, <2>4 DEF Inv, Settled, Order
    <2> QED BY <2>2, <2>3, <2>5, <2>6 DEF Inv
<1>3. ASSUME NEW r \in Runs, Request(r) PROVE Inv' /\ Order
    <2> DEFINE row == [NoRun EXCEPT !.state = "QUEUED"]
    <2>1. /\ row \in Row /\ row.token = Nil /\ row.state = "QUEUED"
          /\ run' = [run EXCEPT ![r] = row] /\ run[r].state = "NONE"
          /\ \A q \in Runs : run[q].state \notin Active
        BY <1>3 DEF Request, Taken, NoRun, Row
    <2> HIDE DEF row
    <2>2. TypeInv' BY <1>3, <1>t, <2>1 DEF Request, TypeInv
    <2>3. /\ OneActive' /\ Tokens' /\ Settled'
          /\ \A q \in Runs : run[q].state \in Over => run'[q] = run[q]
        BY <2>1, <2>2, OneRow DEF Over
    <2>4. HolderIsNewest'
        BY <1>3, <1>t, <2>1 DEF Request, Inv, HolderIsNewest
    <2> QED BY <1>3, <1>t, <2>2, <2>3, <2>4 DEF Request, Inv, Order
<1>4. ASSUME NEW w \in Workers, NEW r \in Runs, Claim(w, r) PROVE Inv' /\ Order
    <2> DEFINE row == [NoRun EXCEPT !.state = "RUNNING", !.count = Attempt(r),
                                    !.token = w, !.leaseLeft = SyncLease]
               new == [pc |-> "claimed", run |-> r, no |-> Attempt(r), got |-> "READ", seen |-> 0,
                       inTime |-> "no"]
    <2>1. Attempt(r) \in Nat BY <1>t DEF Attempt, Row
    <2>2. /\ row \in Row /\ row.token = w /\ row.state = "RUNNING"
          /\ run' = [run EXCEPT ![r] = row] /\ run[r].state \in Active
        BY <1>4, <2>1 DEF Claim, Due, NoRun, Row, Active
    <2>3. /\ new \in Place /\ new.pc = "claimed" /\ new.run = r
          /\ place' = [place EXCEPT ![w] = new] /\ new.seen = 0
        <3>1. 0 \in 0..MaxRemote /\ "READ" \in Results BY DEF Results
        <3>2. new \in Place BY <2>1, <3>1 DEF Place
        <3> QED BY <1>4, <3>2 DEF Claim
    <2> HIDE DEF row, new
    <2>4. TypeInv' BY <1>4, <1>t, <2>2, <2>3 DEF Claim, TypeInv
    <2>5. /\ OneActive' /\ Tokens' /\ Settled'
          /\ \A q \in Runs : run[q].state \in Over => run'[q] = run[q]
        BY <2>2, <2>4, OneRow DEF Over, Active, Inv, OneActive
    <2>6. HolderIsNewest'
        BY <1>4, <1>t, <2>2, <2>3 DEF Claim, Inv, HolderIsNewest
    <2> QED BY <1>4, <1>t, <2>4, <2>5, <2>6 DEF Claim, Inv, Order
<1>5. ASSUME NEW w \in Workers, Read(w) PROVE Inv' /\ Order
    <2>1. PICK got \in Results :
             place' = [place EXCEPT ![w] =
                [pc |-> "open", run |-> place[w].run, no |-> place[w].no, got |-> got,
                 seen |-> IF got = "READ" THEN remote ELSE 0,
                 inTime |-> IF run[place[w].run].leaseLeft > 0 THEN "yes" ELSE "no"]]
        BY <1>5 DEF Read
    <2> DEFINE new == [pc |-> "open", run |-> place[w].run, no |-> place[w].no, got |-> got,
                       seen |-> IF got = "READ" THEN remote ELSE 0,
                       inTime |-> IF run[place[w].run].leaseLeft > 0 THEN "yes" ELSE "no"]
    <2>2. place' = [place EXCEPT ![w] = new] BY <2>1
    <2>3. new.seen \in 0..MaxRemote /\ new.seen <= remote BY <1>t
    <2>4. new \in Place BY <1>t, <2>3 DEF Place
    <2>5. new.pc = "open" /\ new.run = place[w].run /\ (new.got = "READ" => new.seen = remote)
        OBVIOUS
    <2>6. place[w].run \in Runs BY <1>5, <1>t DEF Read
    <2> HIDE DEF new
    <2>7. TypeInv' BY <1>5, <1>t, <2>2, <2>4, <2>5, <2>6 DEF Read, TypeInv
    <2>8. HolderIsNewest'
        BY <1>5, <1>t, <2>2, <2>3, <2>5 DEF Read, Inv, HolderIsNewest
    <2> QED BY <1>5, <1>t, <2>7, <2>8 DEF Read, Inv, OneActive, Tokens, Settled, Order
<1>6. ASSUME NEW w \in Workers, Leave(w) \/ Crash(w) PROVE Inv' /\ Order
    <2>1. place' = [place EXCEPT ![w] = Away] /\ UNCHANGED <<run, remote, stored>>
        BY <1>6 DEF Leave, Crash
    <2>2. Away \in Place /\ Away.pc = "idle" /\ Away.seen = 0 BY DEF Away, Place, Results
    <2>3. TypeInv' BY <1>t, <2>1, <2>2 DEF TypeInv
    <2> QED BY <1>t, <2>1, <2>2, <2>3, RowsStay DEF Inv, HolderIsNewest
<1>7. ASSUME NEW w \in Workers, Succeed(w) \/ GiveUp(w) PROVE Inv' /\ Order
    <2> DEFINE r == place[w].run
    <2>1. /\ r \in Runs /\ run[r].token = w /\ run[r].state = "RUNNING"
          /\ place' = [place EXCEPT ![w] = Away] /\ remote' = remote /\ place[w].pc = "open"
        BY <1>7, <1>t DEF Succeed, GiveUp, Holds, Inv, Tokens
    <2>2. PICK state \in {"SUCCEEDED", "FAILED", "QUEUED"}, wait \in Nat :
             /\ run' = [run EXCEPT ![r] = Closed(w, state, wait)]
             /\ state \in Over => wait = 0
        BY <1>7 DEF Succeed, GiveUp, Over
    <2> DEFINE row == Closed(w, state, wait)
    <2>3. /\ row \in Row /\ row.token = Nil /\ row.state = state
          /\ row.leaseLeft = 0 /\ row.waitLeft = wait /\ run' = [run EXCEPT ![r] = row]
        BY <1>t, <2>1, <2>2 DEF Closed, NoRun, Row
    <2>4. stored' \in stored..remote
        <3>1. place[w].got = "READ" => stored <= place[w].seen /\ place[w].seen <= remote
            BY <2>1 DEF Inv, HolderIsNewest
        <3>2. stored <= remote /\ place[w].seen \in 0..MaxRemote
            BY <1>t DEF Inv, HolderIsNewest, Place
        <3>3. stored' = stored \/ (place[w].got = "READ" /\ stored' = place[w].seen)
            BY <1>7 DEF Succeed, GiveUp
        <3> QED BY <1>t, <3>1, <3>2, <3>3
    <2>5. Away \in Place /\ Away.pc = "idle" /\ Away.seen = 0 BY DEF Away, Place, Results
    <2> HIDE DEF row
    <2>6. TypeInv' BY <1>t, <2>1, <2>3, <2>4, <2>5 DEF TypeInv
    <2>7. /\ OneActive' /\ Tokens' /\ Settled'
          /\ \A q \in Runs : run[q].state \in Over => run'[q] = run[q]
        <3>1. run[r].state \notin Over /\ \A q \in Runs : run[q].state \in Active => q = r
            BY <2>1 DEF Inv, OneActive, Active, Over
        <3>2. row.state \in Over => row.leaseLeft = 0 /\ row.waitLeft = 0
            BY <2>2, <2>3
        <3> QED BY <2>1, <2>3, <2>6, <3>1, <3>2, OneRow
    <2>8. \A v \in Workers : v # w => ~(place[v].pc = "open" /\ run'[place[v].run].token = v)
        <3> SUFFICES ASSUME NEW v \in Workers, v # w, place[v].pc = "open",
                            run'[place[v].run].token = v PROVE FALSE
            OBVIOUS
        <3>1. place[v].run \in Runs /\ v # Nil BY <1>t
        <3>2. place[v].run # r BY <1>t, <2>1, <2>3, <3>1
        <3>3. run[place[v].run].token = v BY <1>t, <2>1, <2>3, <3>1, <3>2
        <3> QED BY <2>1, <3>1, <3>2, <3>3 DEF Inv, Tokens, OneActive, Active
    <2>9. HolderIsNewest'
        BY <1>t, <2>1, <2>4, <2>5, <2>8 DEF Inv, HolderIsNewest
    <2> QED BY <1>t, <2>4, <2>6, <2>7, <2>9 DEF Inv, Order
<1>8. CASE UNCHANGED syncVars
    BY <1>8, <1>t DEF syncVars, Inv, TypeInv, OneActive, Tokens, Settled, HolderIsNewest, Order
<1> QED BY <1>1, <1>2, <1>3, <1>4, <1>5, <1>6, <1>7, <1>8 DEF SyncNext, SyncOne

\* The inductive invariant: one active run, tokens only on it, and its holder has
\* read nothing older than what is stored (sync.go:14-45).
THEOREM SyncInvariant == SyncSpec => []Inv
<1>1. Inv /\ [SyncNext]_syncVars => Inv' BY StepHolds
<1> QED BY InitHolds, <1>1, PTL DEF SyncSpec

\* SnapshotsInOrder (sync.go:38-45).
THEOREM InOrder == SyncSpec => SnapshotsInOrder
<1>1. Inv /\ [SyncNext]_syncVars => [Order]_syncVars BY StepHolds
<1> QED BY SyncInvariant, <1>1, PTL DEF SyncSpec, SnapshotsInOrder, Order

------------------------------------------------------------------------------
(* The worker's loop *)

\* Each step of the loop is a step of Sync, or leaves the runs and snapshots alone.
LEMMA StepsAreSync ==
    ASSUME [Next]_vars
    PROVE  [SyncNext]_syncVars \/ UNCHANGED <<run, remote, stored, place>>
<1>1. ASSUME NEW w \in Workers, SyncTurn(w) PROVE SyncNext
    BY <1>1 DEF SyncTurn, SyncNext, SyncOne
<1>2. ASSUME NEW w \in Workers, SkipSync(w) \/ ProcessTurn(w) \/ SkipProcess(w) \/ PurgeTurn(w)
      PROVE  UNCHANGED <<run, remote, stored, place>>
    BY <1>2 DEF SkipSync, ProcessTurn, SkipProcess, PurgeTurn, syncVars, runVars
<1>3. ASSUME NEW w \in Workers, Fails(w)
      PROVE  SyncNext \/ UNCHANGED <<run, remote, stored, place>>
    BY <1>3 DEF Fails, SyncNext, runVars
<1>4. Requests \/ Changed \/ SyncAges => SyncNext
    BY DEF Requests, Changed, SyncAges, SyncNext
<1>5. EventAges => UNCHANGED <<run, remote, stored, place>> BY DEF EventAges, runVars
<1>6. ASSUME NEW b \in Bodies, Outside(b) \/ Inbox(b) PROVE UNCHANGED <<run, remote, stored, place>>
    BY <1>6 DEF Outside, Inbox, runVars
<1>7. UNCHANGED vars => UNCHANGED <<run, remote, stored, place>> BY DEF vars, syncVars
<1> QED BY <1>1, <1>2, <1>3, <1>4, <1>5, <1>6, <1>7 DEF Next, Step

LEMMA LoopHolds == Inv /\ [Next]_vars => Inv' /\ Order
<1> SUFFICES ASSUME Inv, [Next]_vars PROVE Inv' /\ Order
    OBVIOUS
<1>1. CASE [SyncNext]_syncVars BY <1>1, StepHolds
<1>2. CASE UNCHANGED <<run, remote, stored, place>>
    BY <1>2 DEF Inv, TypeInv, OneActive, Tokens, Settled, HolderIsNewest, Order
<1> QED BY <1>1, <1>2, StepsAreSync

\* The inductive invariant of Sync is one of the whole loop: nothing the worker does
\* with webhook bodies touches what it rests on (service.go:272-298).
THEOREM LoopInvariant == Spec => []Inv
<1>1. Init => Inv BY InitHolds DEF Init
<1>2. Inv /\ [Next]_vars => Inv' BY LoopHolds
<1> QED BY <1>1, <1>2, PTL DEF Spec

\* SnapshotsInOrder of the worker that also processes bodies (sync.go:38-45,
\* service.go:272-298).
THEOREM LoopInOrder == Spec => SnapshotsInOrder
<1>1. Inv /\ [Next]_vars => [Order]_syncVars BY LoopHolds
<1> QED BY LoopInvariant, <1>1, PTL DEF Spec, SnapshotsInOrder, Order

------------------------------------------------------------------------------
(* Admission *)

Body == [state : W!EventState, gen : Nat, count : Nat, token : Workers \cup {Nil},
         leaseLeft : Nat, waitLeft : Nat]
Task == [pc : {"idle", "claimed", "open"}, job : Bodies \cup {Nil}, gen : Nat, no : Nat,
         sealed : BOOLEAN, inTime : BOOLEAN]

EventTypes ==
    /\ event \in [Bodies -> Body]
    /\ at \in [Workers -> Task]
    /\ \A w \in Workers : at[w].pc # "idle" => at[w].job \in Bodies

\* A token stands for a row in processing, an admitted row for known assets: the
\* assets that are known never become fewer.
Fenced  == \A b \in Bodies : event[b].token # Nil => event[b].state = "PROCESSING"
Covered == \A b \in Bodies :
              event[b].state \notin {"NONE", "QUARANTINED"} => AssetsOf[b] \subseteq known

Admission == EventTypes /\ Fenced /\ Covered /\ AdmittedStaysAdmitted

\* Synchronisations, the purge, the inbox: the events stay, assets are only added.
LEMMA EventsStay ==
    ASSUME Admission, UNCHANGED <<event, at, attempts>>, known \subseteq known'
    PROVE  Admission'
BY DEF Admission, EventTypes, Fenced, Covered, AdmittedStaysAdmitted, W!AdmittedStaysAdmitted

\* A row is written anew by someone who may.
LEMMA RowWritten ==
    ASSUME Admission, NEW b \in Bodies, NEW row \in Body, event' = [event EXCEPT ![b] = row],
           row.token # Nil => row.state = "PROCESSING",
           row.state \notin {"NONE", "QUARANTINED"} => AssetsOf[b] \subseteq known,
           known' = known,
           at' \in [Workers -> Task], \A w \in Workers : at'[w].pc # "idle" => at'[w].job \in Bodies,
           \A a \in attempts' : a \in attempts \/ a.result # "QUARANTINED"
    PROVE  Admission'
BY DEF Admission, EventTypes, Fenced, Covered, AdmittedStaysAdmitted, W!AdmittedStaysAdmitted

LEMMA IdleTask == W!Idle \in Task /\ W!Idle.pc = "idle"
BY DEF W!Idle, Task

\* The callback, a replay, the clock.
LEMMA ReceiveAdmits == ASSUME Admission, NEW b \in Bodies, W!Receive(b) PROVE Admission'
<1>1. event \in [Bodies -> Body] /\ event[b] \in Body /\ UNCHANGED <<at, attempts, known>>
    BY DEF W!Receive, Admission, EventTypes
<1>2. CASE event[b] = W!NoEvent
    <2> DEFINE row == [W!NoEvent EXCEPT !.state = W!Admitted(b)]
    <2>1. /\ row \in Body /\ row.token = Nil /\ row.state = W!Admitted(b)
        BY DEF W!NoEvent, W!Admitted, W!EventState, Body
    <2>2. event' = [event EXCEPT ![b] = row] BY <1>2 DEF W!Receive, W!Stored
    <2>3. row.state \notin {"NONE", "QUARANTINED"} => AssetsOf[b] \subseteq known
        BY <2>1 DEF W!Admitted
    <2> HIDE DEF row
    <2> QED BY <1>1, <2>1, <2>2, <2>3, RowWritten DEF Admission, EventTypes
<1>3. CASE event[b] # W!NoEvent
    <2>1. event' = event BY <1>1, <1>3 DEF W!Receive, W!Stored
    <2> QED BY <1>1, <2>1, EventsStay
<1> QED BY <1>2, <1>3

LEMMA ReplayAdmits == ASSUME Admission, NEW b \in Bodies, W!Replay(b) PROVE Admission'
<1> DEFINE row == [W!NoEvent EXCEPT !.state = "QUEUED", !.gen = W!Generation(b)]
<1>1. event[b] \in Body /\ UNCHANGED <<at, attempts, known>>
    BY DEF W!Replay, Admission, EventTypes
<1>2. row \in Body /\ row.token = Nil
    <2>1. W!Generation(b) \in Nat BY <1>1 DEF W!Generation, Body
    <2> QED BY <2>1 DEF W!NoEvent, W!EventState, Body
<1>3. AssetsOf[b] \subseteq known BY DEF W!Replay, W!Ended, W!Written, Admission, Covered
<1>4. event' = [event EXCEPT ![b] = row] BY DEF W!Replay
<1> HIDE DEF row
<1> QED BY <1>1, <1>2, <1>3, <1>4, RowWritten DEF Admission, EventTypes

LEMMA TickAdmits == ASSUME Admission, W!Tick PROVE Admission'
<1>1. UNCHANGED <<at, attempts, known>> BY DEF W!Tick
<1>2. \A b \in Bodies : /\ event'[b] \in Body
                        /\ UNCHANGED <<event[b].state, event[b].token>>
    <2> TAKE b \in Bodies
    <2>1. event[b] \in Body BY DEF Admission, EventTypes
    <2>2. event'[b] = [event[b] EXCEPT !.leaseLeft = W!Before(event[b].leaseLeft),
                                       !.waitLeft = W!Before(event[b].waitLeft)]
        BY <2>1 DEF W!Tick, Body
    <2>3. W!Before(event[b].leaseLeft) \in Nat /\ W!Before(event[b].waitLeft) \in Nat
        BY <2>1 DEF W!Before, Body
    <2> QED BY <2>1, <2>2, <2>3 DEF Body
<1>3. event' = [b \in Bodies |-> event'[b]] BY DEF W!Tick
<1>4. event' \in [Bodies -> Body] BY <1>2, <1>3
<1> QED BY <1>1, <1>2, <1>4 DEF Admission, EventTypes, Fenced, Covered, AdmittedStaysAdmitted,
                                W!AdmittedStaysAdmitted

\* A claim gives the row a token, and only rows that were admitted are claimed.
LEMMA ClaimAdmits ==
    ASSUME Admission, NEW w \in Workers, NEW b \in Bodies, W!Claim(w, b)
    PROVE  Admission'
<1> DEFINE row == [event[b] EXCEPT !.state = "PROCESSING", !.count = W!Next1(event[b].count),
                                   !.token = w, !.leaseLeft = LeaseTicks]
           task == [pc |-> "claimed", job |-> b, gen |-> event[b].gen, no |-> W!Next1(event[b].count),
                    sealed |-> evidence[b] # "PURGED", inTime |-> FALSE]
<1>1. /\ event \in [Bodies -> Body] /\ at \in [Workers -> Task] /\ event[b] \in Body
      /\ UNCHANGED <<attempts, known>>
    BY DEF W!Claim, Admission, EventTypes
<1>2. W!Next1(event[b].count) \in Nat BY <1>1 DEF W!Next1, Body
<1>3. row \in Body /\ row.token = w /\ row.state = "PROCESSING"
    <2>1. LeaseTicks \in Nat /\ "PROCESSING" \in W!EventState BY MetaAssumption DEF W!EventState
    <2> QED BY <1>1, <1>2, <2>1 DEF Body
<1>4. task \in Task /\ task.job = b
    <2>1. \A t \in BOOLEAN : [pc |-> "claimed", job |-> b, gen |-> event[b].gen,
                               no |-> W!Next1(event[b].count), sealed |-> t, inTime |-> FALSE] \in Task
        BY <1>1, <1>2 DEF Task, Body
    <2>2. (evidence[b] # "PURGED") \in BOOLEAN OBVIOUS
    <2> QED BY <2>1, <2>2, Zenon
<1>5. event' = [event EXCEPT ![b] = row] /\ at' = [at EXCEPT ![w] = task]
    BY <1>1 DEF W!Claim, Body
<1>6. AssetsOf[b] \subseteq known BY DEF W!Claim, W!Due, Admission, Covered
<1> HIDE DEF row, task
<1>7. /\ at' \in [Workers -> Task]
      /\ \A v \in Workers : at'[v].pc # "idle" => at'[v].job \in Bodies
    BY <1>1, <1>4, <1>5 DEF Admission, EventTypes
<1> QED BY <1>1, <1>3, <1>5, <1>6, <1>7, RowWritten

\* A worker opens its transaction, loses the lease, or dies.
LEMMA WorkerAdmits ==
    ASSUME Admission, NEW w \in Workers, W!Begin(w) \/ W!Lose(w) \/ W!Fault(w)
    PROVE  Admission'
<1>1. UNCHANGED <<event, attempts, known>> BY DEF W!Begin, W!Lose, W!Fault, W!rowVars
<1>2. at \in [Workers -> Task] /\ at[w] \in Task BY DEF Admission, EventTypes
<1>3. /\ at' \in [Workers -> Task]
      /\ \A v \in Workers : at'[v].pc # "idle" => at'[v].job \in Bodies
    <2>1. CASE W!Begin(w)
        <3> DEFINE task == [at[w] EXCEPT !.pc = "open", !.inTime = event[at[w].job].leaseLeft > 0]
        <3>1. \A t \in BOOLEAN : [at[w] EXCEPT !.pc = "open", !.inTime = t] \in Task
            BY <1>2 DEF Task
        <3>2. (event[at[w].job].leaseLeft > 0) \in BOOLEAN OBVIOUS
        <3>3. task \in Task BY <3>1, <3>2, Zenon
        <3>4. at' = [at EXCEPT ![w] = task] BY <1>2, <2>1 DEF W!Begin
        <3>5. task.job = at[w].job /\ at[w].job \in Bodies
            BY <1>2, <2>1 DEF W!Begin, Task, Admission, EventTypes
        <3> HIDE DEF task
        <3> QED BY <1>2, <3>3, <3>4, <3>5 DEF Admission, EventTypes
    <2>2. CASE W!Lose(w) \/ W!Fault(w)
        <3>1. at' = [at EXCEPT ![w] = W!Idle] BY <2>2 DEF W!Lose, W!Fault
        <3> QED BY <1>2, <3>1, IdleTask DEF Admission, EventTypes
    <2> QED BY <2>1, <2>2
<1> QED BY <1>1, <1>3 DEF Admission, EventTypes, Fenced, Covered, AdmittedStaysAdmitted,
                          W!AdmittedStaysAdmitted

\* Who holds the row's token concludes an admitted body: its assets are known, so it
\* is not found foreign.
LEMMA ConcludeAdmits ==
    ASSUME Admission, NEW w \in Workers, NEW err \in BOOLEAN,
           at[w].pc = "open", W!Matches(w), W!Conclude(w, err)
    PROVE  Admission'
<1>0. PICK b : b = at[w].job OBVIOUS
<1> DEFINE s == W!Verdict(w, err)
           row == [event[b] EXCEPT !.state = s, !.token = Nil, !.leaseLeft = 0, !.waitLeft = RetryTicks]
<1>1. /\ event \in [Bodies -> Body] /\ at \in [Workers -> Task] /\ b \in Bodies /\ event[b] \in Body
      /\ event[b].state = "PROCESSING"
    BY <1>0, SyncAssumption DEF Admission, EventTypes, Fenced, W!Matches
<1>2. AssetsOf[b] \subseteq known BY <1>1 DEF Admission, Covered
<1>3. s \in W!EventState \ {"NONE", "QUARANTINED"}
    <2>1. W!Classified(w) \in {"PROCESSED", "UNKNOWN", "INVALID", "DEAD_LETTER"}
        BY <1>0, <1>1, MetaAssumption DEF W!Classified
    <2>2. s = W!Classified(w) \/ s \in {"DEAD_LETTER", "RETRY_WAIT"}
        <3>1. CASE W!Classified(w) \notin W!Written BY <1>0, <1>2, <3>1 DEF W!Verdict
        <3>2. CASE W!Classified(w) \in W!Written /\ ~err BY <1>0, <1>2, <3>2 DEF W!Verdict
        <3>3. CASE W!Classified(w) \in W!Written /\ err
            <4>1. s = IF at[w].no >= EventAttempts THEN "DEAD_LETTER" ELSE "RETRY_WAIT"
                BY <1>0, <1>2, <3>3 DEF W!Verdict
            <4> QED BY <4>1
        <3> QED BY <3>1, <3>2, <3>3
    <2> QED BY <2>1, <2>2 DEF W!EventState
<1>4. /\ attempts' = attempts \cup {[body |-> b, gen |-> at[w].gen, no |-> at[w].no, result |-> s]}
      /\ at' = [at EXCEPT ![w] = W!Idle] /\ known' = known
    BY <1>0 DEF W!Conclude
<1>5. event' = [event EXCEPT ![b] = row] BY <1>0, <1>1 DEF W!Conclude, Body
<1>6. row \in Body /\ row.token = Nil
    <2>1. RetryTicks \in Nat BY MetaAssumption
    <2> QED BY <1>1, <1>3, <2>1 DEF Body
<1> HIDE DEF s, row
<1>7. /\ at' \in [Workers -> Task]
      /\ \A v \in Workers : at'[v].pc # "idle" => at'[v].job \in Bodies
    BY <1>1, <1>4, IdleTask DEF Admission, EventTypes
<1>8. \A a \in attempts' : a \in attempts \/ a.result # "QUARANTINED" BY <1>3, <1>4
<1> QED BY <1>1, <1>2, <1>4, <1>5, <1>6, <1>7, <1>8, RowWritten

LEMMA LoopAdmits == Admission /\ [Next]_vars => Admission'
<1> SUFFICES ASSUME Admission, [Next]_vars PROVE Admission'
    OBVIOUS
<1>1. ASSUME UNCHANGED eventVars, known \subseteq known' PROVE Admission'
    BY <1>1, EventsStay DEF eventVars
<1>2. ASSUME NEW w \in Workers, SyncTurn(w) \/ SkipSync(w) PROVE Admission'
    <2>1. UNCHANGED eventVars BY <1>2 DEF SyncTurn, SkipSync
    <2>2. known \subseteq known'
        BY <1>2 DEF SyncTurn, SkipSync, Claim, Read, Succeed, Kept, GiveUp, Leave, syncVars
    <2> QED BY <1>1, <2>1, <2>2
<1>3. ASSUME NEW w \in Workers, ProcessTurn(w) PROVE Admission'
    BY <1>3, ClaimAdmits, WorkerAdmits, ConcludeAdmits DEF ProcessTurn, W!Finish, W!FinishError
<1>4. ASSUME NEW w \in Workers, SkipProcess(w) \/ PurgeTurn(w) PROVE Admission'
    BY <1>4, EventsStay DEF SkipProcess, PurgeTurn, W!Purge, W!rowVars, eventVars, syncVars
<1>5. ASSUME NEW w \in Workers, Fails(w) PROVE Admission'
    BY <1>5, <1>1, WorkerAdmits DEF Fails, Crash
<1>6. ASSUME Requests \/ Changed \/ SyncAges PROVE Admission'
    BY <1>6, <1>1 DEF Requests, Changed, SyncAges, Request, Change, SyncTick
<1>7. ASSUME EventAges PROVE Admission'
    BY <1>7, TickAdmits DEF EventAges
<1>8. ASSUME NEW b \in Bodies, Outside(b) \/ Inbox(b) PROVE Admission'
    <2>1. W!Expire(b) \/ W!Materialize(b) => Admission'
        BY EventsStay DEF W!Expire, W!Materialize, W!rowVars
    <2> QED BY <1>8, <2>1, ReceiveAdmits, ReplayAdmits DEF Outside, Inbox
<1>9. CASE UNCHANGED vars BY <1>1, <1>9 DEF vars, syncVars
<1> QED BY <1>2, <1>3, <1>4, <1>5, <1>6, <1>7, <1>8, <1>9 DEF Next, Step

\* What was admitted is never found foreign, whichever snapshots are persisted
\* between the callback and the processor (webhook.go:172-191, processor.go:150-170,
\* sync.go:80-102).
THEOREM LoopAdmission == Spec => []AdmittedStaysAdmitted
<1>1. Init => Admission
    <2>1. W!NoEvent \in Body /\ W!NoEvent.token = Nil /\ W!NoEvent.state = "NONE"
        BY DEF W!NoEvent, Body, W!EventState
    <2> QED BY <2>1, IdleTask DEF Init, W!Init, Admission, EventTypes, Fenced, Covered,
                                  AdmittedStaysAdmitted, W!AdmittedStaysAdmitted
<1>2. Admission => AdmittedStaysAdmitted BY DEF Admission
<1> QED BY <1>1, <1>2, LoopAdmits, PTL DEF Spec
==============================================================================
