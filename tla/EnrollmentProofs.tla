--------------------------- MODULE EnrollmentProofs ---------------------------
(***************************************************************************)
(* Roster keeps its invariants, and Enrollment implements Roster, for any  *)
(* accounts, classes, number of concurrent calls and length of trail.      *)
(***************************************************************************)
EXTENDS Enrollment, SequenceTheorems, TLAPS

-------------------------------------------------------------------------------
(* The abstract roster. *)

RosterInv ==
  /\ RosterTypeOK
  /\ RowsBelongToLiveClasses
  /\ TrailAlternates
  /\ TrailReplaysToRoster
  /\ TrailActorsAllowed

\* Init and every step of Roster keep the types.
LEMMA RosterInitInv == Init => RosterInv
  BY DEF Init, RosterInv, RosterTypeOK, RowsBelongToLiveClasses, TrailAlternates,
         TrailReplaysToRoster, TrailActorsAllowed, Live, Pairs

\* A trail is a finite sequence of events.
LEMMA TrailIsSequence ==
  RosterTypeOK => \A p \in Pairs : audit[p] \in Seq(Events) /\ Len(audit[p]) \in Nat
  BY DEF RosterTypeOK

\* Recording an event appends it to the trail of one membership only.
LEMMA LogAppends ==
  ASSUME RosterTypeOK, NEW p \in Pairs, NEW a \in Users, NEW ch \in Changes,
         Log(p, a, ch)
  PROVE  /\ audit' \in [Pairs -> Seq(Events)]
         /\ \A q \in Pairs : q # p => audit'[q] = audit[q]
         /\ Len(audit'[p]) = Len(audit[p]) + 1
         /\ \A i \in 1..Len(audit[p]) : audit'[p][i] = audit[p][i]
         /\ audit'[p][Len(audit[p]) + 1] = [actor |-> a, change |-> ch]
  <1>1. [actor |-> a, change |-> ch] \in Events
    BY DEF Events
  <1>2. audit[p] \in Seq(Events)
    BY DEF RosterTypeOK
  <1>3. audit'[p] = Append(audit[p], [actor |-> a, change |-> ch])
    BY DEF Log, RosterTypeOK
  <1>4. audit' \in [Pairs -> Seq(Events)]
    BY <1>1 DEF Log, RosterTypeOK
  <1> QED
    BY <1>1, <1>2, <1>3, <1>4 DEF Log, RosterTypeOK

\* Arithmetic of alternation.
LEMMA Parity ==
  \A n \in Nat : /\ n % 2 = 0 <=> ~(n % 2 = 1)
                 /\ (n + 1) % 2 = 1 <=> n % 2 = 0
  OBVIOUS

\* A trail alternates on when the event recorded is the one whose turn it is.
LEMMA TrailKeepsAlternating ==
  ASSUME RosterTypeOK, TrailAlternates,
         NEW p \in Pairs, NEW a \in Users, NEW ch \in Changes, Log(p, a, ch),
         ch = IF Len(audit[p]) % 2 = 0 THEN "added" ELSE "removed"
  PROVE  TrailAlternates'
  <1> SUFFICES ASSUME NEW q \in Pairs, NEW i \in 1..Len(audit'[q])
               PROVE  audit'[q][i].change = IF i % 2 = 1 THEN "added" ELSE "removed"
    BY DEF TrailAlternates
  <1>0. /\ \A r \in Pairs : r # p => audit'[r] = audit[r]
        /\ Len(audit'[p]) = Len(audit[p]) + 1
        /\ \A j \in 1..Len(audit[p]) : audit'[p][j] = audit[p][j]
        /\ audit'[p][Len(audit[p]) + 1] = [actor |-> a, change |-> ch]
    BY LogAppends
  <1>1. Len(audit[p]) \in Nat
    BY TrailIsSequence
  <1>2. CASE q # p
    <2>1. audit'[q] = audit[q]
      BY <1>0, <1>2
    <2> QED BY <2>1 DEF TrailAlternates
  <1>3. CASE q = p /\ i # Len(audit[p]) + 1
    <2>1. i \in 1..Len(audit[p]) /\ audit'[q][i] = audit[q][i]
      BY <1>0, <1>1, <1>3
    <2> QED BY <1>3, <2>1 DEF TrailAlternates
  <1>4. CASE q = p /\ i = Len(audit[p]) + 1
    <2>0. audit'[q][i] = [actor |-> a, change |-> ch]
      BY <1>0, <1>4
    <2>1. audit'[q][i].change = ch
      BY <2>0
    <2>2. i % 2 = 1 <=> Len(audit[p]) % 2 = 0
      BY <1>1, <1>4, Parity
    <2> QED BY <2>1, <2>2
  <1> QED BY <1>2, <1>3, <1>4

\* The trail names allowed actors as long as each new event does.
LEMMA TrailKeepsActors ==
  ASSUME RosterTypeOK, TrailActorsAllowed,
         NEW p \in Pairs, NEW a \in Users, NEW ch \in Changes, Log(p, a, ch),
         a \in Managers(p[1]) \/ (ch = "removed" /\ a = p[2])
  PROVE  TrailActorsAllowed'
  <1> SUFFICES ASSUME NEW q \in Pairs, NEW i \in 1..Len(audit'[q])
               PROVE  \/ audit'[q][i].actor \in Managers(q[1])
                      \/ audit'[q][i].change = "removed" /\ audit'[q][i].actor = q[2]
    BY DEF TrailActorsAllowed, Managers
  <1>0. /\ \A r \in Pairs : r # p => audit'[r] = audit[r]
        /\ Len(audit'[p]) = Len(audit[p]) + 1
        /\ \A j \in 1..Len(audit[p]) : audit'[p][j] = audit[p][j]
        /\ audit'[p][Len(audit[p]) + 1] = [actor |-> a, change |-> ch]
    BY LogAppends
  <1>1. Len(audit[p]) \in Nat
    BY TrailIsSequence
  <1>2. CASE q # p
    <2>1. audit'[q] = audit[q]
      BY <1>0, <1>2
    <2> QED BY <2>1 DEF TrailActorsAllowed
  <1>3. CASE q = p /\ i # Len(audit[p]) + 1
    <2>1. i \in 1..Len(audit[p]) /\ audit'[q][i] = audit[q][i]
      BY <1>0, <1>1, <1>3
    <2> QED BY <1>3, <2>1 DEF TrailActorsAllowed
  <1>4. CASE q = p /\ i = Len(audit[p]) + 1
    <2>1. audit'[q][i] = [actor |-> a, change |-> ch]
      BY <1>0, <1>4
    <2> QED BY <1>4, <2>1
  <1> QED BY <1>2, <1>3, <1>4

\* An enrolment is recorded exactly when the trail said "not a member".
LEMMA JoinInv ==
  ASSUME RosterInv, NEW c \in Classes, NEW s \in Students, NEW a \in Managers(c),
         Join(c, s, a)
  PROVE  RosterInv'
  <1>1. /\ <<c, s>> \in Pairs /\ a \in Users /\ "added" \in Changes
        /\ Log(<<c, s>>, a, "added")
    BY DEF Pairs, Managers, Changes, Join
  <1>2. /\ RosterTypeOK /\ RowsBelongToLiveClasses /\ TrailAlternates
        /\ TrailReplaysToRoster /\ TrailActorsAllowed
    BY DEF RosterInv
  <1>3. /\ status' = status /\ members' = members \cup {<<c, s>>}
        /\ pending' \subseteq pending
        /\ Live(c) /\ <<c, s>> \notin members
    BY DEF Join
  <1>4. Len(audit[<<c, s>>]) \in Nat
    BY <1>1, <1>2, TrailIsSequence
  <1>a. /\ audit' \in [Pairs -> Seq(Events)]
        /\ \A q \in Pairs : q # <<c, s>> => audit'[q] = audit[q]
        /\ Len(audit'[<<c, s>>]) = Len(audit[<<c, s>>]) + 1
    BY <1>1, <1>2, LogAppends
  <1>5. Len(audit[<<c, s>>]) % 2 = 0
    <2>1. ~(Len(audit[<<c, s>>]) % 2 = 1)
      BY <1>1, <1>2, <1>3 DEF TrailReplaysToRoster, Live
    <2> QED BY <2>1, <1>4, Parity
  <1>6. RosterTypeOK'
    BY <1>1, <1>2, <1>3, <1>a DEF RosterTypeOK
  <1>7. RowsBelongToLiveClasses'
    BY <1>2, <1>3 DEF RowsBelongToLiveClasses, Live
  <1>b. "added" = IF Len(audit[<<c, s>>]) % 2 = 0 THEN "added" ELSE "removed"
    BY <1>4, <1>5, Parity
  <1>8. TrailAlternates'
    BY <1>1, <1>2, <1>b, TrailKeepsAlternating
  <1>9. TrailReplaysToRoster'
    <2> SUFFICES ASSUME NEW q \in Pairs, status[q[1]] # "deleted"
                 PROVE  q \in members' <=> Len(audit'[q]) % 2 = 1
      BY <1>3 DEF TrailReplaysToRoster
    <2>1. CASE q # <<c, s>>
      BY <2>1, <1>2, <1>3, <1>a DEF TrailReplaysToRoster
    <2>2. CASE q = <<c, s>>
      <3>1. Len(audit'[q]) % 2 = 1 <=> TRUE
        BY <2>2, <1>4, <1>5, <1>a, Parity
      <3> QED BY <2>2, <3>1, <1>3
    <2> QED BY <2>1, <2>2
  <1>10. TrailActorsAllowed'
    BY <1>1, <1>2, TrailKeepsActors
  <1> QED BY <1>6, <1>7, <1>8, <1>9, <1>10 DEF RosterInv

\* A removal is recorded exactly when the trail said "member".
LEMMA LeaveInv ==
  ASSUME RosterInv, NEW c \in Classes, NEW s \in Students,
         NEW a \in Managers(c) \cup {s}, Leave(c, s, a)
  PROVE  RosterInv'
  <1>1. /\ <<c, s>> \in Pairs /\ a \in Users /\ "removed" \in Changes
        /\ Log(<<c, s>>, a, "removed")
    BY StudentsAssumption DEF Pairs, Managers, Changes, Leave
  <1>2. /\ RosterTypeOK /\ RowsBelongToLiveClasses /\ TrailAlternates
        /\ TrailReplaysToRoster /\ TrailActorsAllowed
    BY DEF RosterInv
  <1>3. /\ status' = status /\ members' = members \ {<<c, s>>}
        /\ pending' = pending
        /\ <<c, s>> \in members
    BY DEF Leave
  <1>4. Len(audit[<<c, s>>]) \in Nat
    BY <1>1, <1>2, TrailIsSequence
  <1>a. /\ audit' \in [Pairs -> Seq(Events)]
        /\ \A q \in Pairs : q # <<c, s>> => audit'[q] = audit[q]
        /\ Len(audit'[<<c, s>>]) = Len(audit[<<c, s>>]) + 1
    BY <1>1, <1>2, LogAppends
  <1>5. Len(audit[<<c, s>>]) % 2 = 1
    <2>1. Live(c)
      BY <1>2, <1>3 DEF RowsBelongToLiveClasses
    <2> QED BY <1>1, <1>2, <1>3, <2>1 DEF TrailReplaysToRoster, Live
  <1>6. RosterTypeOK'
    BY <1>1, <1>2, <1>3, <1>a DEF RosterTypeOK
  <1>7. RowsBelongToLiveClasses'
    BY <1>2, <1>3 DEF RowsBelongToLiveClasses, Live
  <1>b. "removed" = IF Len(audit[<<c, s>>]) % 2 = 0 THEN "added" ELSE "removed"
    <2>1. ~(Len(audit[<<c, s>>]) % 2 = 0)
      BY <1>4, <1>5, Parity, Zenon
    <2> QED BY <2>1
  <1>8. TrailAlternates'
    BY <1>1, <1>2, <1>b, TrailKeepsAlternating
  <1>9. TrailReplaysToRoster'
    <2> SUFFICES ASSUME NEW q \in Pairs, status[q[1]] # "deleted"
                 PROVE  q \in members' <=> Len(audit'[q]) % 2 = 1
      BY <1>3 DEF TrailReplaysToRoster
    <2>1. CASE q # <<c, s>>
      BY <2>1, <1>2, <1>3, <1>a DEF TrailReplaysToRoster
    <2>2. CASE q = <<c, s>>
      <3>0. ~((Len(audit[<<c, s>>]) + 1) % 2 = 1)
        BY <1>4, <1>5, Parity, Zenon
      <3>1. ~(Len(audit'[q]) % 2 = 1)
        BY <2>2, <3>0, <1>a, Zenon
      <3> QED BY <2>2, <3>1, <1>3
    <2> QED BY <2>1, <2>2
  <1>10. TrailActorsAllowed'
    BY <1>1, <1>2, TrailKeepsActors
  <1> QED BY <1>6, <1>7, <1>8, <1>9, <1>10 DEF RosterInv

\* Every step of Roster keeps its invariant.
LEMMA RosterStepInv == RosterInv /\ [Next]_vars => RosterInv'
  <1> SUFFICES ASSUME RosterInv, [Next]_vars PROVE RosterInv'
    OBVIOUS
  <1>0. /\ RosterTypeOK /\ RowsBelongToLiveClasses /\ TrailAlternates
        /\ TrailReplaysToRoster /\ TrailActorsAllowed
    BY DEF RosterInv
  \* A step that records nothing keeps what is said of the trail alone.
  <1>1. ASSUME audit' = audit
        PROVE  TrailAlternates' /\ TrailActorsAllowed'
    BY <1>0, <1>1 DEF TrailAlternates, TrailActorsAllowed, Managers
  <1>2. CASE UNCHANGED vars
    BY <1>0, <1>1, <1>2 DEF vars, RosterInv, RosterTypeOK,
       RowsBelongToLiveClasses, TrailReplaysToRoster, Live
  <1>3. ASSUME NEW c \in Classes, Open(c) PROVE RosterInv'
    <2>1. \A p \in members \cup pending : p[1] # c
      BY <1>0, <1>3 DEF Open, RowsBelongToLiveClasses, Live
    <2>2. /\ members' = members /\ pending' = pending /\ audit' = audit
          /\ status' = [status EXCEPT ![c] = "live"]
      BY <1>3 DEF Open
    <2>3. RosterTypeOK'
      BY <1>0, <2>2 DEF RosterTypeOK
    <2>4. RowsBelongToLiveClasses'
      BY <1>0, <2>1, <2>2 DEF RowsBelongToLiveClasses, RosterTypeOK, Live, Pairs
    <2>5. TrailReplaysToRoster'
      BY <1>0, <1>3, <2>2 DEF TrailReplaysToRoster, RosterTypeOK, Open, Pairs
    <2> QED
      BY <1>1, <2>2, <2>3, <2>4, <2>5 DEF RosterInv
  <1>4. ASSUME NEW c \in Classes, Close(c) PROVE RosterInv'
    <2>1. /\ status' = [status EXCEPT ![c] = "deleted"] /\ audit' = audit
          /\ members' = {p \in members : p[1] # c}
          /\ pending' = {p \in pending : p[1] # c}
      BY <1>4 DEF Close
    <2>2. RosterTypeOK'
      BY <1>0, <2>1 DEF RosterTypeOK
    <2>3. RowsBelongToLiveClasses'
      BY <1>0, <2>1 DEF RowsBelongToLiveClasses, RosterTypeOK, Live, Pairs
    <2>4. TrailReplaysToRoster'
      BY <1>0, <2>1 DEF TrailReplaysToRoster, RosterTypeOK, Pairs
    <2> QED
      BY <1>1, <2>1, <2>2, <2>3, <2>4 DEF RosterInv
  <1>5. ASSUME NEW c \in Classes, NEW s \in Students, Ask(c, s) PROVE RosterInv'
    BY <1>0, <1>1, <1>5 DEF Ask, RosterInv, RosterTypeOK, RowsBelongToLiveClasses,
       TrailReplaysToRoster, Live, Pairs
  <1>6. ASSUME NEW c \in Classes, NEW s \in Students, Withdraw(c, s) PROVE RosterInv'
    BY <1>0, <1>1, <1>6 DEF Withdraw, RosterInv, RosterTypeOK,
       RowsBelongToLiveClasses, TrailReplaysToRoster, Live
  <1> QED
    BY <1>2, <1>3, <1>4, <1>5, <1>6, JoinInv, LeaveInv DEF Next

\* The promise of the enrolment endpoints: rows only for live classes, a trail
\* that alternates, replays to the roster and names only allowed actors.
THEOREM RosterSafety == Spec => []RosterInv
  BY RosterInitInv, RosterStepInv, PTL DEF Spec

-------------------------------------------------------------------------------
(* Enrollment implements Roster. *)

\* The check made on the class row still holds when the handler writes, awaits
\* later: nothing the other calls do takes the permission away.
AccessChecked ==
  \A k \in Slots :
    call[k] # NoCall /\ call[k].at # "class" /\ call[k].op \notin {"open", "cancel"}
      => MayProceed(call[k])

\* A class being created is not there yet, and only one call creates it.
OpeningOnce ==
  \A k \in Slots : call[k] # NoCall /\ call[k].op = "open" =>
    /\ status[call[k].class] = "unborn"
    /\ \A j \in Slots \ {k} :
         call[j] = NoCall \/ call[j].op # "open" \/ call[j].class # call[k].class

\* Creating a class and cancelling read nothing before they write.
DirectWrites ==
  \A k \in Slots : call[k] # NoCall /\ call[k].op \in {"open", "cancel"}
    => call[k].at = "write"

CallInv == TypeOK /\ AccessChecked /\ OpeningOnce /\ DirectWrites

\* No call is in flight at the start.
LEMMA CallInitInv == EInit => CallInv
  BY DEF EInit, Init, CallInv, TypeOK, RosterTypeOK, AccessChecked, OpeningOnce,
         DirectWrites

\* What a call does to its own slot leaves the others' calls as they are.
LEMMA AnswerKeepsCalls ==
  ASSUME CallInv, NEW k \in Slots, Answer(k)
  PROVE  /\ call' \in [Slots -> Calls \cup {NoCall}]
         /\ AccessChecked' /\ DirectWrites'
         /\ call'[k] = NoCall
         /\ \A j \in Slots \ {k} : call'[j] = call[j]
  BY DEF CallInv, TypeOK, Answer, AccessChecked, DirectWrites, MayProceed, Managers

\* Going to the next step of a handler keeps what was checked before.
LEMMA AdvanceKeepsCalls ==
  ASSUME CallInv, NEW k \in Slots, NEW at \in Steps, call[k] # NoCall,
         call[k].at # "write", MayProceed(call[k]), Advance(k, at)
  PROVE  CallInv'
  <1>1. /\ call[k] \in Calls
        /\ call' = [call EXCEPT ![k].at = at]
        /\ UNCHANGED <<status, members, pending, audit>>
    BY DEF CallInv, TypeOK, Advance
  <1>2. /\ call'[k] = [call[k] EXCEPT !.at = at]
        /\ \A j \in Slots \ {k} : call'[j] = call[j]
        /\ call' \in [Slots -> Calls \cup {NoCall}]
    BY <1>1 DEF CallInv, TypeOK, Calls
  <1>3. TypeOK'
    BY <1>1, <1>2 DEF CallInv, TypeOK, RosterTypeOK
  <1>4. AccessChecked'
    BY <1>1, <1>2 DEF CallInv, AccessChecked, MayProceed, Managers, Calls
  <1>5. OpeningOnce'
    BY <1>1, <1>2, NoCallAssumption DEF CallInv, OpeningOnce, Calls
  <1>6. DirectWrites'
    BY <1>1, <1>2 DEF CallInv, DirectWrites, Calls
  <1> QED BY <1>3, <1>4, <1>5, <1>6 DEF CallInv

\* Each committed write is a step of Roster made by somebody who may make it,
\* and the calls in flight keep their invariant.
LEMMA WriteRefines ==
  ASSUME CallInv, NEW k \in Slots, Write(k)
  PROVE  Next
  <1>1. /\ call[k] \in Calls
        /\ call[k].class \in Classes /\ call[k].student \in Students
    BY DEF CallInv, TypeOK, Write, Serving, WriteOpen, WriteClose, WriteEnrol,
           WriteRemove, WriteAsk, WriteApprove, WriteWithdraw, Calls
  <1> DEFINE c == call[k].class
             s == call[k].student
  <1>2. CASE WriteOpen(k)
    <2>1. Open(c)
      BY <1>1, <1>2 DEF WriteOpen, Open, Serving, CallInv, OpeningOnce
    <2> QED BY <1>1, <2>1 DEF Next
  <1>3. CASE WriteClose(k)
    <2>1. Close(c)
      BY <1>3 DEF WriteClose, Close
    <2> QED BY <1>1, <2>1 DEF Next
  <1>4. CASE WriteEnrol(k)
    <2>1. call[k].actor \in Managers(c)
      BY <1>4 DEF WriteEnrol, Serving, CallInv, AccessChecked, MayProceed
    <2>2. Join(c, s, call[k].actor)
      BY <1>4 DEF WriteEnrol, Join, pair
    <2> QED BY <1>1, <2>1, <2>2 DEF Next
  <1>5. CASE WriteApprove(k)
    <2>1. call[k].actor \in Managers(c)
      BY <1>5 DEF WriteApprove, Serving, CallInv, AccessChecked, MayProceed
    <2>2. Join(c, s, call[k].actor)
      BY <1>5 DEF WriteApprove, Join, pair
    <2> QED BY <1>1, <2>1, <2>2 DEF Next
  <1>6. CASE WriteRemove(k)
    <2>1. call[k].actor \in Managers(c) \cup {s}
      BY <1>6 DEF WriteRemove, Serving, CallInv, AccessChecked, MayProceed
    <2>2. Leave(c, s, call[k].actor)
      BY <1>6 DEF WriteRemove, Leave, pair
    <2> QED BY <1>1, <2>1, <2>2 DEF Next
  <1>7. CASE WriteAsk(k)
    <2>1. Ask(c, s)
      BY <1>7 DEF WriteAsk, Ask, pair
    <2> QED BY <1>1, <2>1 DEF Next
  <1>8. CASE WriteWithdraw(k)
    <2>1. Withdraw(c, s)
      BY <1>8 DEF WriteWithdraw, Withdraw, pair
    <2> QED BY <1>1, <2>1 DEF Next
  <1> QED
    BY <1>2, <1>3, <1>4, <1>5, <1>6, <1>7, <1>8 DEF Write

\* A committed write ends its call and leaves the others in order.
LEMMA WriteKeepsCalls ==
  ASSUME CallInv, NEW k \in Slots, Write(k), RosterTypeOK'
  PROVE  CallInv'
  <1>1. /\ Answer(k) /\ call[k] # NoCall
    BY DEF Write, WriteOpen, WriteClose, WriteEnrol, WriteRemove, WriteAsk,
           WriteApprove, WriteWithdraw, Serving
  <1>2. /\ call' \in [Slots -> Calls \cup {NoCall}]
        /\ AccessChecked'
        /\ DirectWrites'
        /\ call'[k] = NoCall
        /\ \A j \in Slots \ {k} : call'[j] = call[j]
    BY <1>1, AnswerKeepsCalls
  \* A class is opened by the only call creating it; one that is closed was live.
  <1>3. \A j \in Slots \ {k} : call[j] # NoCall /\ call[j].op = "open"
          => status'[call[j].class] = status[call[j].class]
    <2> SUFFICES ASSUME NEW j \in Slots \ {k}, call[j] # NoCall, call[j].op = "open"
                 PROVE  status'[call[j].class] = status[call[j].class]
      OBVIOUS
    <2>1. /\ call[j] \in Calls /\ call[k] \in Calls
          /\ status \in [Classes -> {"unborn", "live", "deleted"}]
      BY <1>1 DEF CallInv, TypeOK, RosterTypeOK
    <2>2. CASE WriteOpen(k)
      BY <2>1, <2>2 DEF CallInv, OpeningOnce, WriteOpen, Serving, Calls
    <2>3. CASE WriteClose(k)
      BY <2>1, <2>3 DEF CallInv, OpeningOnce, WriteClose, Live, Calls
    <2>4. CASE ~WriteOpen(k) /\ ~WriteClose(k)
      BY <2>4 DEF Write, WriteEnrol, WriteRemove, WriteAsk, WriteApprove, WriteWithdraw
    <2> QED BY <2>2, <2>3, <2>4
  <1>4. OpeningOnce'
    BY <1>2, <1>3 DEF CallInv, OpeningOnce
  <1> QED BY <1>2, <1>4 DEF CallInv, TypeOK

\* A call that starts is typed, and a new class gets an id of its own.
LEMMA BeginKeepsCalls ==
  ASSUME CallInv, NEW k \in Slots, NEW op \in Ops, NEW u \in Users,
         NEW c \in Classes, NEW s \in Students, Begin(k, op, u, c, s)
  PROVE  CallInv'
  <1> DEFINE new == [op |-> op, actor |-> u, class |-> c, student |-> s,
                     at |-> IF op \in {"open", "cancel"} THEN "write" ELSE "class"]
  <1>1. new \in Calls
    BY DEF Calls, Steps
  <1>2. /\ call' = [call EXCEPT ![k] = new]
        /\ UNCHANGED rowVars
    BY DEF Begin
  <1>3. /\ op = "open" => status[c] = "unborn" /\ ~Opening(c)
        /\ new.op = op /\ new.class = c
        /\ op \notin {"open", "cancel"} => new.at = "class"
    BY DEF Begin
  <1>9. op \in {"open", "cancel"} => new.at = "write"
    OBVIOUS
  <1> HIDE DEF new
  <1>4. call'[k] = new /\ \A j \in Slots \ {k} : call'[j] = call[j]
    BY <1>2 DEF CallInv, TypeOK
  <1>5. TypeOK'
    BY <1>1, <1>2 DEF CallInv, TypeOK, RosterTypeOK, rowVars
  <1>6. AccessChecked'
    BY <1>3, <1>4 DEF CallInv, AccessChecked, MayProceed, Managers
  <1>8. DirectWrites'
    BY <1>3, <1>4, <1>9 DEF CallInv, DirectWrites
  <1>7. OpeningOnce'
    <2> SUFFICES ASSUME NEW j \in Slots, call'[j] # NoCall, call'[j].op = "open"
                 PROVE  /\ status'[call'[j].class] = "unborn"
                        /\ \A i \in Slots \ {j} :
                             \/ call'[i] = NoCall \/ call'[i].op # "open"
                             \/ call'[i].class # call'[j].class
      BY DEF OpeningOnce
    <2>1. CASE j = k
      BY <2>1, <1>2, <1>3, <1>4 DEF Opening, rowVars
    <2>2. CASE j # k
      BY <2>2, <1>2, <1>3, <1>4 DEF Opening, rowVars, CallInv, OpeningOnce
    <2> QED BY <2>1, <2>2
  <1> QED BY <1>5, <1>6, <1>7, <1>8 DEF CallInv

\* So does a call that is refused or that fails.
LEMMA UnwrittenAnswerKeepsCalls ==
  ASSUME CallInv, NEW k \in Slots, Answer(k), UNCHANGED rowVars
  PROVE  CallInv'
  <1>1. /\ call' \in [Slots -> Calls \cup {NoCall}]
        /\ AccessChecked'
        /\ DirectWrites'
        /\ call'[k] = NoCall
        /\ \A j \in Slots \ {k} : call'[j] = call[j]
    BY AnswerKeepsCalls
  <1>2. RosterTypeOK'
    BY DEF rowVars, CallInv, TypeOK, RosterTypeOK
  <1>3. OpeningOnce'
    BY <1>1 DEF rowVars, CallInv, OpeningOnce
  <1> QED BY <1>1, <1>2, <1>3 DEF CallInv, TypeOK

\* A step of a call either is a step of Roster or leaves the rows and the
\* trail alone, and it keeps the calls in order.
LEMMA EnrollmentStep ==
  ASSUME CallInv, RosterInv, [ENext]_evars
  PROVE  [Next]_vars /\ CallInv' /\ RosterInv'
  <1>1. ASSUME CallInv', UNCHANGED rowVars
        PROVE  [Next]_vars /\ CallInv' /\ RosterInv'
    BY <1>1, RosterStepInv DEF rowVars, vars
  <1>2. ASSUME NEW k \in Slots, Write(k)
        PROVE  [Next]_vars /\ CallInv' /\ RosterInv'
    <2>1. Next
      BY <1>2, WriteRefines
    <2>2. RosterInv'
      BY <2>1, RosterStepInv
    <2>3. CallInv'
      BY <1>2, <2>2, WriteKeepsCalls DEF RosterInv
    <2> QED BY <2>1, <2>2, <2>3
  <1>3. ASSUME NEW k \in Slots, Refuse(k) \/ Fail(k)
        PROVE  CallInv' /\ UNCHANGED rowVars
    BY <1>3, UnwrittenAnswerKeepsCalls DEF Refuse, Fail
  <1>4. ASSUME NEW k \in Slots, LoadClass(k)
        PROVE  CallInv' /\ UNCHANGED rowVars
    <2>1. CASE Refuse(k)
      BY <2>1, <1>3
    <2>2. CASE MayProceed(call[k]) /\ Advance(k, StepAfterClass(call[k].op))
      <3>1. StepAfterClass(call[k].op) \in Steps
        BY DEF StepAfterClass, Steps
      <3>2. UNCHANGED rowVars
        BY <2>2 DEF Advance, rowVars
      <3> QED BY <1>4, <2>2, <3>1, <3>2, AdvanceKeepsCalls DEF LoadClass
    <2> QED BY <1>4, <2>1, <2>2 DEF LoadClass
  <1>5. ASSUME NEW k \in Slots, CheckMember(k) \/ CheckRequest(k)
        PROVE  CallInv' /\ UNCHANGED rowVars
    <2>1. CASE Refuse(k)
      BY <2>1, <1>3
    <2>2. ASSUME NEW at \in {"request", "write"}, Advance(k, at)
          PROVE  CallInv' /\ UNCHANGED rowVars
      <3>1. call[k] # NoCall /\ call[k] \in Calls /\ call[k].at \in {"member", "request"}
        BY <1>5 DEF CheckMember, CheckRequest, Serving, CallInv, TypeOK
      <3>2. call[k].op \notin {"open", "cancel"}
        BY <3>1 DEF CallInv, DirectWrites
      <3>3. MayProceed(call[k])
        BY <3>1, <3>2 DEF CallInv, AccessChecked
      <3>4. UNCHANGED rowVars
        BY <2>2 DEF Advance, rowVars
      <3> QED BY <2>2, <3>1, <3>3, <3>4, AdvanceKeepsCalls DEF Steps
    <2> QED BY <1>5, <2>1, <2>2 DEF CheckMember, CheckRequest
  <1>6. ASSUME NEW k \in Slots, NEW op \in Ops, NEW u \in Users, NEW c \in Classes,
               NEW s \in Students, Begin(k, op, u, c, s)
        PROVE  CallInv' /\ UNCHANGED rowVars
    BY <1>6, BeginKeepsCalls DEF Begin
  <1>7. CASE UNCHANGED evars
    <2>1. CallInv' /\ UNCHANGED rowVars
      BY <1>7 DEF evars, rowVars, CallInv, TypeOK, RosterTypeOK, AccessChecked,
         OpeningOnce, DirectWrites, MayProceed, Managers
    <2> QED BY <1>1, <2>1
  <1>8. CASE ENext
    BY <1>1, <1>2, <1>3, <1>4, <1>5, <1>6, <1>8 DEF ENext, Step, RefuseWrite
  <1> QED BY <1>7, <1>8

\* The handlers, run concurrently, do nothing but what Roster allows.
THEOREM EnrollmentImplementsRoster == ESpec => Spec
  <1>1. EInit => CallInv /\ RosterInv /\ Init
    BY CallInitInv, RosterInitInv DEF EInit
  <1>2. CallInv /\ RosterInv /\ [ENext]_evars => CallInv' /\ RosterInv' /\ [Next]_vars
    BY EnrollmentStep
  <1> QED BY <1>1, <1>2, PTL DEF ESpec, Spec

\* Rows, trail and calls keep their types.
THEOREM EnrollmentTypeCorrect == ESpec => []TypeOK
  <1>1. EInit => CallInv /\ RosterInv
    BY CallInitInv, RosterInitInv DEF EInit
  <1>2. CallInv /\ RosterInv /\ [ENext]_evars => CallInv' /\ RosterInv'
    BY EnrollmentStep
  <1>3. CallInv => TypeOK
    BY DEF CallInv
  <1> QED BY <1>1, <1>2, <1>3, PTL DEF ESpec

\* Whatever calls race, the audit trail of a membership replays to the roster.
THEOREM EnrollmentTrailReplays == ESpec => []TrailReplaysToRoster
  <1>1. RosterInv => TrailReplaysToRoster
    BY DEF RosterInv
  <1> QED BY <1>1, RosterSafety, EnrollmentImplementsRoster, PTL

\* Nobody who may not appears in the trail as the author of a change.
THEOREM EnrollmentActorsAllowed == ESpec => []TrailActorsAllowed
  <1>1. RosterInv => TrailActorsAllowed
    BY DEF RosterInv
  <1> QED BY <1>1, RosterSafety, EnrollmentImplementsRoster, PTL

\* No membership or request outlives its class.
THEOREM EnrollmentRowsLive == ESpec => []RowsBelongToLiveClasses
  <1>1. RosterInv => RowsBelongToLiveClasses
    BY DEF RosterInv
  <1> QED BY <1>1, RosterSafety, EnrollmentImplementsRoster, PTL

\* A request is withdrawn by its author or by a manager of the class, never by
\* another call that happened to read the row.
THEOREM EnrollmentWithdrawals == ESpec => WithdrawalsAuthorised
  <1>1. ASSUME CallInv, ENext, NEW p \in pending \ pending' PROVE
          \E k \in Slots :
            /\ call[k] # NoCall /\ call'[k] = NoCall /\ call[k].class = p[1]
            /\ \/ call[k].actor \in Managers(p[1])
               \/ call[k].op = "cancel" /\ call[k].actor = p[2]
    <2>1. PICK k \in Slots : WriteClose(k) \/ WriteApprove(k) \/ WriteWithdraw(k)
      <3> SUFFICES ASSUME NEW k \in Slots,
                          \/ Step(k)
                          \/ \E op \in Ops, u \in Users, c \in Classes, s \in Students :
                               Begin(k, op, u, c, s)
                   PROVE  WriteClose(k) \/ WriteApprove(k) \/ WriteWithdraw(k)
        BY <1>1 DEF ENext
      <3> QED
        BY <1>1 DEF Step, Begin, LoadClass, CheckMember, CheckRequest, Advance,
             RefuseWrite, Fail, Refuse, rowVars, Write, WriteOpen, WriteEnrol,
             WriteRemove, WriteAsk
    <2>2. call[k] # NoCall /\ Answer(k)
      BY <2>1 DEF WriteClose, WriteApprove, WriteWithdraw, Serving
    <2>3. call'[k] = NoCall
      BY <1>1, <2>2, AnswerKeepsCalls
    <2>4. CASE WriteClose(k)
      <3>1. call[k].actor \in Managers(call[k].class)
        BY <1>1, <2>4 DEF WriteClose, Serving, CallInv, AccessChecked, MayProceed
      <3>2. p[1] = call[k].class
        BY <2>4 DEF WriteClose
      <3> QED BY <2>2, <2>3, <3>1, <3>2
    <2>5. CASE WriteApprove(k) \/ WriteWithdraw(k)
      <3>1. p = <<call[k].class, call[k].student>>
        BY <2>5 DEF WriteApprove, WriteWithdraw, pair
      <3>2. \/ call[k].op \in {"approve", "reject"} /\ call[k].at = "write"
            \/ call[k].op = "cancel" /\ call[k].student = call[k].actor
        BY <2>5 DEF WriteApprove, WriteWithdraw, Serving
      <3>3. \/ call[k].actor \in Managers(call[k].class)
            \/ call[k].op = "cancel" /\ call[k].actor = call[k].student
        BY <1>1, <2>2, <3>2 DEF CallInv, AccessChecked, MayProceed
      <3> QED BY <2>2, <2>3, <3>1, <3>3
    <2> QED BY <2>1, <2>4, <2>5
  <1>2. CallInv /\ RosterInv /\ [ENext]_evars => [WithdrawalAuthorised]_evars
    BY <1>1 DEF WithdrawalAuthorised
  <1>3. EInit => CallInv /\ RosterInv
    BY CallInitInv, RosterInitInv DEF EInit
  <1>4. CallInv /\ RosterInv /\ [ENext]_evars => CallInv' /\ RosterInv'
    BY EnrollmentStep
  <1> QED BY <1>2, <1>3, <1>4, PTL DEF ESpec, WithdrawalsAuthorised
===============================================================================
