----------------------- MODULE EGMTrajectoryUserProofs -----------------------
(***************************************************************************)
(* Proofs about EGMTrajectoryOrder and EGMTrajectoryUser.  The motion      *)
(* implements TrajectoryQueue, whatever is ordered.  And no order to go on *)
(* gets lost, whatever calls and messages come in between, as long as no   *)
(* setStaticGoal ramps down.                                               *)
(***************************************************************************)
EXTENDS EGMTrajectoryUser, EGMTrajectoryMotionProofs, SequenceTheorems

----------------------------------------------------------------------------
(* What the queue tells of points and trajectories                         *)

Names == [id : Nat, reach : BOOLEAN]

\* Two sequences with the same elements are one.
LEMMA SameSequence ==
  ASSUME NEW X, NEW s \in Seq(X), NEW t \in Seq(X), Len(s) = Len(t),
         \A i \in 1 .. Len(s) : s[i] = t[i]
  PROVE  s = t
  OBVIOUS

\* The elements of a sequence with one in front, and of a part.
LEMMA FrontElements ==
  ASSUME NEW X, NEW x \in X, NEW s \in Seq(X)
  PROVE  /\ <<x>> \o s \in Seq(X) /\ Len(<<x>> \o s) = Len(s) + 1
         /\ \A i \in 1 .. Len(s) + 1 :
              (<<x>> \o s)[i] = IF i = 1 THEN x ELSE s[i - 1]
  OBVIOUS

LEMMA PartElements ==
  ASSUME NEW X, NEW s \in Seq(X), NEW k \in 1 .. Len(s)
  PROVE  /\ SubSeq(s, k, Len(s)) \in Seq(X)
         /\ Len(SubSeq(s, k, Len(s))) = Len(s) - k + 1
         /\ \A i \in 1 .. Len(s) - k + 1 : SubSeq(s, k, Len(s))[i] = s[k + i - 1]
  OBVIOUS

\* The names of the points of a trajectory.
LEMMA NamedPointsAre ==
  ASSUME NEW t \in Seq(Points)
  PROVE  /\ NamedPoints(t) \in Seq(Names) /\ Len(NamedPoints(t)) = Len(t)
         /\ \A i \in 1 .. Len(t) : NamedPoints(t)[i] = Name(t[i])
<1>1. /\ DOMAIN t = 1 .. Len(t) /\ Len(t) \in Nat /\ \A i \in 1 .. Len(t) : t[i] \in Points
  OBVIOUS
<1>2. NamedPoints(t) = [i \in 1 .. Len(t) |-> Name(t[i])]
  BY <1>1 DEF NamedPoints
<1>3. \A p \in Points : Name(p) \in Names
  BY DEF Name, Names, Points
<1>4. \A i \in 1 .. Len(t) : Name(t[i]) \in Names
  BY <1>1, <1>3
<1>. QED
  BY <1>1, <1>2, <1>4

\* Those of a point in front of others.
LEMMA NamedPointFront ==
  ASSUME NEW p \in Points, NEW t \in Seq(Points)
  PROVE  NamedPoints(<<p>> \o t) = <<Name(p)>> \o NamedPoints(t)
<1> DEFINE u == <<p>> \o t
           v == <<Name(p)>> \o NamedPoints(t)
<1>1. /\ u \in Seq(Points) /\ Len(u) = Len(t) + 1
      /\ \A i \in 1 .. Len(t) + 1 : u[i] = IF i = 1 THEN p ELSE t[i - 1]
  BY FrontElements
<1>2. Name(p) \in Names
  BY DEF Name, Names, Points
<1>3. NamedPoints(t) \in Seq(Names) /\ Len(NamedPoints(t)) = Len(t) /\ Len(t) \in Nat
      /\ \A i \in 1 .. Len(t) : NamedPoints(t)[i] = Name(t[i])
  BY NamedPointsAre
<1>4. /\ v \in Seq(Names) /\ Len(v) = Len(t) + 1
      /\ \A i \in 1 .. Len(t) + 1 : v[i] = IF i = 1 THEN Name(p) ELSE NamedPoints(t)[i - 1]
  BY <1>2, <1>3, FrontElements
<1>. HIDE DEF u, v
<1>5. /\ NamedPoints(u) \in Seq(Names) /\ Len(NamedPoints(u)) = Len(t) + 1
      /\ \A i \in 1 .. Len(t) + 1 : NamedPoints(u)[i] = Name(u[i])
  BY <1>1, NamedPointsAre
<1>6. ASSUME NEW i \in 1 .. Len(t) + 1 PROVE NamedPoints(u)[i] = v[i]
  <2>1. CASE i = 1
    BY <1>1, <1>4, <1>5, <2>1
  <2>2. CASE i # 1
    <3>1. i - 1 \in 1 .. Len(t)
      BY <1>3, <2>2
    <3>2. u[i] = t[i - 1] /\ v[i] = NamedPoints(t)[i - 1]
      BY <1>1, <1>4, <2>2
    <3>. QED
      BY <1>3, <1>5, <3>1, <3>2
  <2>. QED
    BY <2>1, <2>2
<1>7. NamedPoints(u) = v
  BY <1>4, <1>5, <1>6, SameSequence
<1>. QED
  BY <1>7 DEF u, v

\* Those of the points that are left.
LEMMA NamedPart ==
  ASSUME NEW t \in Seq(Points), NEW k \in 1 .. Len(t)
  PROVE  NamedPoints(SubSeq(t, k, Len(t))) = SubSeq(NamedPoints(t), k, Len(NamedPoints(t)))
<1> DEFINE u == SubSeq(t, k, Len(t))
           v == SubSeq(NamedPoints(t), k, Len(t))
<1>1. /\ u \in Seq(Points) /\ Len(u) = Len(t) - k + 1
      /\ \A i \in 1 .. Len(t) - k + 1 : u[i] = t[k + i - 1]
  BY PartElements
<1>2. NamedPoints(t) \in Seq(Names) /\ Len(NamedPoints(t)) = Len(t) /\ Len(t) \in Nat
      /\ \A i \in 1 .. Len(t) : NamedPoints(t)[i] = Name(t[i])
  BY NamedPointsAre
<1>3. /\ v \in Seq(Names) /\ Len(v) = Len(t) - k + 1
      /\ \A i \in 1 .. Len(t) - k + 1 : v[i] = NamedPoints(t)[k + i - 1]
  BY <1>2, PartElements
<1>. HIDE DEF u, v
<1>4. /\ NamedPoints(u) \in Seq(Names) /\ Len(NamedPoints(u)) = Len(t) - k + 1
      /\ \A i \in 1 .. Len(t) - k + 1 : NamedPoints(u)[i] = Name(u[i])
  BY <1>1, NamedPointsAre
<1>5. ASSUME NEW i \in 1 .. Len(t) - k + 1 PROVE NamedPoints(u)[i] = v[i]
  <2>1. k + i - 1 \in 1 .. Len(t)
    BY <1>2
  <2>. QED
    BY <1>1, <1>2, <1>3, <1>4, <2>1
<1>6. NamedPoints(u) = v
  BY <1>3, <1>4, <1>5, SameSequence
<1>. QED
  BY <1>2, <1>6 DEF u, v

\* The names of trajectories.
LEMMA NamedAre ==
  ASSUME NEW S \in Seq(Seq(Points))
  PROVE  /\ Named(S) \in Seq(Seq(Names)) /\ Len(Named(S)) = Len(S)
         /\ \A i \in 1 .. Len(S) : Named(S)[i] = NamedPoints(S[i])
<1>1. /\ DOMAIN S = 1 .. Len(S) /\ Len(S) \in Nat
      /\ \A i \in 1 .. Len(S) : S[i] \in Seq(Points)
  OBVIOUS
<1>2. Named(S) = [i \in 1 .. Len(S) |-> NamedPoints(S[i])]
  BY <1>1 DEF Named
<1>3. \A i \in 1 .. Len(S) : NamedPoints(S[i]) \in Seq(Names)
  BY <1>1, NamedPointsAre
<1>. QED
  BY <1>1, <1>2, <1>3

\* Those of none, and of one in front of others.
LEMMA NamedNone == Named(<<>>) = <<>>
  BY DEF Named

LEMMA NamedFront ==
  ASSUME NEW t \in Seq(Points), NEW S \in Seq(Seq(Points))
  PROVE  Named(<<t>> \o S) = <<NamedPoints(t)>> \o Named(S)
<1> DEFINE u == <<t>> \o S
           v == <<NamedPoints(t)>> \o Named(S)
<1>1. /\ u \in Seq(Seq(Points)) /\ Len(u) = Len(S) + 1
      /\ \A i \in 1 .. Len(S) + 1 : u[i] = IF i = 1 THEN t ELSE S[i - 1]
  BY FrontElements
<1>2. NamedPoints(t) \in Seq(Names)
  BY NamedPointsAre
<1>3. /\ Named(S) \in Seq(Seq(Names)) /\ Len(Named(S)) = Len(S) /\ Len(S) \in Nat
      /\ \A i \in 1 .. Len(S) : Named(S)[i] = NamedPoints(S[i])
  BY NamedAre
<1>4. /\ v \in Seq(Seq(Names)) /\ Len(v) = Len(S) + 1
      /\ \A i \in 1 .. Len(S) + 1 : v[i] = IF i = 1 THEN NamedPoints(t) ELSE Named(S)[i - 1]
  BY <1>2, <1>3, FrontElements, SMTT(30)
<1>. HIDE DEF u, v
<1>5. /\ Named(u) \in Seq(Seq(Names)) /\ Len(Named(u)) = Len(S) + 1
      /\ \A i \in 1 .. Len(S) + 1 : Named(u)[i] = NamedPoints(u[i])
  BY <1>1, NamedAre
<1>6. ASSUME NEW i \in 1 .. Len(S) + 1 PROVE Named(u)[i] = v[i]
  <2>1. CASE i = 1
    BY <1>1, <1>4, <1>5, <2>1
  <2>2. CASE i # 1
    <3>1. i - 1 \in 1 .. Len(S)
      BY <1>3, <2>2
    <3>2. u[i] = S[i - 1] /\ v[i] = Named(S)[i - 1]
      BY <1>1, <1>4, <2>2
    <3>. QED
      BY <1>3, <1>5, <3>1, <3>2
  <2>. QED
    BY <2>1, <2>2
<1>7. Named(u) = v
  BY <1>4, <1>5, <1>6, SameSequence
<1>. QED
  BY <1>7 DEF u, v

\* Of one alone, and of one behind others.
LEMMA NamedOne ==
  ASSUME NEW t \in Seq(Points)
  PROVE  Named(<<t>>) = <<NamedPoints(t)>>
  BY DEF Named

LEMMA NamedBack ==
  ASSUME NEW t \in Seq(Points), NEW S \in Seq(Seq(Points))
  PROVE  Named(Append(S, t)) = Append(Named(S), NamedPoints(t))
<1> DEFINE u == Append(S, t)
           v == Append(Named(S), NamedPoints(t))
<1>1. /\ u \in Seq(Seq(Points)) /\ Len(u) = Len(S) + 1 /\ Len(S) \in Nat
      /\ \A i \in 1 .. Len(S) + 1 : u[i] = IF i <= Len(S) THEN S[i] ELSE t
  OBVIOUS
<1>2. NamedPoints(t) \in Seq(Names)
  BY NamedPointsAre
<1>3. /\ Named(S) \in Seq(Seq(Names)) /\ Len(Named(S)) = Len(S)
      /\ \A i \in 1 .. Len(S) : Named(S)[i] = NamedPoints(S[i])
  BY NamedAre
<1>4. /\ v \in Seq(Seq(Names)) /\ Len(v) = Len(S) + 1
      /\ \A i \in 1 .. Len(S) + 1 : v[i] = IF i <= Len(S) THEN Named(S)[i] ELSE NamedPoints(t)
  BY <1>2, <1>3
<1>. HIDE DEF u, v
<1>5. /\ Named(u) \in Seq(Seq(Names)) /\ Len(Named(u)) = Len(S) + 1
      /\ \A i \in 1 .. Len(S) + 1 : Named(u)[i] = NamedPoints(u[i])
  BY <1>1, NamedAre
<1>6. ASSUME NEW i \in 1 .. Len(S) + 1 PROVE Named(u)[i] = v[i]
  <2>1. CASE i <= Len(S)
    <3>1. i \in 1 .. Len(S)
      BY <1>1, <2>1
    <3>. QED
      BY <1>1, <1>3, <1>4, <1>5, <2>1, <3>1
  <2>2. CASE ~ (i <= Len(S))
    BY <1>1, <1>4, <1>5, <2>2
  <2>. QED
    BY <2>1, <2>2
<1>7. Named(u) = v
  BY <1>4, <1>5, <1>6, SameSequence
<1>. QED
  BY <1>7 DEF u, v

\* Of the first and of the others.
LEMMA NamedHeadTail ==
  ASSUME NEW S \in Seq(Seq(Points)), S # <<>>
  PROVE  /\ Head(S) \in Seq(Points) /\ Tail(S) \in Seq(Seq(Points))
         /\ S = <<Head(S)>> \o Tail(S)
         /\ Named(S) = <<NamedPoints(Head(S))>> \o Named(Tail(S))
<1>1. Head(S) \in Seq(Points) /\ Tail(S) \in Seq(Seq(Points)) /\ S = <<Head(S)>> \o Tail(S)
  OBVIOUS
<1>2. Named(<<Head(S)>> \o Tail(S)) = <<NamedPoints(Head(S))>> \o Named(Tail(S))
  BY <1>1, NamedFront
<1>. QED
  BY <1>1, <1>2

\* A trajectory in front of a queue.
LEMMA FrontOfQueue ==
  ASSUME NEW t \in Seq(Names), NEW Q \in Seq(Seq(Names))
  PROVE  /\ <<t>> \o Q # <<>> /\ Head(<<t>> \o Q) = t /\ (<<t>> \o Q)[1] = t
         /\ Tail(<<t>> \o Q) = Q
  OBVIOUS

----------------------------------------------------------------------------
(* The queue, step by step                                                 *)

Following == Named(InExecution \o primary)
Over == Executing /\ DurationReached

\* A sequence that is neither empty nor longer than one has one element.
LEMMA OneElement ==
  ASSUME NEW X, NEW s \in Seq(X), s # <<>>, Len(s) <= 1
  PROVE  s = <<s[1]>> /\ s[1] \in X
<1>1. Len(s) \in Nat
  OBVIOUS
<1>2. Len(s) # 0
  BY EmptySeq
<1>3. \A n \in Nat : n # 0 /\ n <= 1 => n = 1
  OBVIOUS
<1>4. Len(s) = 1
  BY <1>1, <1>2, <1>3
<1>. QED
  BY <1>4

\* The current trajectory, if there is one.
LEMMA CurrentIs ==
  ASSUME TypeOK, current # <<>>
  PROVE  current = <<current[1]>> /\ current[1] \in Seq(Points)
<1>1. current \in Seq(Seq(Points)) /\ Len(current) <= 1
  BY DEF TypeOK
<1>. QED
  BY <1>1, OneElement, Zenon

\* When a point is being executed.
LEMMA ExecutingIs ==
  ASSUME InductiveInvariant
  PROVE  /\ Executing \in BOOLEAN
         /\ Executing => current # <<>>
         /\ state \in NormalStates => (Executing <=> current # <<>>)
         /\ state \in {"RampDownNone", "RampDownRunning"} => ~ Executing
         /\ state = "RampDownFinished" =>
              \/ pending \in {"none", "StaticNone"} /\ ~ Executing
              \/ pending = "NormalRunning" /\ (Executing <=> current # <<>>)
         /\ state \in StaticGoalStates => ~ Executing /\ current = <<>>
  BY DEF InductiveInvariant, ControlInv, TypeOK, Executing, IdleIsEmpty, NormalInv, RampDownInv,
     StaticGoalInv, States, NormalStates, RampDownStates, StaticGoalStates

\* A trajectory that is executed, and one that is not, in front of others.
LEMMA FollowingIs ==
  ASSUME NEW P \in Seq(Seq(Points)), NEW t \in Seq(Points), NEW p \in Points
  PROVE  /\ Named(<< <<p>> \o t >> \o P) = << <<Name(p)>> \o NamedPoints(t) >> \o Named(P)
         /\ Named(<<t>> \o P) = <<NamedPoints(t)>> \o Named(P)
         /\ Named(<<>> \o P) = Named(P)
<1>1. <<p>> \o t \in Seq(Points) /\ <<>> \o P = P
  OBVIOUS
<1>2. Named(<< <<p>> \o t >> \o P) = <<NamedPoints(<<p>> \o t)>> \o Named(P)
  BY <1>1, NamedFront
<1>. QED
  BY <1>1, <1>2, NamedFront, NamedPointFront

\* The queue begins with the trajectory that is executed, or interrupted.
LEMMA QueueIs ==
  ASSUME InductiveInvariant
  PROVE  /\ Executing => Following = << <<Name(external)>> \o NamedPoints(current[1]) >>
                                        \o Named(primary)
         /\ ~ Executing /\ current # <<>> =>
              Following = <<NamedPoints(current[1])>> \o Named(primary)
         /\ current = <<>> => ~ Executing /\ Following = Named(primary)
<1>1. TypeOK /\ primary \in Seq(Seq(Points)) /\ external \in Points
  BY DEF InductiveInvariant, TypeOK
<1>2. CASE current # <<>>
  <2>1. current = <<current[1]>> /\ current[1] \in Seq(Points)
    BY <1>1, <1>2, CurrentIs
  <2>2. CASE Executing
    BY <1>1, <1>2, <2>1, <2>2, FollowingIs DEF Following, InExecution
  <2>3. CASE ~ Executing
    <3>1. InExecution = <<current[1]>>
      BY <2>1, <2>3 DEF InExecution
    <3>. QED
      BY <1>1, <1>2, <2>1, <2>3, <3>1, FollowingIs DEF Following
  <2>. QED
    BY <2>2, <2>3
<1>3. CASE current = <<>>
  <2>1. ~ Executing
    BY <1>3, ExecutingIs
  <2>2. InExecution = <<>> /\ <<>> \o primary = primary
    BY <1>1, <1>3, <2>1 DEF InExecution
  <2>. QED
    BY <1>3, <2>1, <2>2 DEF Following
<1>. QED
  BY <1>2, <1>3

\* Without a current trajectory the queue is the deque.
LEMMA NothingCurrent ==
  ASSUME TypeOK', current' = <<>>, ~ Executing'
  PROVE  Following' = Named(primary') /\ Queue!Still
<1>1. primary' \in Seq(Seq(Points))
  BY DEF TypeOK
<1>2. InExecution' \o primary' = primary'
  BY <1>1 DEF InExecution
<1>. QED
  BY <1>2 DEF Following, Queue!Still

\* The next point of the trajectory t, picked by updateNormalGoal.
LEMMA NextGoalBegins ==
  ASSUME TypeOK', NEW t \in Seq(Points), NEW near, NextGoal(<<t>>, near)
  PROVE  Queue!Begins(<<NamedPoints(t)>> \o Named(primary'))
<1>1. PICK k \in Eligible(t, near) :
        /\ \A j \in Eligible(t, near) : k <= j
        /\ external' = t[k]
        /\ current' = << SubSeq(t, k + 1, Len(t)) >>
  BY DEF NextGoal
<1>2. k \in 1 .. Len(t) /\ Len(t) \in Nat /\ t[k] \in Points
  BY <1>1 DEF Eligible
<1>3. k = 1 \/ t[1].reach
  BY <1>1, <1>2 DEF Eligible
<1>4. Executing'
  BY DEF NextGoal, Interpolate, Executing
<1>5. <<t[k]>> \o SubSeq(t, k + 1, Len(t)) = SubSeq(t, k, Len(t))
  BY <1>2
<1>6. SubSeq(t, k, Len(t)) \in Seq(Points)
  BY <1>2
<1>7. InExecution' = << SubSeq(t, k, Len(t)) >>
  BY <1>1, <1>4, <1>5 DEF InExecution
<1>8. primary' \in Seq(Seq(Points)) /\ Named(primary') \in Seq(Seq(Names))
      /\ NamedPoints(t) \in Seq(Names) /\ Len(NamedPoints(t)) = Len(t)
  BY NamedAre, NamedPointsAre DEF TypeOK
<1>9. Following' = <<SubSeq(NamedPoints(t), k, Len(NamedPoints(t)))>> \o Named(primary')
  <2>1. Named(<< SubSeq(t, k, Len(t)) >> \o primary')
          = <<NamedPoints(SubSeq(t, k, Len(t)))>> \o Named(primary')
    BY <1>6, <1>8, NamedFront
  <2>. QED
    BY <1>2, <1>7, <2>1, NamedPart DEF Following
<1>10. (NamedPoints(t)[1]).reach = t[1].reach /\ DOMAIN NamedPoints(t) = 1 .. Len(t)
  <2>1. 1 \in 1 .. Len(t)
    BY <1>2
  <2>2. NamedPoints(t)[1] = Name(t[1])
    BY <2>1, NamedPointsAre
  <2>. QED
    BY <1>8, <2>2 DEF Name
<1> DEFINE q == <<NamedPoints(t)>> \o Named(primary')
<1>11. q # <<>> /\ Head(q) = NamedPoints(t) /\ Tail(q) = Named(primary')
  BY <1>8, FrontOfQueue
<1>12. (Executing /\ DurationReached)' \in BOOLEAN
  BY DEF DurationReached
<1>. HIDE DEF q
<1>13. Queue!Begins(q)
  BY <1>2, <1>3, <1>4, <1>9, <1>10, <1>11, <1>12 DEF Queue!Begins, Following
<1>. QED
  BY <1>13 DEF q

\* The end of the trajectory t, none of whose points is to be executed.
LEMMA NoGoalLeftEnds ==
  ASSUME TypeOK', NEW t \in Seq(Points), NEW near, Eligible(t, near) = {},
         current' = <<>>, ~ Executing'
  PROVE  Queue!Ends(<<NamedPoints(t)>> \o Named(primary'))
<1>1. NamedPoints(t) \in Seq(Names) /\ Len(NamedPoints(t)) = Len(t) /\ Len(t) \in Nat
  BY NamedPointsAre
<1>2. NamedPoints(t) = <<>> \/ NamedPoints(t)[1].reach
  <2>1. CASE Len(t) = 0
    BY <1>1, <2>1
  <2>2. CASE Len(t) # 0
    <3>1. 1 \in 1 .. Len(t) /\ 1 \in DOMAIN t
      BY <2>2
    <3>2. t[1].reach
      BY <3>1 DEF Eligible
    <3>3. NamedPoints(t)[1] = Name(t[1])
      BY <3>1, NamedPointsAre
    <3>. QED
      BY <3>2, <3>3 DEF Name
  <2>. QED
    BY <2>1, <2>2
<1>3. primary' \in Seq(Seq(Points)) /\ Named(primary') \in Seq(Seq(Names))
  BY NamedAre DEF TypeOK
<1> DEFINE q == <<NamedPoints(t)>> \o Named(primary')
<1>4. q # <<>> /\ Head(q) = NamedPoints(t) /\ Tail(q) = Named(primary')
  BY <1>1, <1>3, FrontOfQueue
<1>5. Following' = Named(primary') /\ Queue!Still
  BY NothingCurrent
<1>. HIDE DEF q
<1>6. Queue!Ends(q)
  BY <1>2, <1>4, <1>5 DEF Queue!Ends, Following
<1>. QED
  BY <1>6 DEF q

\* updateNormalGoal with a current trajectory executes it or ends it.
LEMMA UpdateExecutes ==
  ASSUME TypeOK', NEW t \in Seq(Points), NEW near, UpdateNormalGoal(<<t>>, near)
  PROVE  Queue!Execute(<<NamedPoints(t)>> \o Named(primary'))
<1>1. CASE NextGoal(<<t>>, near)
  BY <1>1, NextGoalBegins DEF Queue!Execute
<1>2. CASE NoGoalLeft(<<t>>, near)
  <2>1. Eligible(t, near) = {} /\ current' = <<>> /\ ~ Executing'
    BY <1>2 DEF NoGoalLeft, Executing
  <2>. QED
    BY <2>1, NoGoalLeftEnds DEF Queue!Execute
<1>. QED
  BY <1>1, <1>2 DEF UpdateNormalGoal

\* Nothing of the queue changes.
LEMMA Quiet ==
  ASSUME Following' = Following, temporary' = temporary, UNCHANGED counters,
         Executing' = Executing, Over' = Over, Status' = Status,
         events'.do_discard = events.do_discard
  PROVE  UNCHANGED Queue!vars
  BY DEF Queue!vars, Following, Over, counters

\* A trajectory that is neither taken up nor put away is where it was.
LEMMA SameFollowing ==
  ASSUME UNCHANGED <<current, primary, external>>, Executing' = Executing
  PROVE  Following' = Following
  BY DEF Following, InExecution

\* Who keeps the goal keeps the point in execution, whose time goes on.
LEMMA KeepGoalKeeps ==
  ASSUME TypeOK, KeepGoal
  PROVE  /\ external' = external /\ Executing' = Executing
         /\ Over' = Over \/ (Executing /\ Over')
<1>1. external' = external /\ Executing' = Executing
  BY DEF KeepGoal, goal, Executing
<1>2. DurationReached => DurationReached'
  BY DurationStaysReached
<1>3. CASE ~ Executing
  <2>1. ~ Executing'
    BY <1>1, <1>3
  <2>2. Over' = Over
    BY <1>3, <2>1 DEF Over
  <2>. QED
    BY <1>1, <2>2
<1>4. CASE Executing /\ DurationReached
  BY <1>1, <1>2, <1>4 DEF Over
<1>5. CASE Executing /\ ~ DurationReached
  <2>1. CASE DurationReached'
    BY <1>1, <1>5, <2>1 DEF Over
  <2>2. CASE ~ DurationReached'
    <3>1. Over' = Over
      BY <1>5, <2>2 DEF Over
    <3>. QED
      BY <1>1, <3>1
  <2>. QED
    BY <2>1, <2>2
<1>. QED
  BY <1>1, <1>3, <1>4, <1>5

\* A tick in the Normal state wakes the motion up, lets time go by, or takes the next
\* point or trajectory.
LEMMA NormalTickQueue ==
  ASSUME InductiveInvariant, TypeOK', NEW near, NormalTick(near)
  PROVE  Queue!Next \/ UNCHANGED Queue!vars
<1>0. /\ TypeOK /\ events' = events /\ UNCHANGED counters
      /\ state' = "NormalRunning" /\ state' = EntryState
  BY DEF InductiveInvariant, NormalTick, NormalBeginRampDown, NormalFollowGoal, NormalNextGoal,
         NormalNextTrajectory, NormalRest, Continue
<1>1. \/ state = "NormalNone" /\ Status = "idle" /\ current = <<>> /\ ~ Executing
      \/ Status = "running"
  <2>1. \/ state = "NormalNone"
        \/ state = "NormalRunning"
        \/ state = "RampDownFinished" /\ pending = "NormalRunning"
    BY <1>0, EntryStateIs
  <2>2. state = "NormalNone" => current = <<>> /\ ~ Executing
    BY ExecutingIs DEF InductiveInvariant, ControlInv, IdleIsEmpty
  <2>. QED
    BY <2>1, <2>2 DEF Status
<1>2. Status' = "running"
  BY <1>0 DEF Status
<1>3. Executing \in BOOLEAN /\ (Executing <=> current # <<>>)
  BY <1>0, <1>1, EntryStateIs, ExecutingIs DEF NormalStates, Status
<1>4. CASE NormalBeginRampDown \/ NormalFollowGoal(near) \/ NormalRest
  <2>1. KeepGoal /\ UNCHANGED <<current, primary, temporary>>
    BY <1>4 DEF NormalBeginRampDown, NormalFollowGoal, NormalRest, queues
  <2>2. /\ external' = external /\ Executing' = Executing
        /\ Over' = Over \/ (Executing /\ Over')
    BY <1>0, <2>1, KeepGoalKeeps
  <2>3. Following' = Following /\ Named(temporary)' = Named(temporary)
    BY <2>1, <2>2, SameFollowing
  <2>4. CASE Over' = Over /\ Status = "running"
    BY <1>0, <1>2, <2>1, <2>2, <2>3, <2>4, Quiet
  <2>5. CASE Over' = Over /\ Status = "idle"
    BY <1>0, <1>2, <2>2, <2>3, <2>5
       DEF Queue!Next, Queue!Wake, Following, Over, counters
  <2>6. CASE Executing /\ Over' /\ Status = "running"
    BY <1>0, <1>2, <2>2, <2>3, <2>6
       DEF Queue!Next, Queue!Elapse, Following, Over, counters
  <2>. QED
    BY <1>1, <2>2, <2>4, <2>5, <2>6
<1>5. CASE NormalNextGoal(near)
  <2>1. /\ UpdateNormalGoal(current, near) /\ primary' = primary /\ temporary' = temporary
        /\ current # <<>> /\ DurationReached
    BY <1>5 DEF NormalNextGoal
  <2>2. current = <<current[1]>> /\ current[1] \in Seq(Points)
    BY <1>0, <2>1, CurrentIs
  <2>3. Queue!Execute(<<NamedPoints(current[1])>> \o Named(primary'))
    BY <2>1, <2>2, UpdateExecutes
  <2>4. Executing /\ Status = "running"
    BY <1>1, <1>3, <2>1
  <2>5. Following = << <<Name(external)>> \o NamedPoints(current[1]) >> \o Named(primary)
    BY <2>4, QueueIs
  <2>6. /\ NamedPoints(current[1]) \in Seq(Names) /\ Named(primary) \in Seq(Seq(Names))
        /\ Name(external) \in Names
    BY <1>0, <2>2, NamedPointsAre, NamedAre DEF TypeOK, Name, Names, Points
  <2>7. <<Name(external)>> \o NamedPoints(current[1]) \in Seq(Names)
        /\ Tail(<<Name(external)>> \o NamedPoints(current[1])) = NamedPoints(current[1])
    BY <2>6
  <2>8. /\ Head(Following) = <<Name(external)>> \o NamedPoints(current[1])
        /\ Tail(Following) = Named(primary)
    BY <2>5, <2>6, <2>7, FrontOfQueue
  <2>9. Queue!Execute(<<Tail(Head(Following))>> \o Tail(Following))
    BY <2>1, <2>3, <2>7, <2>8
  <2>10. Queue!NextPoint
    BY <1>0, <1>2, <2>1, <2>4, <2>9 DEF Queue!NextPoint, Following, counters
  <2>. QED
    BY <2>10 DEF Queue!Next
<1>6. CASE NormalNextTrajectory(near)
  <2>1. /\ UpdateNormalGoal(<<Head(primary)>>, near) /\ primary' = Tail(primary)
        /\ temporary' = temporary /\ current = <<>> /\ primary # <<>>
    BY <1>6 DEF NormalNextTrajectory
  <2>2. /\ Head(primary) \in Seq(Points)
        /\ Named(primary) = <<NamedPoints(Head(primary))>> \o Named(primary')
    BY <1>0, <2>1, NamedHeadTail DEF TypeOK
  <2>3. ~ Executing /\ Following = Named(primary)
    BY <2>1, QueueIs
  <2>4. Queue!Execute(Following)
    BY <2>1, <2>2, <2>3, UpdateExecutes
  <2>5. Queue!NextTrajectory
    BY <1>0, <1>1, <1>2, <2>1, <2>3, <2>4 DEF Queue!NextTrajectory, Following, counters
  <2>. QED
    BY <2>5 DEF Queue!Next
<1>. QED
  BY <1>4, <1>5, <1>6 DEF NormalTick

\* The end of a ramp down is reached at a standstill.
LEMMA FinishIsHalted ==
  ASSUME InductiveInvariant, FinishRampDown
  PROVE  /\ TypeOK /\ UNCHANGED counters /\ state' = "RampDownFinished"
         /\ Status = "halted" /\ ~ Executing /\ events.do_discard \in BOOLEAN
<1>1. TypeOK /\ UNCHANGED counters /\ state' = "RampDownFinished" /\ state' = EntryState
  BY DEF InductiveInvariant, FinishRampDown, Continue
<1>2. \/ state = "RampDownRunning" /\ pending = "RampDownFinished"
      \/ state = "RampDownFinished" /\ pending = "none"
  BY <1>1, EntryStateIs
<1>. QED
  BY <1>1, <1>2, ExecutingIs DEF Status, TypeOK, Events

\* A discard that was ordered is carried out there.
LEMMA FinishDiscards ==
  ASSUME InductiveInvariant, TypeOK', FinishRampDown, events.do_discard,
         current' = <<>>, ~ Executing', ~ events'.do_discard, events'.do_discard \in BOOLEAN,
         Status' \in {"halted", "running"}
  PROVE  Queue!Discard
<1>1. primary' = temporary /\ temporary' = <<>>
  BY DEF FinishRampDown
<1>2. Following' = Named(temporary) /\ Queue!Still
  BY <1>1, NothingCurrent
<1>3. Named(temporary)' = <<>>
  BY <1>1, NamedNone
<1>. QED
  BY <1>2, <1>3, FinishIsHalted DEF Queue!Discard, Following, counters

\* The request to go on is accepted at the end of a ramp down.
LEMMA GoesOn ==
  ASSUME state' = "RampDownFinished", SetPending("NormalRunning")
  PROVE  Status' = "running"
<1>1. pending' = "NormalRunning"
  BY DEF SetPending, Successors, States, NormalStates, RampDownStates, StaticGoalStates
<1>. QED
  BY <1>1 DEF Status

\* A ramp down puts the interrupted point back, discards what was ordered to be, and
\* at its end goes on with the queue.
LEMMA RampDownTickQueue ==
  ASSUME InductiveInvariant, TypeOK', NEW near, RampDownTick(near)
  PROVE  Queue!Next \/ UNCHANGED Queue!vars
<1>0. /\ TypeOK /\ events \in Events /\ UNCHANGED counters /\ state' = EntryState
      /\ primary \in Seq(Seq(Points))
  BY DEF InductiveInvariant, RampDownTick, RampDownStart, RampDownRun, RampDownWait,
         RampDownToStaticGoal, RampDownToNormal, FinishRampDown, Continue, TypeOK
<1>1. CASE RampDownStart
  <2>1. /\ state' = "RampDownNone" /\ UNCHANGED <<events, primary, temporary, external>>
        /\ current' = IF active THEN StoreNormalGoal ELSE current
        /\ ~ Executing' /\ pending' \in {"RampDownRunning", "none"}
    BY <1>1 DEF RampDownStart, Interpolate, Executing, goal, SetPending
  <2>2. /\ state \in {"NormalRunning", "StaticRunning", "StaticFinished"}
        /\ pending = "RampDownNone"
    BY <1>0, <2>1, EntryStateIs
  <2>3. Status' = "halted"
    BY <2>1 DEF Status
  <2>4. CASE Executing
    <3>1. active /\ current # <<>>
      BY <2>4, ExecutingIs DEF Executing
    <3>2. current = <<current[1]>> /\ current[1] \in Seq(Points)
      BY <1>0, <3>1, CurrentIs
    <3>3. current' = << <<Stored>> \o current[1] >> /\ Stored \in Points
      BY <1>0, <2>1, <3>1, StoreType
    <3>4. Name(Stored) = Name(external)
      BY <1>0 DEF Stored, Name, TypeOK, Points
    <3>5. Following' = << <<Name(external)>> \o NamedPoints(current[1]) >> \o Named(primary)
      <4>1. Following' = Named(<< <<Stored>> \o current[1] >> \o primary)
        BY <2>1, <3>3 DEF Following, InExecution
      <4>. QED
        BY <1>0, <3>2, <3>3, <3>4, <4>1, FollowingIs, ZenonT(40)
    <3>6. Following' = Following /\ Named(temporary)' = Named(temporary)
      BY <2>1, <2>4, <3>5, QueueIs
    <3>7. Status = "running"
      BY <2>2, <2>4, ExecutingIs DEF Status, StaticGoalStates
    <3>8. Queue!Halt
      BY <1>0, <2>1, <2>3, <3>6, <3>7 DEF Queue!Halt, Queue!Still, Following, counters
    <3>. QED
      BY <3>8 DEF Queue!Next
  <2>5. CASE ~ Executing
    <3>1. current = <<>>
      BY <2>2, <2>5, ExecutingIs DEF NormalStates, StaticGoalStates
    <3>2. current' = current
      BY <2>1, <3>1 DEF StoreNormalGoal
    <3>3. Executing' = Executing /\ Over' = Over
      BY <2>1, <2>5 DEF Executing, Over
    <3>4. Following' = Following /\ Named(temporary)' = Named(temporary)
      BY <2>1, <3>2, <3>3, SameFollowing
    <3>5. CASE state = "NormalRunning"
      <4>1. Status = "running"
        BY <3>5 DEF Status
      <4>2. Queue!Halt
        BY <1>0, <2>1, <2>3, <3>4, <4>1 DEF Queue!Halt, Queue!Still, Following, counters
      <4>. QED
        BY <4>2 DEF Queue!Next
    <3>6. CASE state # "NormalRunning"
      <4>1. Status = "halted"
        BY <2>2, <3>6 DEF Status
      <4>. QED
        BY <1>0, <2>1, <2>3, <3>3, <3>4, <4>1, Quiet
    <3>. QED
      BY <3>5, <3>6
  <2>. QED
    BY <2>4, <2>5
<1>2. CASE RampDownRun
  <2>1. /\ KeepGoal /\ UNCHANGED <<current, primary, temporary, events>>
        /\ state' = "RampDownRunning" /\ pending' \in {"RampDownFinished", "none"}
    BY <1>2 DEF RampDownRun, queues, SetPending
  <2>2. \/ state = "RampDownNone" /\ pending = "RampDownRunning"
        \/ state = "RampDownRunning" /\ pending = "none"
    BY <1>0, <2>1, EntryStateIs
  <2>3. ~ Executing /\ Status' = Status
    BY <2>1, <2>2, ExecutingIs DEF Status
  <2>4. external' = external /\ Executing' = Executing /\ Over' = Over
    BY <1>0, <2>1, <2>3, KeepGoalKeeps
  <2>. QED
    BY <1>0, <2>1, <2>3, <2>4, SameFollowing, Quiet
<1>3. CASE RampDownWait \/ RampDownToStaticGoal
  <2>1. /\ FinishRampDown /\ KeepGoal /\ current' = Kept
        /\ events'.do_discard = FALSE /\ pending' \in {"StaticNone", "none"}
    BY <1>0, <1>3 DEF RampDownWait, RampDownToStaticGoal, Handled, Events, SetPending
  <2>2. /\ state' = "RampDownFinished" /\ Status = "halted" /\ ~ Executing
    BY <2>1, FinishIsHalted
  <2>3. Status' = "halted"
    BY <2>1, <2>2 DEF Status
  <2>4. external' = external /\ Executing' = Executing /\ Over' = Over
    BY <1>0, <2>1, <2>2, KeepGoalKeeps
  <2>5. CASE events.do_discard
    BY <2>1, <2>2, <2>3, <2>4, <2>5, FinishDiscards DEF Kept, Queue!Next
  <2>6. CASE ~ events.do_discard
    <3>1. UNCHANGED <<current, primary, temporary>> /\ events.do_discard = FALSE
      BY <1>0, <2>1, <2>6 DEF Kept, FinishRampDown, Events
    <3>. QED
      BY <1>0, <2>1, <2>2, <2>3, <2>4, <3>1, SameFollowing, Quiet
  <2>. QED
    BY <2>5, <2>6
<1>4. CASE RampDownToNormal(near)
  <2>1. /\ FinishRampDown /\ UpdateNormalGoal(Kept, near) /\ SetPending("NormalRunning")
        /\ events'.do_discard = FALSE
    BY <1>0, <1>4 DEF RampDownToNormal, Handled, Events
  <2>2. /\ Status = "halted" /\ ~ Executing /\ Status' = "running"
    BY <2>1, FinishIsHalted, GoesOn
  <2>3. CASE Kept = <<>>
    <3>1. current' = <<>> /\ ~ Executing'
      BY <2>1, <2>3 DEF UpdateNormalGoal, NextGoal, NoGoalLeft, Executing
    <3>2. CASE events.do_discard
      BY <2>1, <2>2, <3>1, <3>2, FinishDiscards DEF Queue!Next
    <3>3. CASE ~ events.do_discard
      <4>1. current = <<>> /\ primary' = primary /\ temporary' = temporary
            /\ events.do_discard = FALSE
        BY <1>0, <2>1, <2>3, <3>3 DEF Kept, FinishRampDown, Events
      <4>2. Following = Named(primary)
        BY <4>1, QueueIs
      <4>3. Following' = Following /\ Queue!Still
        BY <3>1, <4>1, <4>2, NothingCurrent
      <4>4. Queue!Resume
        BY <1>0, <2>1, <2>2, <4>1, <4>3 DEF Queue!Resume, Following, counters
      <4>. QED
        BY <4>4 DEF Queue!Next
    <3>. QED
      BY <3>2, <3>3
  <2>4. CASE Kept # <<>>
    <3>1. /\ ~ events.do_discard /\ events.do_discard = FALSE /\ current # <<>>
          /\ UpdateNormalGoal(current, near) /\ primary' = primary /\ temporary' = temporary
      BY <1>0, <2>1, <2>4 DEF Kept, FinishRampDown, Events
    <3>2. current = <<current[1]>> /\ current[1] \in Seq(Points)
      BY <1>0, <3>1, CurrentIs
    <3>3. Queue!Execute(<<NamedPoints(current[1])>> \o Named(primary'))
      BY <3>1, <3>2, UpdateExecutes
    <3>4. Queue!Execute(Following)
      BY <2>2, <3>1, <3>3, QueueIs
    <3>5. Queue!Resume
      BY <1>0, <2>1, <2>2, <3>1, <3>4 DEF Queue!Resume, Following, counters
    <3>. QED
      BY <3>5 DEF Queue!Next
  <2>. QED
    BY <2>3, <2>4
<1>. QED
  BY <1>1, <1>2, <1>3, <1>4 DEF RampDownTick

\* A static goal leaves the queue; what is left of a trajectory becomes one again.
LEMMA StaticGoalTickQueue ==
  ASSUME InductiveInvariant, TypeOK', StaticGoalTick
  PROVE  UNCHANGED Queue!vars
<1>0. TypeOK /\ events \in Events /\ UNCHANGED counters /\ state' = EntryState
  BY DEF InductiveInvariant, StaticGoalTick, StaticGoalStart, StaticGoalRun, StaticGoalFinish,
         Continue, TypeOK
<1>1. CASE StaticGoalStart
  <2>1. /\ state' = "StaticNone" /\ events' = events /\ temporary' = temporary
        /\ primary' = current \o primary /\ current' = <<>> /\ ~ Executing'
        /\ pending' \in {"StaticRunning", "none"}
    BY <1>1 DEF StaticGoalStart, Executing, SetPending
  <2>2. state = "RampDownFinished" /\ pending = "StaticNone"
    BY <1>0, <2>1, EntryStateIs
  <2>3. ~ Executing
    BY <2>2, ExecutingIs
  <2>4. Status' = Status
    BY <2>1, <2>2 DEF Status
  <2>5. Following' = Following
    <3>1. current \in Seq(Seq(Points)) /\ primary \in Seq(Seq(Points))
      BY <1>0 DEF TypeOK
    <3>2. current' \o primary' = current \o primary
      BY <2>1, <3>1
    <3>. QED
      BY <2>1, <2>3, <3>2 DEF Following, InExecution
  <2>6. Executing' = Executing /\ Over' = Over
    BY <2>1, <2>3 DEF Executing, Over
  <2>. QED
    BY <1>0, <2>1, <2>4, <2>5, <2>6, Quiet
<1>2. CASE StaticGoalRun
  <2>1. /\ state' = "StaticRunning" /\ UNCHANGED <<current, primary, temporary, external>>
        /\ events'.do_discard = events.do_discard
        /\ pending' \in {"StaticFinished", "RampDownNone", "none"}
    BY <1>0, <1>2, KeepGoalKeeps
       DEF StaticGoalRun, queues, Events, FollowStaticGoal, SetPending
  <2>2. \/ state = "StaticNone" /\ pending = "StaticRunning"
        \/ state = "StaticRunning" /\ pending = "none"
    BY <1>0, <2>1, EntryStateIs
  <2>3. ~ Executing
    BY <2>2, ExecutingIs DEF StaticGoalStates
  <2>4. Executing' = FALSE
    BY <1>0, <1>2, <2>3, KeepGoalKeeps
       DEF StaticGoalRun, FollowStaticGoal, Interpolate, Executing
  <2>5. Executing' = Executing /\ Over' = Over
    BY <2>3, <2>4 DEF Executing, Over
  <2>6. Status' = Status
    BY <2>1, <2>2 DEF Status
  <2>. QED
    BY <1>0, <2>1, <2>5, <2>6, SameFollowing, Quiet
<1>3. CASE StaticGoalFinish
  <2>1. /\ KeepGoal /\ UNCHANGED <<current, primary, temporary>>
        /\ events'.do_discard = events.do_discard
        /\ state' = "StaticFinished" /\ pending' \in {"RampDownNone", "none"}
    BY <1>0, <1>3 DEF StaticGoalFinish, queues, Events, SetPending
  <2>2. state = "StaticRunning" /\ pending = "StaticFinished"
    BY <1>0, <2>1, EntryStateIs
  <2>3. ~ Executing /\ Status' = Status
    BY <2>1, <2>2, ExecutingIs DEF StaticGoalStates, Status
  <2>4. external' = external /\ Executing' = Executing /\ Over' = Over
    BY <1>0, <2>1, <2>3, KeepGoalKeeps
  <2>. QED
    BY <1>0, <2>1, <2>3, <2>4, SameFollowing, Quiet
<1>. QED
  BY <1>1, <1>2, <1>3 DEF StaticGoalTick

----------------------------------------------------------------------------
\* What a session that changes gives back to the queue: all of it, with the
\* point in front twice if its execution was being interrupted.
LEMMA ReturnedIs ==
  ASSUME InductiveInvariant
  PROVE  /\ Returned \in Seq(Seq(Points))
         /\ \/ Named(Returned) = Following
            \/ /\ Status = "halted" /\ Following # <<>> /\ Following[1] # <<>>
               /\ Named(Returned) = Queue!FirstTwice(Following)
<1>0. TypeOK /\ primary \in Seq(Seq(Points)) /\ external \in Points
  BY DEF InductiveInvariant, TypeOK
<1>1. Returned \in Seq(Seq(Points))
  BY <1>0, ReturnedType
<1>2. CASE current = <<>>
  <2>1. Returned = primary
    BY <1>0, <1>2 DEF Returned, StoreNormalGoal
  <2>. QED
    BY <1>1, <1>2, <2>1, QueueIs
<1>3. CASE current # <<>>
  <2>1. current = <<current[1]>> /\ current[1] \in Seq(Points)
    BY <1>0, <1>3, CurrentIs
  <2>2. Returned = << <<Stored>> \o current[1] >> \o primary /\ Stored \in Points
    BY <1>0, <1>3, StoreType DEF Returned
  <2>3. Name(Stored) = Name(external)
    BY <1>0 DEF Stored, Name, Points
  <2>4. Named(Returned) = << <<Name(external)>> \o NamedPoints(current[1]) >> \o Named(primary)
    BY <1>0, <2>1, <2>2, <2>3, FollowingIs
  <2>5. CASE Executing
    BY <1>1, <2>4, <2>5, QueueIs
  <2>6. CASE ~ Executing
    <3>1. Following = <<NamedPoints(current[1])>> \o Named(primary)
      BY <1>3, <2>6, QueueIs
    <3>2. state \in RampDownStates /\ ~ (pending = "NormalRunning" /\ state = "RampDownFinished")
      BY <1>0, <1>3, <2>6, ExecutingIs DEF TypeOK, States
    <3>3. Status = "halted"
      BY <3>2 DEF InductiveInvariant, ControlInv, RampDownInv, RampDownStates, Status
    <3>4. /\ current[1] # <<>> /\ current[1][1].id = external.id
          /\ current[1][1].reach = external.reach
      BY <1>3, <2>6, <3>2 DEF InductiveInvariant, ControlInv, InterruptedPointKept
    <3>5. /\ NamedPoints(current[1]) \in Seq(Names) /\ NamedPoints(current[1]) # <<>>
          /\ NamedPoints(current[1])[1] = Name(external)
      <4>1. 1 \in 1 .. Len(current[1])
        BY <2>1, <3>4
      <4>2. /\ NamedPoints(current[1]) \in Seq(Names)
            /\ Len(NamedPoints(current[1])) = Len(current[1])
            /\ NamedPoints(current[1])[1] = Name(current[1][1])
        BY <2>1, <4>1, NamedPointsAre
      <4>3. NamedPoints(current[1]) # <<>>
        BY <4>1, <4>2
      <4>. QED
        BY <3>4, <4>2, <4>3 DEF Name
    <3>6. Named(primary) \in Seq(Seq(Names))
      BY <1>0, NamedAre
    <3>7. /\ Following # <<>> /\ Following[1] = NamedPoints(current[1])
          /\ Tail(Following) = Named(primary)
      BY <3>1, <3>5, <3>6, FrontOfQueue
    <3>8. Named(Returned) = Queue!FirstTwice(Following)
      BY <2>4, <3>5, <3>7 DEF Queue!FirstTwice
    <3>. QED
      BY <1>1, <3>3, <3>5, <3>7, <3>8
  <2>. QED
    BY <2>5, <2>6
<1>. QED
  BY <1>2, <1>3

\* A new session begins with what the one before gave back.
LEMMA Restarts ==
  ASSUME InductiveInvariant, FirstMessage, temporary' = temporary,
         Queue!FollowAnew(Named(Returned)), Status' \in {"idle", "running"}
  PROVE  Queue!Restart
<1>1. /\ sessions' = sessions + 1 /\ issued' = issued
      /\ events'.do_discard = events.do_discard
  BY DEF FirstMessage
<1>2. CASE Named(Returned) = Following
  BY <1>1, <1>2 DEF Queue!Restart, Following
<1>3. CASE /\ Status = "halted" /\ Following # <<>> /\ Following[1] # <<>>
           /\ Named(Returned) = Queue!FirstTwice(Following)
  BY <1>1, <1>3 DEF Queue!Restart, Following
<1>. QED
  BY <1>2, <1>3, ReturnedIs

\* A session that changes begins anew or loses all.
LEMMA SessionChangeQueue ==
  ASSUME InductiveInvariant, TypeOK', NEW near, SessionChange(near)
  PROVE  Queue!Next \/ UNCHANGED Queue!vars
<1>0. Returned \in Seq(Seq(Points))
  BY ReturnedIs
<1>1. CASE NewSessionNotOk \/ NewSessionRest
  <2>1. /\ FirstMessage /\ primary' = Returned /\ current' = <<>> /\ ~ Executing'
        /\ temporary' = temporary /\ Status' \in {"idle", "running"}
    BY <1>1 DEF NewSessionNotOk, NewSessionRest, Executing, Status
  <2>2. Following' = Named(Returned) /\ Queue!Still
    BY <2>1, NothingCurrent
  <2>3. Queue!FollowAnew(Named(Returned))
    BY <2>2 DEF Queue!FollowAnew, Following
  <2>. QED
    BY <2>1, <2>3, Restarts DEF Queue!Next
<1>2. CASE NewSessionNextTrajectory(near)
  <2>1. /\ FirstMessage /\ primary' = Tail(Returned) /\ temporary' = temporary
        /\ Returned # <<>> /\ Status' = "running"
        /\ \/ NextGoal(<<Head(Returned)>>, near)
           \/ Eligible(Head(Returned), near) = {} /\ current' = <<>> /\ ~ Executing'
    BY <1>2 DEF NewSessionNextTrajectory, Executing, Status
  <2>2. /\ Head(Returned) \in Seq(Points)
        /\ Named(Returned) = <<NamedPoints(Head(Returned))>> \o Named(primary')
    BY <1>0, <2>1, NamedHeadTail
  <2>3. Queue!Begins(Named(Returned)) \/ Queue!Ends(Named(Returned))
    BY <2>1, <2>2, NextGoalBegins, NoGoalLeftEnds
  <2>4. Queue!FollowAnew(Named(Returned))
    BY <2>3 DEF Queue!FollowAnew, Queue!Execute
  <2>. QED
    BY <2>1, <2>4, Restarts DEF Queue!Next
<1>3. CASE SessionLost
  <2>1. /\ current' = <<>> /\ primary' = <<>> /\ temporary' = <<>> /\ ~ Executing'
        /\ events' = events /\ UNCHANGED counters /\ Status' = "idle"
    BY <1>3 DEF SessionLost, Executing, Status
  <2>2. Following' = <<>> /\ Queue!Still /\ Named(temporary)' = <<>>
    BY <2>1, NothingCurrent, NamedNone
  <2>3. Queue!Lose
    BY <2>1, <2>2 DEF Queue!Lose, Following, counters
  <2>. QED
    BY <2>3 DEF Queue!Next
<1>4. CASE SessionIdle
  <2>1. /\ UNCHANGED <<manager, events, active, queues, goal, motion, passed, counters>>
    BY <1>4 DEF SessionIdle
  <2>2. Executing' = Executing /\ Over' = Over /\ Status' = Status
    BY <2>1 DEF manager, Executing, Over, DurationReached, Status
  <2>. QED
    BY <2>1, <2>2, SameFollowing, Quiet DEF queues, goal
<1>. QED
  BY <1>1, <1>2, <1>3, <1>4 DEF SessionChange

\* An ordered trajectory gets its numbers.
ReachOf(t) == [i \in DOMAIN t |-> t[i].reach]

LEMMA NumberedNames ==
  ASSUME TypeOK, NEW t \in Trajectories, Issue(t)
  PROVE  /\ ReachOf(t) \in Queue!Orders
         /\ Numbered(t) \in Seq(Points)
         /\ NamedPoints(Numbered(t)) = Queue!Fresh(ReachOf(t))
         /\ Queue!Issue(ReachOf(t))
<1>1. t \in Seq([reach : BOOLEAN, dur : Nat]) /\ issued \in Nat
  BY TrajectoriesAssumption DEF TypeOK
<1>2. /\ Len(t) \in Nat /\ DOMAIN t = 1 .. Len(t)
      /\ \A i \in 1 .. Len(t) : t[i].reach \in BOOLEAN
  <2>1. ASSUME NEW T, NEW s \in Seq(T)
        PROVE  Len(s) \in Nat /\ DOMAIN s = 1 .. Len(s) /\ \A i \in 1 .. Len(s) : s[i] \in T
    OBVIOUS
  <2>2. /\ Len(t) \in Nat /\ DOMAIN t = 1 .. Len(t)
        /\ \A i \in 1 .. Len(t) : t[i] \in [reach : BOOLEAN, dur : Nat]
    BY <1>1, <2>1
  <2>. QED
    BY <2>2
<1>3. /\ issued + Larger(1, Len(t)) <= MaxPoints
      /\ issued' = issued + Larger(1, Len(t))
  BY DEF Issue
<1>4. Len(t) \in 0 .. MaxPoints
  BY <1>1, <1>2, <1>3, BoundsAssumption DEF Larger
<1>5. ReachOf(t) = [i \in 1 .. Len(t) |-> t[i].reach]
  BY <1>2 DEF ReachOf
<1>6. ReachOf(t) \in [1 .. Len(t) -> BOOLEAN]
  BY <1>2, <1>5
<1>7. ReachOf(t) \in Queue!Orders
  BY <1>4, <1>6 DEF Queue!Orders
<1>8. Numbered(t) \in Seq(Points)
  BY NumberedType
<1>9. NamedPoints(Numbered(t)) = Queue!Fresh(ReachOf(t))
  <2>1. Numbered(t) = [i \in 1 .. Len(t) |->
          [id |-> issued + i, reach |-> t[i].reach, dur |-> t[i].dur]]
    BY <1>2 DEF Numbered
  <2>2. NamedPoints(Numbered(t))
          = [i \in 1 .. Len(t) |-> [id |-> issued + i, reach |-> t[i].reach]]
    BY <2>1 DEF NamedPoints, Name
  <2>3. Queue!Fresh(ReachOf(t))
          = [i \in 1 .. Len(t) |-> [id |-> issued + i, reach |-> t[i].reach]]
    BY <1>5 DEF Queue!Fresh
  <2>. QED
    BY <2>2, <2>3
<1>10. Queue!Issue(ReachOf(t))
  <2>1. ReachOf(t) \in Seq(BOOLEAN) /\ Len(ReachOf(t)) = Len(t)
    BY <1>2, <1>5, <1>6
  <2>2. ReachOf(t) = <<>> <=> Len(t) = 0
    BY <2>1
  <2>3. CASE Len(t) = 0
    BY <1>3, <2>2, <2>3 DEF Queue!Issue, Larger
  <2>4. CASE Len(t) # 0
    <3>1. Larger(1, Len(t)) = Len(t)
      BY <1>2, <2>4 DEF Larger
    <3>. QED
      BY <1>3, <2>1, <2>2, <2>4, <3>1 DEF Queue!Issue
  <2>. QED
    BY <2>3, <2>4
<1>. QED
  BY <1>7, <1>8, <1>9, <1>10

\* A call leaves the motion as it is.
LEMMA OrderKeeps ==
  ASSUME UNCHANGED <<manager, active, goal, motion, passed>>
  PROVE  /\ Executing' = Executing /\ Over' = Over /\ Status' = Status
         /\ external' = external
  BY DEF manager, goal, Executing, Over, DurationReached, Status

\* addTrajectory puts a trajectory behind the queue, or into the buffer of a discard.
LEMMA AddTrajectoryQueue ==
  ASSUME InductiveInvariant, NEW t \in Trajectories, AddTrajectory(t)
  PROVE  Queue!Add(ReachOf(t)) /\ ReachOf(t) \in Queue!Orders
<1>0. /\ TypeOK /\ Issue(t) /\ events' = events /\ current' = current /\ sessions' = sessions
      /\ primary \in Seq(Seq(Points)) /\ temporary \in Seq(Seq(Points))
      /\ current \in Seq(Seq(Points)) /\ external \in Points
  BY DEF InductiveInvariant, TypeOK, AddTrajectory, Order
<1>1. /\ Executing' = Executing /\ Over' = Over /\ Status' = Status /\ external' = external
  BY OrderKeeps DEF AddTrajectory, Order
<1>2. Status = "running"
  BY DEF AddTrajectory, Order, Status
<1> DEFINE fresh == Queue!Fresh(ReachOf(t))
<1>3. /\ ReachOf(t) \in Queue!Orders /\ Numbered(t) \in Seq(Points)
      /\ NamedPoints(Numbered(t)) = fresh /\ Queue!Issue(ReachOf(t))
  BY <1>0, NumberedNames
<1>. HIDE DEF fresh
<1>4. CASE events.do_discard
  <2>1. temporary' = Append(temporary, Numbered(t)) /\ primary' = primary
    BY <1>4 DEF AddTrajectory
  <2>2. Named(temporary)' = Append(Named(temporary), fresh)
    BY <1>0, <1>3, <2>1, NamedBack
  <2>3. Following' = Following
    BY <1>0, <1>1, <2>1, SameFollowing
  <2>. QED
    BY <1>0, <1>1, <1>2, <1>3, <1>4, <2>2, <2>3 DEF Queue!Add, Following, Over, fresh
<1>5. CASE ~ events.do_discard
  <2>1. primary' = Append(primary, Numbered(t)) /\ temporary' = temporary
    BY <1>5 DEF AddTrajectory
  <2>2. InExecution' = InExecution /\ InExecution \in Seq(Seq(Points))
    <3>1. CASE Executing
      <4>1. current # <<>>
        BY <3>1, ExecutingIs
      <4>2. <<external>> \o current[1] \in Seq(Points)
        BY <1>0, <4>1, CurrentIs
      <4>. QED
        BY <1>0, <1>1, <3>1, <4>2 DEF InExecution
    <3>2. CASE ~ Executing
      BY <1>0, <1>1, <3>2 DEF InExecution
    <3>. QED
      BY <3>1, <3>2
  <2>3. /\ InExecution \o primary \in Seq(Seq(Points))
        /\ InExecution \o Append(primary, Numbered(t))
             = Append(InExecution \o primary, Numbered(t))
    BY <1>0, <1>3, <2>2, SMTT(30)
  <2>4. Following' = Append(Following, fresh)
    BY <1>3, <2>1, <2>2, <2>3, NamedBack DEF Following
  <2>5. Named(temporary)' = Named(temporary)
    BY <2>1
  <2>. QED
    BY <1>0, <1>1, <1>2, <1>3, <1>5, <2>4, <2>5 DEF Queue!Add, Following, Over, fresh
<1>. QED
  BY <1>3, <1>4, <1>5

\* A trajectory that overrides takes the place of the buffer and orders the discard.
LEMMA OverrideQueue ==
  ASSUME InductiveInvariant, NEW t \in Trajectories, OverrideTrajectories(t)
  PROVE  Queue!Override(ReachOf(t)) /\ ReachOf(t) \in Queue!Orders
<1>0. /\ TypeOK /\ Issue(t) /\ events \in Events /\ sessions' = sessions
      /\ UNCHANGED <<current, primary>> /\ temporary' = <<Numbered(t)>>
  BY DEF InductiveInvariant, TypeOK, OverrideTrajectories, Order
<1>1. /\ Executing' = Executing /\ Over' = Over /\ Status' = Status /\ external' = external
  BY OrderKeeps DEF OverrideTrajectories, Order
<1>2. Status = "running"
  BY DEF OverrideTrajectories, Order, Status
<1>3. events'.do_discard = TRUE
  BY <1>0 DEF OverrideTrajectories, Events
<1>4. /\ ReachOf(t) \in Queue!Orders /\ Numbered(t) \in Seq(Points)
      /\ NamedPoints(Numbered(t)) = Queue!Fresh(ReachOf(t)) /\ Queue!Issue(ReachOf(t))
  BY <1>0, NumberedNames
<1>5. Named(temporary)' = <<Queue!Fresh(ReachOf(t))>>
  BY <1>0, <1>4, NamedOne
<1>6. Following' = Following
  BY <1>0, <1>1, SameFollowing
<1>. QED
  BY <1>0, <1>1, <1>2, <1>3, <1>4, <1>5, <1>6 DEF Queue!Override, Following, Over

\* A call that only orders something changes at most whether a discard is, and that
\* only while the motion runs.
LEMMA OrderQueue ==
  ASSUME UNCHANGED <<manager, active, goal, motion, passed, queues, counters>>,
         \/ Status = "running" /\ events'.do_discard \in BOOLEAN
         \/ events'.do_discard = events.do_discard
  PROVE  Queue!SetDiscard \/ UNCHANGED Queue!vars
<1>1. /\ Executing' = Executing /\ Over' = Over /\ Status' = Status /\ external' = external
  BY OrderKeeps
<1>2. Following' = Following /\ temporary' = temporary
  BY <1>1, SameFollowing DEF queues
<1>3. CASE Status = "running" /\ events'.do_discard \in BOOLEAN
  BY <1>1, <1>2, <1>3 DEF Queue!SetDiscard, Following, Over, counters
<1>4. CASE events'.do_discard = events.do_discard
  BY <1>1, <1>2, <1>4, Quiet
<1>. QED
  BY <1>3, <1>4

\* Every call adds, overrides, or changes at most whether a discard is ordered.
LEMMA UserCallQueue ==
  ASSUME InductiveInvariant, TypeOK', UserCall
  PROVE  Queue!Next \/ UNCHANGED Queue!vars
<1>0. events'.do_discard \in BOOLEAN /\ events \in Events
  BY DEF InductiveInvariant, TypeOK, Events
<1>1. CASE \E t \in Trajectories : AddTrajectory(t) \/ OverrideTrajectories(t)
  BY <1>1, AddTrajectoryQueue, OverrideQueue DEF Queue!Next
<1>2. CASE \/ \E discard \in BOOLEAN : StopTrajectory(discard) \/ StartStaticGoal(discard)
           \/ \E f \in Factors : UpdateDurationFactor(f)
  <2>1. /\ UNCHANGED <<manager, active, goal, motion, passed, queues, counters>>
        /\ Status = "running"
    BY <1>2 DEF StopTrajectory, StartStaticGoal, UpdateDurationFactor, Order, Status,
       queues, counters
  <2>. QED
    BY <1>0, <2>1, OrderQueue DEF Queue!Next
<1>3. CASE \/ ResumeTrajectory
           \/ \E position, fast \in BOOLEAN : SetStaticGoal(position, fast)
           \/ \E resume \in BOOLEAN : FinishStaticGoal(resume)
  <2>1. UNCHANGED <<manager, active, goal, motion, passed, queues, counters>>
    BY <1>3 DEF ResumeTrajectory, SetStaticGoal, FinishStaticGoal, Order, queues, counters
  <2>2. events'.do_discard = events.do_discard
    <3>1. CASE ResumeTrajectory
      BY <1>0, <3>1 DEF ResumeTrajectory, Events
    <3>2. CASE \E position, fast \in BOOLEAN : SetStaticGoal(position, fast)
      BY <1>0, <3>2 DEF SetStaticGoal, Events
    <3>3. CASE \E resume \in BOOLEAN : FinishStaticGoal(resume)
      BY <1>0, <3>3 DEF FinishStaticGoal, Events
    <3>. QED
      BY <1>3, <3>1, <3>2, <3>3
  <2>. QED
    BY <2>1, <2>2, OrderQueue DEF Queue!Next
<1>4. CASE RetrieveExecutionProgress
  <2>1. /\ UNCHANGED <<manager, active, goal, motion, passed, queues, counters>>
        /\ events'.do_discard = events.do_discard
    BY <1>4 DEF RetrieveExecutionProgress
  <2>. QED
    BY <2>1, OrderQueue DEF Queue!Next
<1>. QED
  BY <1>1, <1>2, <1>3, <1>4 DEF UserCall

\* Every step of the motion is one of the queue, or leaves the queue as it is.
LEMMA QueueStep ==
  ASSUME InductiveInvariant, [Next]_vars
  PROVE  [Queue!Next]_(Queue!vars)
<1>1. TypeOK'
  BY TypeStep DEF InductiveInvariant
<1>2. ASSUME NEW near \in SUBSET (1 .. MaxPoints), Tick(near)
      PROVE  Queue!Next \/ UNCHANGED Queue!vars
  <2>1. NormalTick(near) => Queue!Next \/ UNCHANGED Queue!vars
    BY <1>1, NormalTickQueue
  <2>2. RampDownTick(near) => Queue!Next \/ UNCHANGED Queue!vars
    BY <1>1, RampDownTickQueue
  <2>3. StaticGoalTick => UNCHANGED Queue!vars
    BY <1>1, StaticGoalTickQueue
  <2>. QED
    BY <1>2, <2>1, <2>2, <2>3 DEF Tick
<1>3. ASSUME NEW near \in SUBSET (1 .. MaxPoints), SessionChange(near)
      PROVE  Queue!Next \/ UNCHANGED Queue!vars
  BY <1>1, <1>3, SessionChangeQueue
<1>4. CASE UserCall
  BY <1>1, <1>4, UserCallQueue
<1>5. CASE UNCHANGED vars
  <2>1. /\ UNCHANGED <<manager, active, goal, motion, passed, queues, counters>>
        /\ events'.do_discard = events.do_discard
    BY <1>5 DEF vars, manager, goal, queues, counters
  <2>. QED
    BY <2>1, OrderQueue DEF Queue!Next
<1>. QED
  BY <1>2, <1>3, <1>4, <1>5 DEF Next, Loop

\* The motion begins with an empty queue.
LEMMA QueueInit == Init => Queue!Init
<1>1. <<>> \o <<>> = <<>>
  OBVIOUS
<1>. QED
  BY <1>1, NamedNone DEF Init, Queue!Init, InExecution, Executing, Status, NoEvents

\* The deques of shared trajectories and the goal taken out of them are one queue:
\* for all trajectories, calls, ticks and sessions, points are executed in the
\* order they came in, and none is lost or repeated that was not executed to the end
\* of its time, skipped for its reach condition, discarded, lost with the session or
\* interrupted by a new one.  What a ramp down interrupts stays in front.
THEOREM ImplementsQueueHolds == Spec => ImplementsQueue
<1>1. InductiveInvariant /\ [Next]_vars => [Queue!Next]_(Queue!vars)
  BY QueueStep
<1>. QED
  BY <1>1, QueueInit, InductiveInvariantHolds, PTL DEF Spec, ImplementsQueue, Queue!Spec

\* A step of the user's specification is one of the motion's.
LEMMA UserStepIsStep == [UserNext]_userVars => [Next]_vars
  BY DEF UserNext, Next, UserCall, userVars, vars

\* So they are for the user's specification, whose steps are the motion's.
THEOREM UserImplementsQueue == UserSpec => ImplementsQueue
<1>1. UserInit => Init
  BY DEF UserInit
<1>2. InductiveInvariant /\ [UserNext]_userVars
        => InductiveInvariant' /\ [Queue!Next]_(Queue!vars)
  BY UserStepIsStep, InvariantStep, QueueStep
<1>3. Init => InductiveInvariant
  BY InvariantInit
<1>. QED
  BY <1>1, <1>2, <1>3, QueueInit, PTL DEF UserSpec, ImplementsQueue, Queue!Spec

----------------------------------------------------------------------------
(* What the user has said                                                  *)

\* A user who wants the robot to go on has left a resume order with whatever
\* stops it: a stop, or a static goal that is about to be finished.
ResumeOrdered ==
  order = "go" =>
    /\ events.do_stop => events.do_resume
    /\ events.do_static_goal_finish => events.do_resume

\* A static goal's end is only ordered while it runs; what a lost session has
\* left of such an order makes the user's word unclear.
FinishOrdered ==
  /\ events.do_static_goal_finish => state = "StaticRunning" \/ order = "unclear"
  /\ pending = "StaticFinished" => events.do_static_goal_finish

\* A running static goal is not ramped down before it is finished.
NoRampDown ==
  (pending = "StaticNone" \/ state \in {"StaticNone", "StaticRunning"}) =>
    ~events.do_ramp_down /\ pending # "RampDownNone"

WordInv == ResumeOrdered /\ FinishOrdered /\ NoRampDown
UserInv == InductiveInvariant /\ WordInv

----------------------------------------------------------------------------
(* The steps                                                               *)

\* What the tick leaves pending is a successor of the state it enters.
LEMMA PendingAfter ==
  ASSUME NEW s, SetPending(s)
  PROVE  pending' \in {s, "none"}
  BY DEF SetPending

\* In the Normal state no event changes.
LEMMA NormalTickWord ==
  ASSUME UserInv, NEW near, NormalTick(near), order' = order
  PROVE  WordInv'
<1>1. state' = "NormalRunning" /\ EntryState = "NormalRunning" /\ events' = events
  BY DEF NormalTick, NormalBeginRampDown, NormalFollowGoal, NormalNextGoal,
         NormalNextTrajectory, NormalRest, Continue
<1>2. pending' \in {"none", "RampDownNone"}
  BY PendingAfter DEF NormalTick, NormalBeginRampDown, NormalFollowGoal, NormalNextGoal,
     NormalNextTrajectory, NormalRest
<1>3. state # "StaticRunning"
  BY <1>1, EntryStateIs DEF UserInv
<1>. QED
  BY <1>1, <1>2, <1>3 DEF UserInv, WordInv, ResumeOrdered, FinishOrdered, NoRampDown

\* At the end of a ramp down there is no order to finish a static goal left,
\* and an order to resume if the user wants to go on.
LEMMA RampDownTickWord ==
  ASSUME UserInv, NEW near, RampDownTick(near), order' = order
  PROVE  WordInv'
<1>0. InductiveInvariant /\ WordInv /\ TypeOK /\ events \in Events
  BY DEF UserInv, InductiveInvariant, TypeOK
<1>1. CASE RampDownStart \/ RampDownRun
  <2>1. state' = EntryState /\ state' \in {"RampDownNone", "RampDownRunning"}
        /\ events' = events
    BY <1>1 DEF RampDownStart, RampDownRun, Continue
  <2>2. pending' \in {"none", "RampDownRunning", "RampDownFinished"}
    BY <1>1, PendingAfter DEF RampDownStart, RampDownRun
  <2>3. state = "StaticRunning" => pending = "RampDownNone"
    BY <1>0, <2>1, EntryStateIs
  <2>4. state # "StaticRunning"
    BY <1>0, <2>3 DEF WordInv, NoRampDown
  <2>. QED
    BY <1>0, <2>1, <2>2, <2>4 DEF WordInv, ResumeOrdered, FinishOrdered, NoRampDown
<1>2. CASE RampDownWait \/ RampDownToStaticGoal \/ RampDownToNormal(near)
  <2>1. state' = "RampDownFinished" /\ EntryState = "RampDownFinished"
    BY <1>2 DEF RampDownWait, RampDownToStaticGoal, RampDownToNormal, FinishRampDown, Continue
  <2>2. state # "StaticRunning"
    BY <1>0, <2>1, EntryStateIs
  <2>3. events.do_static_goal_finish => order = "unclear"
    BY <1>0, <2>2 DEF WordInv, FinishOrdered
  <2>4. /\ events'.do_static_goal_finish = events.do_static_goal_finish
        /\ \/ events'.do_stop = events.do_stop /\ events'.do_resume = events.do_resume
           \/ events'.do_stop = FALSE
    BY <1>0, <1>2 DEF RampDownWait, RampDownToStaticGoal, RampDownToNormal, Handled, Events
  <2>5. /\ pending' \in {"none", "StaticNone", "NormalRunning"}
        /\ pending' = "StaticNone" => events'.do_ramp_down = FALSE
    <3>1. CASE RampDownWait
      BY <3>1 DEF RampDownWait
    <3>2. CASE RampDownToStaticGoal
      BY <1>0, <3>2, PendingAfter DEF RampDownToStaticGoal, Handled, Events
    <3>3. CASE RampDownToNormal(near)
      BY <3>3, PendingAfter DEF RampDownToNormal
    <3>. QED
      BY <1>2, <3>1, <3>2, <3>3
  <2>. QED
    BY <1>0, <2>1, <2>3, <2>4, <2>5 DEF WordInv, ResumeOrdered, FinishOrdered, NoRampDown
<1>. QED
  BY <1>1, <1>2 DEF RampDownTick

\* A static goal is left in the way its finish was ordered.
LEMMA StaticGoalTickWord ==
  ASSUME UserInv, StaticGoalTick, order' = order
  PROVE  WordInv'
<1>0. InductiveInvariant /\ WordInv /\ TypeOK /\ events \in Events
  BY DEF UserInv, InductiveInvariant, TypeOK
<1>1. CASE StaticGoalStart
  <2>1. state' = "StaticNone" /\ EntryState = "StaticNone" /\ events' = events
        /\ pending' \in {"none", "StaticRunning"}
    BY <1>1, PendingAfter DEF StaticGoalStart, Continue
  <2>2. state # "StaticRunning" /\ pending = "StaticNone"
    BY <1>0, <2>1, EntryStateIs
  <2>. QED
    BY <1>0, <2>1, <2>2 DEF WordInv, ResumeOrdered, FinishOrdered, NoRampDown
<1>2. CASE StaticGoalRun
  <2>1. state' = "StaticRunning" /\ EntryState = "StaticRunning"
    BY <1>2 DEF StaticGoalRun, Continue
  <2>2. ~events.do_ramp_down
    BY <1>0, <2>1, EntryStateIs DEF WordInv, NoRampDown
  <2>3. /\ events'.do_static_goal_finish = events.do_static_goal_finish
        /\ events'.do_stop = events.do_stop /\ events'.do_resume = events.do_resume
        /\ events'.do_ramp_down = events.do_ramp_down
    BY <1>0, <1>2 DEF StaticGoalRun, Events
  <2>4. /\ pending' \in {"none", "StaticFinished"}
        /\ pending' = "StaticFinished" => events.do_static_goal_finish
    BY <1>2, <2>2, PendingAfter DEF StaticGoalRun
  <2>. QED
    BY <1>0, <2>1, <2>2, <2>3, <2>4 DEF WordInv, ResumeOrdered, FinishOrdered, NoRampDown
<1>3. CASE StaticGoalFinish
  <2>1. state' = "StaticFinished" /\ EntryState = "StaticFinished"
        /\ pending' \in {"none", "RampDownNone"}
    BY <1>3, PendingAfter DEF StaticGoalFinish, Continue
  <2>2. pending = "StaticFinished"
    BY <1>0, <2>1, EntryStateIs
  <2>3. order = "go" => events.do_resume
    BY <1>0, <2>2 DEF WordInv, ResumeOrdered, FinishOrdered
  <2>4. /\ events'.do_static_goal_finish = FALSE /\ events'.do_resume = events.do_resume
    BY <1>0, <1>3 DEF StaticGoalFinish, Events
  <2>. QED
    BY <2>1, <2>3, <2>4 DEF WordInv, ResumeOrdered, FinishOrdered, NoRampDown
<1>. QED
  BY <1>1, <1>2, <1>3 DEF StaticGoalTick

\* A session that changes leaves the events, and makes the user's word unclear
\* if there are any.
LEMMA SessionChangeWord ==
  ASSUME UserInv, NEW near, SessionChange(near), Says(IF Nothing THEN order ELSE "unclear")
  PROVE  WordInv'
<1>0. InductiveInvariant /\ WordInv /\ TypeOK /\ events \in Events
  BY DEF UserInv, InductiveInvariant, TypeOK
<1>1. /\ events' = events
      /\ state' \in {"NormalNone", "NormalRunning"}
      /\ pending' \in {"none", "RampDownNone"} 
         \/ (pending' = pending /\ state = "NormalNone")
  BY PendingAfter DEF SessionChange, NewSessionNotOk, NewSessionRest, NewSessionNextTrajectory,
     SessionLost, SessionIdle, FirstMessage, manager
<1>2. pending' \in {"none", "RampDownNone"}
  BY <1>0, <1>1 DEF manager, InductiveInvariant, ControlInv, IdleIsEmpty
<1>3. events.do_static_goal_finish => ~Nothing
  BY DEF Nothing, NoEvents
<1>4. /\ order' = order \/ order' = "unclear"
      /\ events.do_static_goal_finish => order' = "unclear"
  BY <1>3 DEF Says
<1>. QED
  BY <1>0, <1>1, <1>2, <1>4 DEF WordInv, ResumeOrdered, FinishOrdered, NoRampDown

\* A call that halts leaves no word to go on, one that does not leaves a resume
\* order with its stop.
LEMMA UserCallWord ==
  ASSUME UserInv, "setStaticGoal" \notin Calls,
         \/ \E t \in Trajectories : AddTrajectory(t) /\ UNCHANGED order
         \/ \E t \in Trajectories : OverrideTrajectories(t) /\ Says("go")
         \/ \E discard \in BOOLEAN : StopTrajectory(discard) /\ Says("halt")
         \/ ResumeTrajectory /\ Says("go")
         \/ \E f \in Factors : UpdateDurationFactor(f) /\ UNCHANGED order
         \/ \E discard \in BOOLEAN : StartStaticGoal(discard) /\ Says("go")
         \/ \E position, fast \in BOOLEAN : SetStaticGoal(position, fast) /\ Says("go")
         \/ \E resume \in BOOLEAN :
              FinishStaticGoal(resume) /\ Says(IF resume THEN "go" ELSE "halt")
  PROVE  WordInv'
<1>0. InductiveInvariant /\ WordInv /\ TypeOK /\ events \in Events
  BY DEF UserInv, InductiveInvariant, TypeOK
<1>a. state = "NormalRunning" => pending \in {"none", "RampDownNone"}
  BY <1>0 DEF InductiveInvariant, ControlInv, NormalInv
<1> USE DEF WordInv, ResumeOrdered, FinishOrdered, NoRampDown, Says, Order, manager
<1>1. CASE \E t \in Trajectories : AddTrajectory(t) /\ UNCHANGED order
  BY <1>0, <1>1 DEF AddTrajectory
<1>2. CASE \E t \in Trajectories : OverrideTrajectories(t) /\ Says("go")
  <2>1. /\ events'.do_static_goal_finish = events.do_static_goal_finish
        /\ events'.do_resume = TRUE /\ state' = state /\ pending' = pending
        /\ state = "NormalRunning"
    BY <1>0, <1>2 DEF OverrideTrajectories, Events
  <2>. QED
    BY <1>0, <1>a, <1>2, <2>1
<1>3. CASE \E discard \in BOOLEAN : StopTrajectory(discard) /\ Says("halt")
  <2>1. /\ events'.do_static_goal_finish = events.do_static_goal_finish
        /\ state' = state /\ pending' = pending
        /\ state = "NormalRunning"
    BY <1>0, <1>3 DEF StopTrajectory, Events
  <2>. QED
    BY <1>0, <1>a, <1>3, <2>1
<1>4. CASE ResumeTrajectory /\ Says("go")
  <2>1. /\ events'.do_static_goal_finish = events.do_static_goal_finish
        /\ events'.do_ramp_down = events.do_ramp_down
        /\ events'.do_resume = TRUE /\ state' = state /\ pending' = pending
        /\ state = "RampDownFinished"
    BY <1>0, <1>4 DEF ResumeTrajectory, Events
  <2>. QED
    BY <1>0, <1>4, <2>1
<1>5. CASE \E f \in Factors : UpdateDurationFactor(f) /\ UNCHANGED order
  <2>1. /\ events'.do_static_goal_finish = events.do_static_goal_finish
        /\ events'.do_stop = events.do_stop /\ events'.do_resume = events.do_resume
        /\ state' = state /\ pending' = pending /\ state = "NormalRunning"
    BY <1>0, <1>5 DEF UpdateDurationFactor, Events
  <2>. QED
    BY <1>0, <1>a, <1>5, <2>1
<1>6. CASE \E discard \in BOOLEAN : StartStaticGoal(discard) /\ Says("go")
  <2>1. /\ events'.do_static_goal_finish = events.do_static_goal_finish
        /\ events'.do_resume = TRUE /\ state' = state /\ pending' = pending
        /\ state = "NormalRunning"
    BY <1>0, <1>6 DEF StartStaticGoal, Events
  <2>. QED
    BY <1>0, <1>a, <1>6, <2>1
<1>7. CASE \E position, fast \in BOOLEAN : SetStaticGoal(position, fast) /\ Says("go")
  <2>1. PICK position \in BOOLEAN, fast \in BOOLEAN : SetStaticGoal(position, fast) /\ Says("go")
    BY <1>7
  <2>2. fast = TRUE
    BY <2>1 DEF SetStaticGoal
  <2>3. /\ events'.do_static_goal_finish = events.do_static_goal_finish
        /\ events'.do_resume = TRUE /\ events'.do_ramp_down = FALSE
        /\ state' = state /\ pending' = pending /\ state = "StaticRunning"
    BY <1>0, <2>1, <2>2 DEF SetStaticGoal, Events
  <2>. QED
    BY <1>0, <2>1, <2>3
<1>8. CASE \E resume \in BOOLEAN :
             FinishStaticGoal(resume) /\ Says(IF resume THEN "go" ELSE "halt")
  <2>1. PICK resume \in BOOLEAN :
          FinishStaticGoal(resume) /\ Says(IF resume THEN "go" ELSE "halt")
    BY <1>8
  <2>2. /\ events'.do_static_goal_finish = TRUE
        /\ events'.do_resume = resume /\ events'.do_ramp_down = events.do_ramp_down
        /\ state' = state /\ pending' = pending /\ state = "StaticRunning"
    BY <1>0, <2>1 DEF FinishStaticGoal, Events
  <2>3. order' = "go" => resume
    BY <2>1
  <2>. QED
    BY <1>0, <2>2, <2>3
<1>. QED
  BY <1>1, <1>2, <1>3, <1>4, <1>5, <1>6, <1>7, <1>8

----------------------------------------------------------------------------
(* The theorems                                                            *)

LEMMA UserInvInit == UserInit => UserInv
<1>1. UserInit => InductiveInvariant
  BY InvariantInit DEF UserInit
<1>. QED
  BY <1>1 DEF UserInit, Init, NoEvents, UserInv, WordInv, ResumeOrdered, FinishOrdered,
     NoRampDown

LEMMA UserInvStep ==
  ASSUME "setStaticGoal" \notin Calls, UserInv, [UserNext]_userVars
  PROVE  UserInv'
<1>1. InductiveInvariant'
  BY UserStepIsStep, InvariantStep DEF UserInv
<1>2. WordInv'
  <2>1. CASE Loop /\ UNCHANGED order
    BY <2>1, NormalTickWord, RampDownTickWord, StaticGoalTickWord DEF Loop, Tick
  <2>2. CASE /\ \E near \in SUBSET (1 .. MaxPoints) : SessionChange(near)
             /\ Says(IF Nothing THEN order ELSE "unclear")
    BY <2>2, SessionChangeWord
  <2>3. CASE UNCHANGED userVars
    BY <2>3 DEF userVars, UserInv, WordInv, ResumeOrdered, FinishOrdered, NoRampDown
  <2>. QED
    BY <2>1, <2>2, <2>3, UserCallWord DEF UserNext
<1>. QED
  BY <1>1, <1>2 DEF UserInv

\* What the user has said, what is ordered and what is pending fit together,
\* whatever calls, ticks and sessions follow one another.
THEOREM UserInvariance ==
  ASSUME "setStaticGoal" \notin Calls
  PROVE  UserSpec => []UserInv
<1>1. UserInv /\ [UserNext]_userVars => UserInv'
  BY UserInvStep
<1>. QED
  BY <1>1, UserInvInit, PTL DEF UserSpec

\* processRampDownState waits for a resume order only if the user's last word
\* was to halt: no call, tick or session between takes back an order to go on.
THEOREM WaitsOnlyWhenHaltedHolds ==
  ASSUME "setStaticGoal" \notin Calls
  PROVE  UserSpec => []WaitsOnlyWhenHalted
<1>1. UserInv => WaitsOnlyWhenHalted
  BY DEF UserInv, WordInv, ResumeOrdered, WaitsOnlyWhenHalted
<1>. QED
  BY <1>1, UserInvariance, PTL
==============================================================================
