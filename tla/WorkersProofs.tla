---------------------------- MODULE WorkersProofs ----------------------------
(***************************************************************************)
(* Proofs that the threads of the pool do not get into each other's texts, *)
(* and that each gets from strtok the lines of its own, for any number of  *)
(* threads and connections, any chunks, and texts of any length.           *)
(***************************************************************************)
EXTENDS Workers, FiniteSetTheorems, WellFoundedInduction, TLAPS

\* What is proved of the loop.
LP == INSTANCE ServerProofs WITH PoolSize <- Cardinality(Threads)

-----------------------------------------------------------------------------
(***************************************************************************)
(* Threads and places.                                                     *)
(***************************************************************************)
TypeInv ==
  /\ thread \in [Conns -> Threads \cup {None}]
  /\ line \in [Conns -> {"none", "copied", "some", "NULL"}]
  /\ token = [t \in Threads |-> [of |-> token[t].of, at |-> token[t].at]]

\* A thread works for one connection at a time.
Apart == \A c, d \in Conns : c # d /\ thread[c] # None => thread[d] # thread[c]

\* The inductive invariant: who has a line has a thread of its own, and its place.
Inv ==
  /\ TypeInv
  /\ Apart
  /\ \A c \in Conns : line[c] \in {"copied", "some"} => thread[c] # None
  /\ OwnPlace

-----------------------------------------------------------------------------
\* What leaves the variables of the pool alone leaves the invariant alone.
LEMMA CallbackStep == Inv /\ UNCHANGED poolVars => Inv'
  BY DEF Inv, TypeInv, Apart, OwnPlace, Slot, poolVars

LEMMA TakeUpStep ==
  ASSUME Inv, NEW c \in Conns, TakeUp(c)
  PROVE  Inv'
<1>1. PICK t \in Threads :
        /\ \A d \in Conns : thread[d] # t
        /\ thread' = [thread EXCEPT ![c] = t]
  BY DEF TakeUp
<1>2. line' = [line EXCEPT ![c] = "none"] /\ UNCHANGED token
  BY DEF TakeUp
<1>3. t # None
  BY ThreadsAssumption
<1>4. TypeInv' /\ Apart'
  <2>1. TypeInv'
    BY <1>1, <1>2 DEF Inv, TypeInv
  <2>2. ASSUME NEW d \in Conns, NEW e \in Conns, d # e, thread'[d] # None
        PROVE  thread'[e] # thread'[d]
    <3>1. thread' = [thread EXCEPT ![c] = t] /\ thread \in [Conns -> Threads \cup {None}]
      BY <1>1 DEF Inv, TypeInv
    <3>2. \/ d # c /\ e # c
          \/ d = c /\ e # c
          \/ d # c /\ e = c
      BY <2>2
    <3>3. CASE d # c /\ e # c
      BY <2>2, <3>1, <3>3 DEF Inv, Apart
    <3>4. CASE d = c /\ e # c
      BY <1>1, <3>1, <3>4
    <3>5. CASE d # c /\ e = c
      BY <1>1, <3>1, <3>5
    <3>6. QED
      BY <3>2, <3>3, <3>4, <3>5
  <2>3. QED
    BY <2>1, <2>2 DEF Apart
<1>5. QED
  BY <1>1, <1>2, <1>3, <1>4 DEF Inv, TypeInv, OwnPlace, Slot

\* A call of strtok moves the place of the thread it is made in, and no other.
LEMMA StrtokStep ==
  ASSUME Inv, NEW c \in Conns, thread[c] # None, NEW at, UNCHANGED thread,
         Strtok(c, [of |-> c, at |-> at])
  PROVE  Inv'
<1>1. thread[c] \in Threads
  BY DEF Inv, TypeInv
<1>2. \E behind : token' = [token EXCEPT ![Slot(thread[c])] =
                               [of |-> [of |-> c, at |-> at].of, at |-> behind]]
  BY Zenon DEF Strtok
<1>3. PICK behind : token' = [token EXCEPT ![thread[c]] = [of |-> c, at |-> behind]]
  BY <1>2 DEF Slot
<1>4. \E l \in {"some", "NULL"} : line' = [line EXCEPT ![c] = l]
  BY Zenon DEF Strtok
<1>5. TypeInv'
  BY <1>1, <1>3, <1>4 DEF Inv, TypeInv
<1>6. token'[thread[c]].of = c
  BY <1>1, <1>3 DEF Inv, TypeInv
<1>7. ASSUME NEW d \in Conns, d # c, line'[d] = "some"
      PROVE  token'[thread[d]].of = d
  <2>1. line[d] = "some" /\ thread[d] \in Threads /\ thread[d] # thread[c]
    BY <1>4, <1>7 DEF Inv, TypeInv, Apart
  <2>2. token'[thread[d]] = token[thread[d]]
    BY <1>1, <1>3, <2>1 DEF Inv, TypeInv
  <2>3. QED
    BY <2>1, <2>2 DEF Inv, OwnPlace, Slot
<1>8. OwnPlace'
  BY <1>6, <1>7 DEF OwnPlace, Slot
<1>9. QED
  BY <1>4, <1>5, <1>8 DEF Inv, TypeInv, Apart

LEMMA InPoolStep ==
  ASSUME Inv, NEW c \in Conns, InPool(c)
  PROVE  Inv'
<1>1. CASE Duplicate(c)
  BY <1>1 DEF Duplicate, InThread, Inv, TypeInv, Apart, OwnPlace, Slot
<1>2. CASE FirstLine(c)
  BY <1>2, StrtokStep DEF FirstLine, InThread
<1>3. CASE NextLine(c)
  <2>1. /\ thread[c] # None /\ UNCHANGED thread
        /\ line[c] = "some" /\ Strtok(c, token[thread[c]])
    BY <1>3 DEF NextLine, InThread, Slot
  <2>2. thread[c] \in Threads /\ token[thread[c]].of = c
    BY <2>1 DEF Inv, TypeInv, OwnPlace, Slot
  <2>3. token[thread[c]] = [of |-> c, at |-> token[thread[c]].at]
    BY <2>2 DEF Inv, TypeInv
  <2>4. QED
    BY <2>1, <2>3, StrtokStep
<1>4. CASE Finish(c)
  <2>1. /\ thread' = [thread EXCEPT ![c] = None] /\ UNCHANGED <<line, token>>
        /\ line[c] = "NULL"
    BY <1>4, Zenon DEF Finish, NoMoreLines
  <2>2. \A d \in Conns : thread'[d] = IF d = c THEN None ELSE thread[d]
    BY <2>1 DEF Inv, TypeInv
  <2>3. TypeInv' /\ Apart'
    BY <2>1, <2>2 DEF Inv, TypeInv, Apart
  <2>4. QED
    BY <2>1, <2>2, <2>3 DEF Inv, OwnPlace, Slot
<1>5. CASE Overrun(c)
  BY <1>5, CallbackStep, Zenon DEF Overrun
<1>6. QED
  BY <1>1, <1>2, <1>3, <1>4, <1>5 DEF InPool

LEMMA InvStep == Inv /\ [Next]_vars => Inv'
<1> SUFFICES ASSUME Inv, [Next]_vars
             PROVE  Inv'
  OBVIOUS
<1>1. CASE UNCHANGED poolVars
  BY <1>1, CallbackStep
<1>2. CASE \E c \in Conns : TakeUp(c) \/ InPool(c)
  BY <1>2, TakeUpStep, InPoolStep
<1>3. UNCHANGED poolVars \/ \E c \in Conns : TakeUp(c) \/ InPool(c)
  BY Zenon DEF Next, Main, Connected, Read, TimedOut, Processed, Written, HandleClosed, Callback, vars
<1>4. QED
  BY <1>1, <1>2, <1>3

LEMMA InvInit == Init => Inv
  BY DEF Init, Inv, TypeInv, Apart, OwnPlace

-----------------------------------------------------------------------------

\* A connection that has a line has a thread to itself, in every reachable state.
THEOREM InvCorrect == Spec => []Inv
  BY InvInit, InvStep, PTL DEF Spec

\* Two threads never cut up the same copy: strtok goes on in the text of the thread's
\* own connection, for any number of threads and connections.
THEOREM OwnPlaceCorrect == Spec => []OwnPlace
<1>1. Inv => OwnPlace
  BY DEF Inv
<1>2. QED
  BY <1>1, InvCorrect, PTL

\* Every step that a thread takes is a step of Server or none at all, so that all
\* that is proved of Server holds when parseHttp takes many steps.
THEOREM LoopImplemented == Spec => Loop!Spec
<1>1. Init => Loop!Init
  BY DEF Init
<1>2. [Next]_vars => [Loop!Next]_Loop!vars
  <2> SUFFICES ASSUME [Next]_vars
               PROVE  Loop!Next \/ UNCHANGED Loop!vars
    OBVIOUS
  <2>1. CASE Main
    BY <2>1 DEF Main, Loop!Next
  <2>2. ASSUME NEW c \in Conns,
               \/ Connected(c) \/ Read(c) \/ TimedOut(c) \/ Processed(c) \/ Written(c)
               \/ \E handle \in Loop!Handles : HandleClosed(c, handle)
               \/ TakeUp(c) \/ Overrun(c) \/ Finish(c)
        PROVE  Loop!Next
    BY <2>2, Zenon DEF Connected, Read, TimedOut, Processed, Written, HandleClosed, Callback,
                       TakeUp, Overrun, Finish, Loop!Next
  <2>3. ASSUME NEW c \in Conns, Duplicate(c) \/ FirstLine(c) \/ NextLine(c)
        PROVE  UNCHANGED Loop!vars
    BY <2>3 DEF Duplicate, FirstLine, NextLine, loopVars, Loop!vars
  <2>4. CASE UNCHANGED vars
    BY <2>4 DEF vars, loopVars, Loop!vars
  <2>5. QED
    BY <2>1, <2>2, <2>3, <2>4, Zenon DEF Next, InPool
<1>3. QED
  BY <1>1, <1>2, PTL DEF Spec, Loop!Spec

-----------------------------------------------------------------------------
(***************************************************************************)
(* The lines of a text.                                                    *)
(***************************************************************************)
\* How many elements of a set are not behind a place.
Rank(S, i) == Cardinality({j \in S : j <= i})

\* A set of places in a text of n bytes.
Within(S, n) == IsFiniteSet(S) /\ \A i \in S : i \in Nat /\ 1 <= i /\ i <= n

LEMMA PlacesWithin ==
  ASSUME NEW n \in Nat, NEW S, S \subseteq 1 .. n
  PROVE  Within(S, n)
<1>1. IsFiniteSet(1 .. n)
  BY FS_Interval
<1>2. IsFiniteSet(S)
  BY <1>1, FS_Subset
<1>3. \A i \in S : i \in Nat /\ 1 <= i /\ i <= n
  OBVIOUS
<1> QED BY <1>2, <1>3 DEF Within

\* Every set of natural numbers that is not empty has a least element.
LEMMA LeastExists ==
  ASSUME NEW S, S \subseteq Nat, S # {}
  PROVE  \E i \in S : \A j \in S : i <= j
<1> DEFINE Less == {pair \in Nat \X Nat : pair[1] < pair[2]}
<1>1. IsWellFoundedOn(Less, Nat)
  BY NatLessThanWellFounded DEF OpToRel
<1>2. PICK i \in S : \A j \in S : <<j, i>> \notin Less
  <2> HIDE DEF Less
  <2> QED BY <1>1, WFMin
<1>3. \A j \in S : ~(j < i)
  BY <1>2
<1> QED BY <1>3

LEMMA RankStep ==
  ASSUME NEW n \in Nat, NEW S, Within(S, n)
  PROVE  /\ IsFiniteSet(S) /\ Rank(S, 0) = 0 /\ Rank(S, n) = Cardinality(S)
         /\ \A i \in Nat : /\ Rank(S, i) \in Nat
                           /\ Rank(S, i + 1) = IF i + 1 \in S THEN Rank(S, i) + 1 ELSE Rank(S, i)
<1> DEFINE Upto(i) == {j \in S : j <= i}
<1>1. IsFiniteSet(S)
  BY DEF Within
<1>2. \A i : IsFiniteSet(Upto(i)) /\ Rank(S, i) = Cardinality(Upto(i))
  BY <1>1, FS_Subset DEF Rank
<1>0. \A j \in S : j \in Nat /\ 1 <= j /\ j <= n
  BY DEF Within
<1>3. Upto(0) = {} /\ Upto(n) = S
  BY <1>0
<1>4. ASSUME NEW i \in Nat
      PROVE  /\ Rank(S, i) \in Nat
             /\ Rank(S, i + 1) = IF i + 1 \in S THEN Rank(S, i) + 1 ELSE Rank(S, i)
  <2>1. Rank(S, i) \in Nat
    <3> HIDE DEF Upto
    <3> QED BY <1>2, FS_CardinalityType
  <2>2. CASE i + 1 \in S
    <3>1. Upto(i + 1) = Upto(i) \cup {i + 1} /\ i + 1 \notin Upto(i)
      BY <1>0, <2>2
    <3>2. IsFiniteSet(Upto(i)) /\ Rank(S, i + 1) = Cardinality(Upto(i + 1))
      BY <1>2
    <3> HIDE DEF Upto
    <3>3. Cardinality(Upto(i + 1)) = Cardinality(Upto(i)) + 1
      BY <3>1, <3>2, FS_AddElement
    <3> QED BY <1>2, <2>1, <2>2, <3>2, <3>3
  <2>3. CASE i + 1 \notin S
    <3>1. Upto(i + 1) = Upto(i)
      BY <1>0, <2>3
    <3>2. Rank(S, i + 1) = Cardinality(Upto(i + 1)) /\ Rank(S, i) = Cardinality(Upto(i))
      BY <1>2
    <3> HIDE DEF Upto
    <3> QED BY <2>1, <2>3, <3>1, <3>2
  <2> QED BY <2>1, <2>2, <2>3
<1> HIDE DEF Upto
<1> QED BY <1>1, <1>2, <1>3, <1>4, FS_EmptySet

LEMMA RankGrows ==
  ASSUME NEW n \in Nat, NEW S, Within(S, n), NEW i \in Nat, NEW j \in Nat, i < j
  PROVE  Rank(S, i) <= Rank(S, j) /\ (j \in S => Rank(S, i) < Rank(S, j))
<1>1. IsFiniteSet({h \in S : h <= i}) /\ IsFiniteSet({h \in S : h <= j})
  BY RankStep, FS_Subset
<1>2. {h \in S : h <= i} \subseteq {h \in S : h <= j}
  <2>1. \A h \in S : h \in Nat
    BY DEF Within
  <2> QED BY <2>1
<1>3. Rank(S, i) <= Rank(S, j) /\ Rank(S, i) \in Nat /\ Rank(S, j) \in Nat
  BY <1>1, <1>2, FS_Subset, FS_CardinalityType DEF Rank
<1>4. ASSUME j \in S
      PROVE  Rank(S, i) < Rank(S, j)
  <2>1. j \in {h \in S : h <= j} /\ j \notin {h \in S : h <= i}
    BY <1>4
  <2>2. {h \in S : h <= i} # {h \in S : h <= j}
    BY <2>1
  <2>3. Rank(S, i) # Rank(S, j)
    BY <1>1, <1>2, <2>2, FS_Subset DEF Rank
  <2> QED BY <1>3, <2>3
<1> QED BY <1>3, <1>4

LEMMA NthIs ==
  ASSUME NEW n \in Nat, NEW S, Within(S, n), NEW k \in 1 .. Cardinality(S)
  PROVE  Nth(S, k) \in S /\ Rank(S, Nth(S, k)) = k
<1> DEFINE Far == {i \in Nat : k <= Rank(S, i)}
<1>1. n \in Far
  BY RankStep
<1>2. PICK i \in Far : \A j \in Far : i <= j
  <2> HIDE DEF Far
  <2>1. Far \subseteq Nat
    BY DEF Far
  <2> QED BY <1>1, <2>1, LeastExists
<1>3. i # 0
  BY RankStep
<1>4. i - 1 \in Nat /\ ~(k <= Rank(S, i - 1))
  BY <1>2, <1>3
<1>5. i \in S /\ Rank(S, i) = k
  <2>1. /\ Rank(S, i - 1) \in Nat
        /\ Rank(S, (i - 1) + 1) = IF (i - 1) + 1 \in S THEN Rank(S, i - 1) + 1 ELSE Rank(S, i - 1)
    BY <1>4, RankStep
  <2> QED BY <1>2, <1>4, <2>1
<1> QED BY <1>5 DEF Nth, Rank

\* Each element is the one of its rank.
LEMMA NthOf ==
  ASSUME NEW n \in Nat, NEW S, Within(S, n), NEW e \in S
  PROVE  Rank(S, e) \in 1 .. Cardinality(S) /\ Nth(S, Rank(S, e)) = e
<1>0. \A d \in S : d \in Nat /\ 1 <= d /\ d <= n
  BY DEF Within
<1>1. Rank(S, 0) < Rank(S, e) /\ Rank(S, 0) = 0 /\ Rank(S, e) \in Nat
  BY <1>0, RankGrows, RankStep
<1>2. Rank(S, e) <= Rank(S, n) /\ Rank(S, n) = Cardinality(S)
  <2>1. e = n \/ e < n
    BY <1>0
  <2> QED BY <1>0, <2>1, <1>1, RankGrows, RankStep
<1>3. Cardinality(S) \in Nat
  BY RankStep, FS_CardinalityType
<1>4. Rank(S, e) \in 1 .. Cardinality(S)
  BY <1>1, <1>2, <1>3
<1>5. Nth(S, Rank(S, e)) \in S /\ Rank(S, Nth(S, Rank(S, e))) = Rank(S, e)
  BY <1>4, NthIs
<1>6. \A d \in S : Rank(S, d) = Rank(S, e) => d = e
  <2> SUFFICES ASSUME NEW d \in S, Rank(S, d) = Rank(S, e), d # e PROVE FALSE
    OBVIOUS
  <2>1. d < e \/ e < d
    BY <1>0
  <2>2. Rank(S, d) < Rank(S, e) \/ Rank(S, e) < Rank(S, d)
    BY <1>0, <2>1, RankGrows
  <2> QED BY <2>2, <1>1
<1> QED BY <1>4, <1>5, <1>6

\* There is none between one and the next, and none before the first.
LEMMA NthNext ==
  ASSUME NEW n \in Nat, NEW S, Within(S, n), NEW k \in 1 .. Cardinality(S)
  PROVE  /\ k = 1 => \A i \in S : Nth(S, k) <= i
         /\ k > 1 => /\ k - 1 \in 1 .. Cardinality(S) /\ Nth(S, k - 1) < Nth(S, k)
                     /\ \A i \in S : i <= Nth(S, k - 1) \/ Nth(S, k) <= i
<1>0. \A i \in S : i \in Nat /\ 1 <= i /\ i <= n
  BY DEF Within
<1>1. Nth(S, k) \in S /\ Rank(S, Nth(S, k)) = k /\ Cardinality(S) \in Nat
  BY NthIs, RankStep, FS_CardinalityType
<1>2. ASSUME NEW i \in S, i < Nth(S, k)
      PROVE  Rank(S, i) \in Nat /\ 0 < Rank(S, i) /\ Rank(S, i) < k
  <2>1. i \in Nat /\ 0 < i /\ Nth(S, k) \in Nat
    BY <1>0, <1>1
  <2>2. Rank(S, i) < Rank(S, Nth(S, k)) /\ Rank(S, 0) < Rank(S, i) /\ Rank(S, 0) = 0
    BY <1>1, <1>2, <2>1, RankGrows, RankStep
  <2> QED BY <1>1, <2>1, <2>2, RankStep
<1>3. ASSUME k = 1, NEW i \in S
      PROVE  Nth(S, k) <= i
  <2>1. i \in Nat /\ Nth(S, k) \in Nat
    BY <1>0, <1>1
  <2>2. ~(i < Nth(S, k))
    BY <1>2, <1>3
  <2> QED BY <2>1, <2>2
<1>4. ASSUME k > 1
      PROVE  /\ k - 1 \in 1 .. Cardinality(S) /\ Nth(S, k - 1) < Nth(S, k)
             /\ \A i \in S : i <= Nth(S, k - 1) \/ Nth(S, k) <= i
  <2>1. k - 1 \in 1 .. Cardinality(S)
    BY <1>1, <1>4
  <2>2. Nth(S, k - 1) \in S /\ Rank(S, Nth(S, k - 1)) = k - 1
    BY <2>1, NthIs
  <2>3. Nth(S, k - 1) < Nth(S, k)
    <3>1. ~(Nth(S, k) < Nth(S, k - 1))
      BY <1>0, <1>1, <2>2, RankGrows
    <3> QED BY <1>0, <1>1, <2>2, <3>1
  <2>4. ASSUME NEW i \in S, Nth(S, k - 1) < i, i < Nth(S, k)
        PROVE  FALSE
    <3>1. Rank(S, i) \in Nat /\ Rank(S, i) < k
      BY <1>2, <2>4
    <3>2. k - 1 < Rank(S, i)
      BY <1>0, <2>2, <2>4, RankGrows
    <3> QED BY <3>1, <3>2
  <2>5. \A i \in S : i <= Nth(S, k - 1) \/ Nth(S, k) <= i
    BY <1>0, <1>1, <2>2, <2>4
  <2> QED BY <2>1, <2>3, <2>5
<1> QED BY <1>3, <1>4

LEMMA SpansAre ==
  ASSUME NEW bytes \in Seq({"CR", "LF", "x"}), NEW k \in 1 .. Len(Spans(bytes))
  PROVE  LET e == Spans(bytes)[k] IN
         /\ e = <<e[1], e[2]>> /\ e[1] \in 1 .. Len(bytes) /\ e[2] \in e[1] .. Len(bytes)
         /\ bytes[e[2]] = "LF" \/ e[2] = Len(bytes)
         /\ \A i \in e[1] .. e[2] - 1 : bytes[i] # "LF"
         /\ k = 1 => e[1] = 1
         /\ k > 1 => /\ k - 1 \in 1 .. Len(Spans(bytes)) /\ e[1] = Spans(bytes)[k - 1][2] + 1
                     /\ bytes[e[1] - 1] = "LF"
<1> DEFINE n == Len(bytes)
           S == Ends(bytes)
<1>0. n \in Nat /\ S \subseteq 1 .. n
  BY DEF Ends
<1>1. Within(S, n) /\ Cardinality(S) \in Nat
  BY <1>0, PlacesWithin, RankStep, FS_CardinalityType
<1>2. Len(Spans(bytes)) = Cardinality(S)
  BY <1>1 DEF Spans
<1>3. k \in 1 .. Cardinality(S)
  BY <1>2
<1>4. Spans(bytes)[k] = <<IF k = 1 THEN 1 ELSE Nth(S, k - 1) + 1, Nth(S, k)>>
  BY <1>3 DEF Spans
<1>5. Nth(S, k) \in S
  BY <1>1, <1>3, NthIs
<1>6. CASE k = 1
  <2>1. \A i \in S : Nth(S, k) <= i
    BY <1>1, <1>3, <1>6, NthNext
  <2>2. ASSUME NEW i \in 1 .. Nth(S, k) - 1
        PROVE  i \notin S /\ i \in 1 .. n
    <3>1. Nth(S, k) \in Nat /\ Nth(S, k) <= n
      BY <1>1, <1>5 DEF Within
    <3>2. ~(Nth(S, k) <= i)
      BY <3>1
    <3> QED BY <2>1, <3>1, <3>2, <1>0
  <2>3. Nth(S, k) \in 1 .. n /\ (bytes[Nth(S, k)] = "LF" \/ Nth(S, k) = n)
    BY <1>5 DEF Ends
  <2>4. \A i \in 1 .. Nth(S, k) - 1 : bytes[i] # "LF"
    BY <2>2 DEF Ends
  <2> QED BY <1>4, <1>6, <2>3, <2>4
<1>7. CASE k > 1
  <2>1. /\ k - 1 \in 1 .. Cardinality(S) /\ Nth(S, k - 1) < Nth(S, k)
        /\ \A i \in S : i <= Nth(S, k - 1) \/ Nth(S, k) <= i
    BY <1>1, <1>3, <1>7, NthNext
  <2>2. Nth(S, k - 1) \in S
    BY <1>1, <2>1, NthIs
  <2>3. Spans(bytes)[k - 1][2] = Nth(S, k - 1)
    BY <2>1 DEF Spans
  <2>4. ASSUME NEW i \in Nth(S, k - 1) + 1 .. Nth(S, k) - 1
        PROVE  i \notin S /\ i \in 1 .. n
    <3>1. /\ Nth(S, k) \in Nat /\ Nth(S, k) <= n
          /\ Nth(S, k - 1) \in Nat
      BY <1>1, <1>5, <2>2 DEF Within
    <3>2. ~(Nth(S, k) <= i) /\ ~(i <= Nth(S, k - 1))
      BY <3>1
    <3> QED BY <2>1, <3>1, <3>2, <1>0
  <2>5. /\ Nth(S, k) \in 1 .. n /\ (bytes[Nth(S, k)] = "LF" \/ Nth(S, k) = n)
        /\ Nth(S, k - 1) \in 1 .. n /\ (bytes[Nth(S, k - 1)] = "LF" \/ Nth(S, k - 1) = n)
    BY <1>5, <2>2 DEF Ends
  <2>6. \A i \in Nth(S, k - 1) + 1 .. Nth(S, k) - 1 : bytes[i] # "LF"
    BY <2>4 DEF Ends
  <2>7. bytes[Nth(S, k - 1)] = "LF" /\ (Nth(S, k - 1) + 1) - 1 = Nth(S, k - 1)
    BY <2>1, <2>5
  <2> HIDE DEF S, n
  <2>8. /\ Spans(bytes)[k] = <<Nth(S, k - 1) + 1, Nth(S, k)>>
        /\ Nth(S, k - 1) + 1 \in 1 .. n /\ Nth(S, k) \in Nth(S, k - 1) + 1 .. n
    BY <1>4, <1>7, <2>1, <2>5 DEF n
  <2> QED BY <1>2, <1>7, <2>1, <2>3, <2>5, <2>6, <2>7, <2>8 DEF n
<1> QED BY <1>3, <1>6, <1>7

\* Every line feed, and the last byte, ends a line.
LEMMA SpanEnds ==
  ASSUME NEW bytes \in Seq({"CR", "LF", "x"}), NEW i \in 1 .. Len(bytes),
         bytes[i] = "LF" \/ i = Len(bytes)
  PROVE  \E k \in 1 .. Len(Spans(bytes)) : Spans(bytes)[k][2] = i
<1>1. Len(bytes) \in Nat /\ Within(Ends(bytes), Len(bytes)) /\ i \in Ends(bytes)
  BY PlacesWithin DEF Ends
<1>2. Cardinality(Ends(bytes)) \in Nat
  BY <1>1, RankStep, FS_CardinalityType
<1> DEFINE k == Rank(Ends(bytes), i)
<1>3. k \in 1 .. Cardinality(Ends(bytes)) /\ Nth(Ends(bytes), k) = i
  BY <1>1, NthOf
<1>4. Len(Spans(bytes)) = Cardinality(Ends(bytes))
  BY <1>2 DEF Spans
<1> HIDE DEF k
<1>5. Spans(bytes)[k][2] = i
  BY <1>3 DEF Spans
<1> QED BY <1>3, <1>4, <1>5
-----------------------------------------------------------------------------
(***************************************************************************)
(* What a C string holds, and its lines.                                   *)
(***************************************************************************)
Text == Seq({"CR", "LF", "x"})

LEMMA CStringIs ==
  ASSUME NEW bytes \in Seq({"CR", "LF", "NUL", "x"})
  PROVE  /\ CString(bytes) \in Text /\ Len(CString(bytes)) <= Len(bytes)
         /\ \A i \in 1 .. Len(CString(bytes)) : CString(bytes)[i] = bytes[i]
         /\ \A i \in 1 .. Len(bytes) :
              (\A j \in 1 .. i : bytes[j] # "NUL") => i <= Len(CString(bytes))
<1> DEFINE I == {i \in 1 .. Len(bytes) : bytes[i] = "NUL"}
           nul == IF I # {} THEN Min(I) ELSE 0
<1>1. CString(bytes) = IF nul = 0 THEN bytes ELSE SubSeq(bytes, 1, nul - 1)
  BY DEF CString, SelectInSeq
<1>2. CASE I = {}
  <2>1. nul = 0 /\ \A i \in 1 .. Len(bytes) : bytes[i] # "NUL"
    BY <1>2
  <2>2. CString(bytes) = bytes
    BY <1>1, <2>1
  <2>3. bytes \in Text
    BY <2>1 DEF Text
  <2> QED BY <2>2, <2>3
<1>3. CASE I # {}
  <2>1. I \subseteq Nat
    OBVIOUS
  <2>2. \E i \in I : \A j \in I : i <= j
    <3> HIDE DEF I
    <3> QED BY <1>3, <2>1, LeastExists
  <2>3. Min(I) \in I /\ \A j \in I : Min(I) <= j
    <3> HIDE DEF I
    <3> QED BY <2>2 DEF Min
  <2>4. nul = Min(I)
    BY <1>3
  <2> HIDE DEF nul
  <2>5. nul \in 1 .. Len(bytes) /\ bytes[nul] = "NUL" /\ nul - 1 \in Nat /\ nul - 1 < Len(bytes)
    BY <2>3, <2>4
  <2>6. \A j \in 1 .. nul - 1 : bytes[j] # "NUL" /\ j \in 1 .. Len(bytes)
    <3> SUFFICES ASSUME NEW j \in 1 .. nul - 1 PROVE bytes[j] # "NUL" /\ j \in 1 .. Len(bytes)
      OBVIOUS
    <3>1. j \in 1 .. Len(bytes) /\ ~(nul <= j)
      BY <2>5
    <3> QED BY <2>3, <2>4, <3>1
  <2>7. CString(bytes) = SubSeq(bytes, 1, nul - 1)
    BY <1>1, <2>5
  <2> HIDE DEF I
  <2>8. /\ Len(SubSeq(bytes, 1, nul - 1)) = nul - 1
        /\ SubSeq(bytes, 1, nul - 1) \in Seq({"CR", "LF", "NUL", "x"})
        /\ \A i \in 1 .. nul - 1 : SubSeq(bytes, 1, nul - 1)[i] = bytes[i]
    BY <2>5
  <2>9. CString(bytes) \in Text
    <3>1. \A i \in 1 .. nul - 1 : CString(bytes)[i] \in {"CR", "LF", "x"}
      BY <2>6, <2>7, <2>8
    <3> QED BY <2>5, <2>7, <2>8, <3>1 DEF Text
  <2>10. ASSUME NEW i \in 1 .. Len(bytes), \A j \in 1 .. i : bytes[j] # "NUL"
         PROVE  i <= nul - 1
    <3>1. ~(nul <= i)
      BY <2>5, <2>10
    <3> QED BY <2>5, <3>1
  <2> QED BY <2>5, <2>7, <2>8, <2>9, <2>10
<1> QED BY <1>2, <1>3

\* What AsLine makes of a span: its ending, and whether it has a byte.
LEMMA AsLineIs ==
  ASSUME NEW bytes \in Text, NEW k \in 1 .. Len(Spans(bytes)),
         NEW e, e = Spans(bytes)[k]
  PROVE  /\ AsLine(bytes, e) \in Line
         /\ AsLine(bytes, e).ending = "CUT" => e[2] = Len(bytes)
         /\ bytes[e[2]] = "LF" /\ e[1] < e[2] /\ bytes[e[2] - 1] = "CR"
              => AsLine(bytes, e).ending = "CRLF"
         /\ bytes[e[2]] = "LF" => AsLine(bytes, e).ending \in {"LF", "CRLF"}
         /\ bytes[e[2]] = "LF" /\ e[1] = e[2]
              => AsLine(bytes, e).ending = "LF" /\ AsLine(bytes, e).kind = "empty"
         /\ HasBytes(AsLine(bytes, e)) <=> ~(bytes[e[2]] = "LF" /\ e[1] = e[2])
<1> DEFINE cut == bytes[e[2]] # "LF"
           last == IF cut THEN e[2] ELSE e[2] - 1
           cr == last >= e[1] /\ bytes[last] = "CR"
           rest == SubSeq(bytes, e[1], IF cr THEN last - 1 ELSE last)
           kind == IF rest = << >> THEN "empty" ELSE IF Contains(rest, "x") THEN "field" ELSE "bare"
           ending == IF cut THEN "CUT" ELSE IF cr THEN "CRLF" ELSE "LF"
<1>1. AsLine(bytes, e) = [kind |-> kind, ending |-> ending]
  BY DEF AsLine
<1>2. /\ e[1] \in 1 .. Len(bytes) /\ e[2] \in e[1] .. Len(bytes)
      /\ bytes[e[2]] = "LF" \/ e[2] = Len(bytes)
  BY SpansAre DEF Text
<1>3. cut => e[2] = Len(bytes)
  BY <1>2
<1>4. kind \in Kinds /\ ending \in {"CRLF", "LF", "CUT"}
  <2> HIDE DEF rest, cut, cr
  <2> QED BY DEF Kinds
<1>5. AsLine(bytes, e) \in Line /\ AsLine(bytes, e).kind = kind /\ AsLine(bytes, e).ending = ending
  <2> HIDE DEF kind, ending
  <2> QED BY <1>1, <1>4 DEF Line
<1>6. bytes[e[2]] = "LF" /\ e[1] < e[2] /\ bytes[e[2] - 1] = "CR" => ending = "CRLF"
  BY <1>2
<1>7. ASSUME bytes[e[2]] = "LF", e[1] = e[2]
      PROVE  ending = "LF" /\ kind = "empty"
  <2>1. last = e[1] - 1 /\ ~cr /\ ~cut
    BY <1>2, <1>7
  <2>2. rest = SubSeq(bytes, e[1], e[1] - 1)
    BY <2>1
  <2>3. rest = << >>
    <3> HIDE DEF rest
    <3> QED BY <1>2, <2>2 DEF Text
  <2> HIDE DEF rest
  <2> QED BY <2>1, <2>3
<1>8. ASSUME ending = "LF", kind = "empty"
      PROVE  bytes[e[2]] = "LF" /\ e[1] = e[2]
  <2>1. ~cut /\ ~cr
    BY <1>8
  <2>2. rest = << >>
    <3> HIDE DEF rest
    <3> QED BY <1>8
  <2>3. last = e[2] - 1 /\ rest = SubSeq(bytes, e[1], e[2] - 1)
    BY <2>1
  <2>4. CASE e[1] < e[2]
    <3> HIDE DEF rest
    <3>1. Len(SubSeq(bytes, e[1], e[2] - 1)) = e[2] - e[1]
      BY <1>2, <2>4 DEF Text
    <3>2. SubSeq(bytes, e[1], e[2] - 1) = << >>
      BY <2>2, <2>3, Zenon
    <3>3. Len(SubSeq(bytes, e[1], e[2] - 1)) = 0
      BY <3>2
    <3>4. e[2] - e[1] # 0
      BY <1>2, <2>4
    <3> QED BY <3>1, <3>3, <3>4
  <2>5. e[1] = e[2] \/ e[1] < e[2]
    BY <1>2
  <2> QED BY <2>1, <2>4, <2>5
<1>9. bytes[e[2]] = "LF" => ending \in {"LF", "CRLF"}
  <2> HIDE DEF cr
  <2> QED OBVIOUS
<1>10. ending = "CUT" => e[2] = Len(bytes)
  <2> HIDE DEF cr
  <2> QED BY <1>3
<1> HIDE DEF kind, ending
<1> QED BY <1>5, <1>6, <1>7, <1>8, <1>9, <1>10 DEF HasBytes

\* The stretches of a text without line feeds, from one to the next.
Stretches(bytes) ==
  {e \in (1 .. Len(bytes)) \X (1 .. Len(bytes)) :
     /\ e[1] <= e[2] /\ \A i \in e[1] .. e[2] : bytes[i] # "LF"
     /\ e[1] = 1 \/ bytes[e[1] - 1] = "LF"
     /\ e[2] = Len(bytes) \/ bytes[e[2] + 1] = "LF"}

LEMMA DueIs ==
  ASSUME NEW bytes \in Text
  PROVE  Due(bytes) = Stretches(bytes)
<1> DEFINE S == Spans(bytes)
           Bare(e) == <<e[1], IF bytes[e[2]] = "LF" THEN e[2] - 1 ELSE e[2]>>
<1>1. Due(bytes) = {Bare(e) : e \in {S[k] : k \in {i \in 1 .. Len(S) : HasBytes(AsLine(bytes, S[i]))}}}
  BY DEF Due
<1>2. ASSUME NEW k \in 1 .. Len(S), HasBytes(AsLine(bytes, S[k]))
      PROVE  Bare(S[k]) \in Stretches(bytes)
  <2> DEFINE e == S[k]
  <2>1. /\ e[1] \in 1 .. Len(bytes) /\ e[2] \in e[1] .. Len(bytes)
        /\ bytes[e[2]] = "LF" \/ e[2] = Len(bytes)
        /\ \A i \in e[1] .. e[2] - 1 : bytes[i] # "LF"
        /\ e[1] = 1 \/ bytes[e[1] - 1] = "LF"
    <3>1. k = 1 \/ k > 1
      OBVIOUS
    <3> QED BY <3>1, SpansAre DEF Text
  <2>2. ~(bytes[e[2]] = "LF" /\ e[1] = e[2])
    BY <1>2, AsLineIs
  <2> HIDE DEF e
  <2>3. CASE bytes[e[2]] = "LF"
    <3>1. Bare(e) = <<e[1], e[2] - 1>> /\ e[1] <= e[2] - 1 /\ e[2] - 1 \in 1 .. Len(bytes)
      BY <2>1, <2>2, <2>3
    <3>2. (e[2] - 1) + 1 = e[2]
      BY <2>1
    <3> HIDE DEF Bare
    <3>3. Bare(e)[1] = e[1] /\ Bare(e)[2] = e[2] - 1
      BY <3>1
    <3>4. Bare(e) \in Stretches(bytes)
      BY <2>1, <2>3, <3>1, <3>2, <3>3 DEF Stretches
    <3> QED BY <3>4 DEF Bare, e
  <2>4. CASE bytes[e[2]] # "LF"
    <3>1. Bare(e) = <<e[1], e[2]>> /\ e[2] = Len(bytes) /\ e[2] \in 1 .. Len(bytes)
      BY <2>1, <2>4
    <3>2. \A i \in e[1] .. e[2] : i \in e[1] .. e[2] - 1 \/ i = e[2]
      BY <2>1
    <3> HIDE DEF Bare
    <3>3. Bare(e)[1] = e[1] /\ Bare(e)[2] = e[2]
      BY <3>1
    <3>4. Bare(e) \in Stretches(bytes)
      BY <2>1, <2>4, <3>1, <3>2, <3>3 DEF Stretches
    <3> QED BY <3>4 DEF Bare, e
  <2> QED BY <2>3, <2>4 DEF e
<1>3. ASSUME NEW d \in Stretches(bytes)
      PROVE  \E k \in 1 .. Len(S) : HasBytes(AsLine(bytes, S[k])) /\ Bare(S[k]) = d
  <2>1. /\ d = <<d[1], d[2]>> /\ d[1] \in 1 .. Len(bytes) /\ d[2] \in 1 .. Len(bytes) /\ d[1] <= d[2]
        /\ \A i \in d[1] .. d[2] : bytes[i] # "LF"
        /\ d[1] = 1 \/ bytes[d[1] - 1] = "LF"
        /\ d[2] = Len(bytes) \/ bytes[d[2] + 1] = "LF"
    BY DEF Stretches
  <2> DEFINE end == IF d[2] = Len(bytes) THEN d[2] ELSE d[2] + 1
  <2>2. end \in d[2] .. Len(bytes) /\ (bytes[end] = "LF" \/ end = Len(bytes))
        /\ Len(bytes) \in Nat /\ bytes \in Seq({"CR", "LF", "x"})
    BY <2>1 DEF Text
  <2>3. PICK k \in 1 .. Len(S) : S[k][2] = end
    <3> HIDE DEF end
    <3>1. end \in 1 .. Len(bytes)
      BY <2>1, <2>2
    <3> QED BY <2>2, <3>1, SpanEnds
  <2> DEFINE e == S[k]
  <2>4. /\ e[1] \in 1 .. Len(bytes) /\ e[2] \in e[1] .. Len(bytes)
        /\ \A i \in e[1] .. e[2] - 1 : bytes[i] # "LF"
        /\ e[1] = 1 \/ bytes[e[1] - 1] = "LF"
    <3>1. k = 1 \/ k > 1
      OBVIOUS
    <3> QED BY <3>1, <2>2, SpansAre
  <2>5. HasBytes(AsLine(bytes, e)) <=> ~(bytes[e[2]] = "LF" /\ e[1] = e[2])
    BY AsLineIs
  <2>6. e[2] = end
    BY <2>3
  <2> HIDE DEF e
  <2>7. d[1] = e[1]
    <3>1. ~(e[1] < d[1])
      <4> SUFFICES ASSUME e[1] < d[1] PROVE FALSE
        OBVIOUS
      <4>1. d[1] - 1 \in e[1] .. e[2] - 1 /\ d[1] # 1
        BY <2>1, <2>2, <2>4, <2>6
      <4> QED BY <2>1, <2>4, <4>1
    <3>2. ~(d[1] < e[1])
      <4> SUFFICES ASSUME d[1] < e[1] PROVE FALSE
        OBVIOUS
      <4>1. e[1] - 1 \in d[1] .. d[2] /\ e[1] # 1
        BY <2>1, <2>2, <2>4, <2>6
      <4> QED BY <2>1, <2>4, <4>1
    <3> QED BY <2>1, <2>4, <3>1, <3>2
  <2>8. bytes[d[2]] # "LF" /\ (end # d[2] => bytes[end] = "LF" /\ end = d[2] + 1)
    BY <2>1
  <2>9. Bare(e) = d /\ ~(bytes[e[2]] = "LF" /\ e[1] = e[2])
    <3>1. IF bytes[e[2]] = "LF" THEN e[2] - 1 = d[2] ELSE e[2] = d[2]
      BY <2>1, <2>2, <2>6, <2>8
    <3>2. Bare(e) = <<d[1], d[2]>>
      BY <2>7, <3>1
    <3> QED BY <2>1, <2>2, <2>6, <2>7, <2>8, <3>2
  <2> QED BY <2>5, <2>9 DEF e
<1> HIDE DEF Bare, S
<1>4. \A d \in Due(bytes) : d \in Stretches(bytes)
  BY <1>1, <1>2
<1>5. \A d \in Stretches(bytes) : d \in Due(bytes)
  BY <1>1, <1>3
<1> QED BY <1>4, <1>5

\* What Terminated sees of the bytes received makes the C string in them a request.
LEMMA RequestIs ==
  ASSUME NEW bytes \in Seq({"CR", "LF", "NUL", "x"}), LP!Terminated(bytes), NEW string,
         string = CString(bytes)
  PROVE  IsText([k \in 1 .. Len(Spans(string)) |-> AsLine(string, Spans(string)[k])])
<1> DEFINE spans == Spans(string)
           lines == [k \in 1 .. Len(spans) |-> AsLine(string, spans[k])]
<1>1. /\ string \in Text
      /\ \A i \in 1 .. Len(string) : string[i] = bytes[i]
      /\ \A i \in 1 .. Len(bytes) : (\A j \in 1 .. i : bytes[j] # "NUL") => i <= Len(string)
  BY CStringIs
<1>2. PICK i \in 1 .. Len(bytes) - 1 :
        /\ bytes[i] \in {"CR", "LF"} /\ bytes[i + 1] = "LF"
        /\ \A j \in 1 .. i : bytes[j] # "NUL"
  BY DEF LP!Terminated
<1>3. i \in 1 .. Len(string) /\ i + 1 \in 1 .. Len(string) /\ string[i] \in {"CR", "LF"} /\ string[i + 1] = "LF"
  <2>1. i \in Nat /\ i + 1 \in 1 .. Len(bytes) /\ i \in 1 .. Len(bytes)
    OBVIOUS
  <2>2. \A j \in 1 .. i + 1 : j \in 1 .. i \/ j = i + 1
    BY <2>1
  <2>3. \A j \in 1 .. i + 1 : bytes[j] # "NUL"
    BY <1>2, <2>2
  <2>4. i + 1 <= Len(string) /\ Len(string) \in Nat
    BY <1>1, <2>1, <2>3 DEF Text
  <2> QED BY <1>1, <1>2, <2>1, <2>4
<1>4. Len(spans) \in Nat /\ Len(lines) = Len(spans) /\ \A k \in 1 .. Len(spans) : lines[k] = AsLine(string, spans[k])
  <2>1. Within(Ends(string), Len(string))
    BY <1>1, PlacesWithin DEF Ends, Text
  <2>2. Cardinality(Ends(string)) \in Nat
    BY <2>1, RankStep, FS_CardinalityType
  <2>3. Len(spans) \in Nat
    BY <2>2 DEF Spans
  <2> HIDE DEF spans
  <2> QED BY <2>3
<1>5. PICK k \in 1 .. Len(spans) : spans[k][2] = i + 1
  BY <1>1, <1>3, SpanEnds DEF Text
<1>6. /\ spans[k][1] \in 1 .. i + 1
      /\ \A j \in spans[k][1] .. i : string[j] # "LF"
      /\ k = 1 => spans[k][1] = 1
      /\ k > 1 => /\ k - 1 \in 1 .. Len(spans) /\ spans[k][1] = spans[k - 1][2] + 1
                  /\ string[spans[k][1] - 1] = "LF"
  <2>1. (i + 1) - 1 = i
    BY <1>3
  <2> QED BY <1>1, <1>5, <2>1, SpansAre DEF Text
<1>7. Dispatched(lines)
  <2>1. CASE string[i] = "CR"
    <3>1. spans[k][1] # i + 1
      <4> SUFFICES ASSUME spans[k][1] = i + 1 PROVE FALSE
        OBVIOUS
      <4>1. k > 1 /\ spans[k][1] - 1 = i
        BY <1>3, <1>6
      <4> QED BY <1>6, <2>1, <4>1
    <3>2. spans[k][1] < spans[k][2] /\ spans[k][2] - 1 = i
      BY <1>3, <1>5, <1>6, <3>1
    <3>3. AsLine(string, spans[k]).ending = "CRLF"
      <4>1. string[spans[k][2]] = "LF" /\ string[spans[k][2] - 1] = "CR"
        BY <1>3, <1>5, <2>1, <3>2
      <4> QED BY <1>1, <3>2, <4>1, AsLineIs
    <3> HIDE DEF spans, lines
    <3> QED BY <1>4, <3>3 DEF Dispatched
  <2>2. CASE string[i] = "LF"
    <3>1. spans[k][1] = i + 1
      <4>1. ~(spans[k][1] <= i)
        BY <1>3, <1>6, <2>2
      <4> QED BY <1>3, <1>6, <4>1
    <3>2. k > 1 /\ k - 1 \in 1 .. Len(spans) /\ spans[k - 1][2] = i
      <4>1. k > 1
        BY <1>3, <1>6, <3>1
      <4>2. k - 1 \in 1 .. Len(spans)
        BY <1>6, <4>1
      <4>3. spans[k - 1][2] \in Nat
        BY <1>1, <4>2, SpansAre DEF Text
      <4> QED BY <1>3, <1>6, <3>1, <4>1, <4>2, <4>3
    <3>3. AsLine(string, spans[k]).ending = "LF" /\ AsLine(string, spans[k]).kind = "empty"
      BY <1>1, <1>3, <1>5, <3>1, AsLineIs
    <3>4. AsLine(string, spans[k - 1]).ending \in {"LF", "CRLF"}
      BY <1>1, <2>2, <3>2, AsLineIs
    <3> HIDE DEF spans, lines
    <3> QED BY <1>4, <3>2, <3>3, <3>4 DEF Dispatched
  <2> QED BY <1>3, <2>1, <2>2
<1>8. lines \in Seq(Line)
  <2>1. \A j \in 1 .. Len(spans) : AsLine(string, spans[j]) \in Line
    BY <1>1, AsLineIs
  <2> HIDE DEF spans
  <2> QED BY <1>4, <2>1
<1>9. ASSUME NEW j \in 1 .. Len(lines) - 1
      PROVE  lines[j].ending # "CUT"
  <2>1. j \in 1 .. Len(spans) /\ j + 1 \in 1 .. Len(spans) /\ j + 1 > 1 /\ (j + 1) - 1 = j
    BY <1>4
  <2>2. spans[j + 1][1] \in 1 .. Len(string) /\ spans[j + 1][1] = spans[j][2] + 1 /\ spans[j][2] \in Nat
    BY <1>1, <2>1, SpansAre DEF Text
  <2>3. spans[j][2] # Len(string)
    BY <1>1, <2>2 DEF Text
  <2>4. AsLine(string, spans[j]).ending # "CUT"
    BY <1>1, <2>1, <2>3, AsLineIs
  <2> HIDE DEF spans, lines
  <2> QED BY <1>4, <2>1, <2>4
<1> HIDE DEF lines
<1>10. IsText(lines)
  BY <1>7, <1>8, <1>9 DEF IsText
<1> QED BY <1>10 DEF lines

-----------------------------------------------------------------------------
(***************************************************************************)
(* What strtok takes of a text, a line at a time.                          *)
(***************************************************************************)
\* As strtok leaves a copy of a text, to go on at a place: nothing is written there
\* or behind, and a line begins there.
Left(bytes, left, at) ==
  /\ left \in Seq({"CR", "LF", "NUL", "x"}) /\ Len(left) = Len(bytes)
  /\ at \in 1 .. Len(bytes) + 1
  /\ \A i \in at .. Len(bytes) : left[i] = bytes[i]
  /\ at = 1 \/ at = Len(bytes) + 1 \/ bytes[at - 1] = "LF"

Tokens(left, at) ==
  {e \in (at .. Len(left)) \X (at .. Len(left)) : e[1] <= e[2] /\ IsToken(left, at, e[1], e[2])}

\* Strtok returns NULL only behind the beginning of the last line that has a byte.
LEMMA NoToken ==
  ASSUME NEW bytes \in Text, NEW left, NEW at, Left(bytes, left, at), Tokens(left, at) = {},
         NEW e \in Stretches(bytes)
  PROVE  e[1] < at
<1>1. /\ Len(bytes) \in Nat /\ Len(left) = Len(bytes) /\ at \in 1 .. Len(bytes) + 1
      /\ \A i \in at .. Len(bytes) : left[i] = bytes[i] /\ bytes[i] # "NUL"
  BY DEF Left, Text
<1>2. e[1] \in 1 .. Len(bytes) /\ e[2] \in e[1] .. Len(bytes) /\ bytes[e[1]] # "LF"
  BY DEF Stretches
<1> SUFFICES ASSUME ~(e[1] < at) PROVE FALSE
  OBVIOUS
<1> DEFINE Seen == {i \in at .. Len(bytes) : bytes[i] # "LF"}
<1>3. PICK first \in Seen : \A i \in Seen : first <= i
  <2>1. e[1] \in Seen /\ Seen \subseteq Nat
    BY <1>1, <1>2
  <2> HIDE DEF Seen
  <2> QED BY <2>1, LeastExists
<1>4. first \in at .. Len(bytes) /\ bytes[first] # "LF" /\ \A i \in at .. first - 1 : bytes[i] = "LF"
  <2>1. ASSUME NEW i \in at .. first - 1
        PROVE  bytes[i] = "LF"
    <3>1. i \in at .. Len(bytes) /\ ~(first <= i)
      BY <1>1
    <3> QED BY <1>3, <3>1
  <2> QED BY <2>1
<1> DEFINE Stops == {i \in first .. Len(bytes) : i = Len(bytes) \/ bytes[i + 1] = "LF"}
<1> HIDE DEF Seen
<1>5. PICK last \in Stops : \A i \in Stops : last <= i
  <2>1. Len(bytes) \in Stops /\ Stops \subseteq Nat
    BY <1>1, <1>4
  <2> HIDE DEF Stops
  <2> QED BY <2>1, LeastExists
<1>6. /\ last \in first .. Len(bytes) /\ (last = Len(bytes) \/ bytes[last + 1] = "LF")
      /\ \A i \in first .. last : bytes[i] # "LF"
  <2>1. ASSUME NEW i \in first .. last, i # first
        PROVE  bytes[i] # "LF"
    <3>1. i - 1 \in first .. Len(bytes) /\ ~(last <= i - 1) /\ (i - 1) + 1 = i
      BY <1>1, <1>4, <2>1
    <3> QED BY <1>5, <3>1
  <2> QED BY <1>4, <2>1
<1> HIDE DEF Stops
<1>7. /\ \A i \in at .. first - 1 : left[i] = "LF"
      /\ \A i \in first .. last : left[i] \notin {"LF", "NUL"}
      /\ last < Len(left) => left[last + 1] \in {"LF", "NUL"}
  <2>1. \A i \in at .. first - 1 : i \in at .. Len(bytes)
    BY <1>1, <1>4
  <2>2. \A i \in first .. last : i \in at .. Len(bytes)
    BY <1>1, <1>4, <1>6
  <2>3. last < Len(left) => last + 1 \in at .. Len(bytes)
    BY <1>1, <1>4, <1>6
  <2> QED BY <1>1, <1>4, <1>6, <2>1, <2>2, <2>3
<1>8. first \in at .. Len(left) /\ last \in at .. Len(left) /\ first <= last
  BY <1>1, <1>4, <1>6
<1>9. <<first, last>> \in Tokens(left, at)
  BY <1>7, <1>8 DEF Tokens, IsToken
<1> QED BY <1>9

\* What strtok returns is a line of the text, and it goes on at the next.
LEMMA TokenIs ==
  ASSUME NEW bytes \in Text, NEW left, NEW at, Left(bytes, left, at), NEW e \in Tokens(left, at)
  PROVE  /\ e \in Stretches(bytes) /\ at <= e[1]
         /\ Left(bytes, Cut(left, e[2]), Behind(left, e[2])) /\ e[2] < Behind(left, e[2])
         /\ \A d \in Stretches(bytes) : d[1] < Behind(left, e[2]) => d[1] < at \/ d = e
<1>1. /\ Len(bytes) \in Nat /\ Len(left) = Len(bytes) /\ at \in 1 .. Len(bytes) + 1
      /\ \A i \in at .. Len(bytes) : left[i] = bytes[i] /\ bytes[i] # "NUL"
      /\ at = 1 \/ at = Len(bytes) + 1 \/ bytes[at - 1] = "LF"
      /\ left \in Seq({"CR", "LF", "NUL", "x"})
  BY DEF Left, Text
<1>2. /\ e[1] \in at .. Len(bytes) /\ e[2] \in at .. Len(bytes) /\ e[1] <= e[2]
      /\ e \in (1 .. Len(bytes)) \X (1 .. Len(bytes))
      /\ \A i \in at .. e[1] - 1 : left[i] = "LF"
      /\ \A i \in e[1] .. e[2] : left[i] \notin {"LF", "NUL"}
      /\ e[2] < Len(bytes) => left[e[2] + 1] \in {"LF", "NUL"}
  BY <1>1 DEF Tokens, IsToken
<1>3. /\ \A i \in at .. e[1] - 1 : bytes[i] = "LF"
      /\ \A i \in e[1] .. e[2] : bytes[i] # "LF"
      /\ e[2] < Len(bytes) => bytes[e[2] + 1] = "LF"
  <2>1. \A i \in at .. e[1] - 1 : i \in at .. Len(bytes)
    BY <1>1, <1>2
  <2>2. \A i \in e[1] .. e[2] : i \in at .. Len(bytes)
    BY <1>1, <1>2
  <2>3. e[2] < Len(bytes) => e[2] + 1 \in at .. Len(bytes)
    BY <1>1, <1>2
  <2> QED BY <1>1, <1>2, <2>1, <2>2, <2>3
<1>4. e[1] = 1 \/ bytes[e[1] - 1] = "LF"
  <2>1. CASE e[1] = at
    BY <1>1, <1>2, <2>1
  <2>2. CASE e[1] # at
    <3>1. e[1] - 1 \in at .. e[1] - 1
      BY <1>1, <1>2, <2>2
    <3> QED BY <1>3, <3>1
  <2> QED BY <2>1, <2>2
<1>5. e \in Stretches(bytes)
  <2>1. e[2] = Len(bytes) \/ bytes[e[2] + 1] = "LF"
    BY <1>1, <1>2, <1>3
  <2> QED BY <1>2, <1>3, <1>4, <2>1 DEF Stretches
<1> DEFINE next == Behind(left, e[2])
           cut == Cut(left, e[2])
<1>6. /\ next \in 1 .. Len(bytes) + 1 /\ e[2] < next
      /\ (next = e[2] + 1 /\ e[2] = Len(bytes)) \/ (next = e[2] + 2 /\ e[2] < Len(bytes))
  <2>1. next = IF e[2] < Len(bytes) THEN e[2] + 2 ELSE e[2] + 1
    BY <1>1 DEF Behind
  <2> HIDE DEF next
  <2>2. e[2] \in Nat /\ 1 <= e[2] /\ e[2] <= Len(bytes)
    BY <1>1, <1>2
  <2>3. CASE e[2] < Len(bytes)
    <3>1. next = e[2] + 2 /\ next \in 1 .. Len(bytes) + 1
      BY <1>1, <2>1, <2>2, <2>3
    <3> QED BY <2>2, <2>3, <3>1
  <2>4. CASE e[2] = Len(bytes)
    <3>1. next = e[2] + 1 /\ next \in 1 .. Len(bytes) + 1
      BY <1>1, <2>1, <2>2, <2>4
    <3>2. e[2] < next
      BY <2>2, <3>1
    <3> QED BY <2>4, <3>1, <3>2
  <2> QED BY <1>1, <2>2, <2>3, <2>4
<1>7. cut \in Seq({"CR", "LF", "NUL", "x"}) /\ Len(cut) = Len(bytes)
      /\ \A i \in next .. Len(bytes) : cut[i] = left[i]
  <2>1. CASE e[2] = Len(bytes)
    <3>1. cut = left
      BY <1>1, <2>1 DEF Cut
    <3> QED BY <1>1, <3>1
  <2>2. CASE e[2] < Len(bytes)
    <3>1. cut = [left EXCEPT ![e[2] + 1] = "NUL"] /\ next = e[2] + 2
      BY <1>1, <2>2 DEF Cut, Behind
    <3>2. e[2] + 1 \in 1 .. Len(left)
      BY <1>1, <1>2, <2>2
    <3> HIDE DEF cut
    <3> QED BY <1>1, <1>2, <3>1, <3>2
  <2> QED BY <1>6, <2>1, <2>2
<1> HIDE DEF next, cut
<1>8. Left(bytes, cut, next)
  <2>1. \A i \in next .. Len(bytes) : i \in at .. Len(bytes)
    BY <1>1, <1>2, <1>6
  <2>2. next = Len(bytes) + 1 \/ bytes[next - 1] = "LF"
    <3>1. next - 1 = e[2] + 1 \/ next = Len(bytes) + 1
      BY <1>1, <1>2, <1>6
    <3> QED BY <1>2, <1>3, <1>6, <3>1
  <2> QED BY <1>1, <1>6, <1>7, <2>1, <2>2 DEF Left
<1>9. ASSUME NEW d \in Stretches(bytes), d[1] < next, ~(d[1] < at)
      PROVE  d = e
  <2>1. /\ d = <<d[1], d[2]>> /\ d[1] \in at .. Len(bytes) /\ d[2] \in d[1] .. Len(bytes)
        /\ \A i \in d[1] .. d[2] : bytes[i] # "LF"
        /\ d[1] = 1 \/ bytes[d[1] - 1] = "LF"
        /\ d[2] = Len(bytes) \/ bytes[d[2] + 1] = "LF"
    BY <1>1, <1>9 DEF Stretches
  <2>2. bytes[d[1]] # "LF"
    BY <2>1
  <2>3. ~(d[1] < e[1])
    <3> SUFFICES ASSUME d[1] < e[1] PROVE FALSE
      OBVIOUS
    <3>1. d[1] \in at .. e[1] - 1
      BY <1>1, <1>2, <2>1
    <3> QED BY <1>3, <2>2, <3>1
  <2>4. ~(e[1] < d[1])
    <3> SUFFICES ASSUME e[1] < d[1] PROVE FALSE
      OBVIOUS
    <3>1. d[1] # 1 /\ (d[1] - 1 \in e[1] .. e[2] \/ d[1] = e[2] + 1)
      BY <1>1, <1>2, <1>6, <1>9, <2>1
    <3>2. d[1] = e[2] + 1 => e[2] < Len(bytes)
      BY <1>1, <1>2, <2>1
    <3> QED BY <1>3, <2>1, <2>2, <3>1, <3>2
  <2>5. d[1] = e[1]
    BY <1>1, <1>2, <2>1, <2>3, <2>4
  <2>6. ~(d[2] < e[2])
    <3> SUFFICES ASSUME d[2] < e[2] PROVE FALSE
      OBVIOUS
    <3>1. d[2] # Len(bytes) /\ d[2] + 1 \in e[1] .. e[2]
      BY <1>1, <1>2, <2>1, <2>5
    <3> QED BY <1>3, <2>1, <3>1
  <2>7. ~(e[2] < d[2])
    <3> SUFFICES ASSUME e[2] < d[2] PROVE FALSE
      OBVIOUS
    <3>1. e[2] < Len(bytes) /\ e[2] + 1 \in d[1] .. d[2]
      BY <1>1, <1>2, <2>1, <2>5
    <3> QED BY <1>3, <2>1, <3>1
  <2>8. d[2] = e[2]
    BY <1>1, <1>2, <2>1, <2>6, <2>7
  <2> QED BY <1>2, <2>1, <2>5, <2>8
<1> QED BY <1>2, <1>5, <1>6, <1>8, <1>9 DEF next, cut

-----------------------------------------------------------------------------
(***************************************************************************)
(* The loop, of which the invariant of ServerProofs holds.                 *)
(***************************************************************************)
\* The assumptions of Server.
LEMMA PoolIs == Cardinality(Threads) \in Nat \ {0} /\ Chunks \subseteq Seq({"CR", "LF", "NUL", "x"})
  BY ThreadsAssumption, ChunksAssumption, FS_CardinalityType, FS_EmptySet

LEMMA LoopInit == Init => LP!Inv
<1>1. Init => LP!Init
  BY Zenon DEF Init, Loop!Init, LP!Init
<1> QED BY <1>1, PoolIs, LP!InvInit

\* The callbacks of this module are those of Server, as ServerProofs knows them.
LEMMA LoopCallbacks ==
  ASSUME NEW c \in Conns
  PROVE  /\ Connected(c) => LP!ConnectionCb(c)
         /\ Read(c) => LP!ReadCb(c)
         /\ TimedOut(c) => LP!ClientTimeoutCb(c)
         /\ Processed(c) => LP!AfterProcessCommand(c)
         /\ Written(c) => LP!OnWriteEnd(c)
         /\ \A handle \in Loop!Handles : HandleClosed(c, handle) => LP!OnCloseFree(c, handle)
         /\ TakeUp(c) => LP!ProcessStart(c)
         /\ Overrun(c) \/ Finish(c) => LP!ProcessCommand(c)
         /\ Loop!Handles = LP!Handles
<1>1. Connected(c) => LP!ConnectionCb(c)
  BY Zenon DEF Connected, Callback, Loop!ConnectionCb, LP!ConnectionCb, Loop!StartReceiving, LP!StartReceiving,
     Loop!TimerStart, LP!TimerStart, Loop!CloseData, LP!CloseData, Loop!Closed, LP!Closed,
     Loop!Freed, LP!Freed, Loop!Handles, LP!Handles, Loop!Running, LP!Running
<1>2. Read(c) => LP!ReadCb(c)
  BY Zenon DEF Read, Callback, Loop!ReadCb, LP!ReadCb, Loop!ReadData, LP!ReadData,
     Loop!StartWork, LP!StartWork, Loop!ReadStop, LP!ReadStop, Loop!QueueWork, LP!QueueWork,
     Loop!LineEndSeen, LP!LineEndSeen, Loop!Terminated, LP!Terminated, Loop!StreamEnd, LP!StreamEnd,
     Loop!CloseData, LP!CloseData, Loop!Closed, LP!Closed,
     Loop!Freed, LP!Freed, Loop!Handles, LP!Handles, Loop!Running, LP!Running
<1>3. TimedOut(c) => LP!ClientTimeoutCb(c)
  BY Zenon DEF TimedOut, Callback, Loop!ClientTimeoutCb, LP!ClientTimeoutCb, Loop!WorkStarted, LP!WorkStarted,
     Loop!CloseData, LP!CloseData, Loop!Closed, LP!Closed,
     Loop!Freed, LP!Freed, Loop!Handles, LP!Handles, Loop!Running, LP!Running
<1>4. Processed(c) => LP!AfterProcessCommand(c)
  BY Zenon DEF Processed, Callback, Loop!AfterProcessCommand, LP!AfterProcessCommand, Loop!Running, LP!Running
<1>5. Written(c) => LP!OnWriteEnd(c)
  BY Zenon DEF Written, Callback, Loop!OnWriteEnd, LP!OnWriteEnd, Loop!CloseData, LP!CloseData,
     Loop!Closed, LP!Closed, Loop!Freed, LP!Freed, Loop!Handles, LP!Handles, Loop!Running, LP!Running
<1>6. \A handle \in Loop!Handles : HandleClosed(c, handle) => LP!OnCloseFree(c, handle)
  BY Zenon DEF HandleClosed, Callback, Loop!OnCloseFree, LP!OnCloseFree, Loop!Running, LP!Running
<1>7. TakeUp(c) => LP!ProcessStart(c)
  <2>1. TakeUp(c) => Loop!ProcessStart(c)
    BY DEF TakeUp
  <2>2. Loop!ProcessStart(c) => LP!ProcessStart(c)
    <3>1. ASSUME NEW S
          PROVE  Loop!Cardinality(S) = LP!Cardinality(S)
      BY DEF Loop!Cardinality, LP!Cardinality, Loop!IsFiniteSet, LP!IsFiniteSet
    <3> QED BY <3>1, Zenon DEF Loop!ProcessStart, LP!ProcessStart, Loop!Running, LP!Running
  <2> QED BY <2>1, <2>2
<1>8. Overrun(c) \/ Finish(c) => LP!ProcessCommand(c)
  <2>1. Overrun(c) \/ Finish(c) => Loop!ProcessCommand(c)
    BY Zenon DEF Overrun, Finish
  <2>2. Loop!ProcessCommand(c) => LP!ProcessCommand(c)
    <3>1. ASSUME NEW S
          PROVE  Loop!Cardinality(S) = LP!Cardinality(S)
      BY DEF Loop!Cardinality, LP!Cardinality, Loop!IsFiniteSet, LP!IsFiniteSet
    <3>2. ASSUME NEW bytes
          PROVE  Loop!LineStarts(bytes) = LP!LineStarts(bytes)
      BY Zenon DEF Loop!LineStarts, LP!LineStarts
    <3>3. ASSUME NEW bytes
          PROVE  Loop!HeaderLines(bytes) = LP!HeaderLines(bytes)
      BY <3>2, Zenon DEF Loop!HeaderLines, LP!HeaderLines
    <3>4. ASSUME NEW bytes
          PROVE  /\ Loop!HasRequestLine(bytes) <=> LP!HasRequestLine(bytes)
                 /\ Loop!MayOverrun(bytes) <=> LP!MayOverrun(bytes)
      BY <3>1, <3>2, <3>3, Zenon
         DEF Loop!HasRequestLine, LP!HasRequestLine, Loop!MayOverrun, LP!MayOverrun
    <3> QED BY <3>4, Zenon DEF Loop!ProcessCommand, LP!ProcessCommand, Loop!Running, LP!Running
  <2> QED BY <2>1, <2>2
<1>9. Loop!Handles = LP!Handles
  BY DEF Loop!Handles, LP!Handles
<1> QED BY <1>1, <1>2, <1>3, <1>4, <1>5, <1>6, <1>7, <1>8, <1>9

LEMMA LoopNext == [Next]_vars => [LP!Next]_LP!vars
<1> SUFFICES ASSUME [Next]_vars
             PROVE  LP!Next \/ UNCHANGED LP!vars
  OBVIOUS
<1>1. CASE Main
  BY <1>1 DEF Main, Loop!Main, LP!Main, LP!Next
<1>2. ASSUME NEW c \in Conns,
             \/ Connected(c) \/ Read(c) \/ TimedOut(c) \/ Processed(c) \/ Written(c)
             \/ \E handle \in Loop!Handles : HandleClosed(c, handle)
             \/ TakeUp(c) \/ Overrun(c) \/ Finish(c)
      PROVE  LP!Next
  BY <1>2, LoopCallbacks, Zenon DEF LP!Next
<1>3. ASSUME NEW c \in Conns, Duplicate(c) \/ FirstLine(c) \/ NextLine(c)
      PROVE  UNCHANGED LP!vars
  BY <1>3 DEF Duplicate, FirstLine, NextLine, loopVars, LP!vars
<1>4. CASE UNCHANGED vars
  BY <1>4 DEF vars, loopVars, LP!vars
<1> QED BY <1>1, <1>2, <1>3, <1>4, Zenon DEF Next, InPool

LEMMA LoopStep == LP!Inv /\ [Next]_vars => LP!Inv'
  BY LoopNext, PoolIs, LP!InvStep

\* A thread works for a connection while its work is running.
Working == \A c \in Conns : thread[c] # None => work[c] = "running"

\* Only the end of process_command ends it.
LEMMA WorkingStep ==
  ASSUME LP!Inv, Inv, Working, [Next]_vars
  PROVE  Working'
<1> SUFFICES ASSUME NEW c \in Conns, thread'[c] # None
             PROVE  work'[c] = "running"
  BY DEF Working
<1>1. ASSUME UNCHANGED <<thread, work>>
      PROVE  work'[c] = "running"
  BY <1>1 DEF Working
<1>2. ASSUME NEW d \in Conns,
             \/ Connected(d) \/ Read(d) \/ TimedOut(d) \/ Processed(d) \/ Written(d)
             \/ \E handle \in Loop!Handles : HandleClosed(d, handle)
      PROVE  work'[c] = "running"
  <2>1. UNCHANGED thread
    BY <1>2, Zenon DEF Connected, Read, TimedOut, Processed, Written, HandleClosed, Callback, poolVars
  <2>2. work[c] = "running"
    BY <2>1 DEF Working
  <2> QED BY <1>2, <2>2, LoopCallbacks, PoolIs, LP!StillRunning, Zenon
<1>3. ASSUME NEW d \in Conns, TakeUp(d)
      PROVE  work'[c] = "running"
  <2>1. LP!ProcessStart(d)
    BY <1>3, LoopCallbacks
  <2>2. CASE d = c
    BY <2>1, <2>2 DEF LP!ProcessStart, LP!Inv, LP!TypeOK
  <2>3. CASE d # c
    <3>1. thread'[c] = thread[c]
      BY <1>3, <2>3 DEF TakeUp, Inv, TypeInv
    <3>2. work[c] = "running"
      BY <3>1 DEF Working
    <3> QED BY <2>1, <3>2, PoolIs, LP!StillRunning
  <2> QED BY <2>2, <2>3
<1>4. ASSUME NEW d \in Conns, Finish(d)
      PROVE  work'[c] = "running"
  <2>1. thread' = [thread EXCEPT ![d] = None]
    BY <1>4 DEF Finish
  <2>2. d # c /\ thread[c] # None
    BY <2>1 DEF Inv, TypeInv
  <2> QED BY <1>4, <2>2, LoopCallbacks, PoolIs, LP!StillRunning DEF Working
<1>5. ASSUME NEW d \in Conns, Duplicate(d) \/ FirstLine(d) \/ NextLine(d)
      PROVE  work'[c] = "running"
  BY <1>1, <1>5 DEF Duplicate, FirstLine, NextLine, loopVars
<1>6. CASE Main
  BY <1>1, <1>6 DEF Main, Loop!Main, poolVars
<1>7. CASE UNCHANGED vars
  BY <1>1, <1>7 DEF vars, loopVars, poolVars
<1>8. ASSUME NEW d \in Conns, Overrun(d)
      PROVE  work'[c] = "running"
  BY <1>1, <1>8 DEF Overrun, Loop!ProcessCommand, Loop!Running, poolVars
<1> QED BY <1>2, <1>3, <1>4, <1>5, <1>6, <1>7, <1>8, Zenon DEF Next, InPool

\* What a thread works on is a text that read_cb dispatched, and nothing writes to it.
LEMMA TextIs ==
  ASSUME LP!Inv, Working, NEW c \in Conns, thread[c] # None
  PROVE  text[c] \in Seq({"CR", "LF", "NUL", "x"}) /\ LP!Terminated(text[c]) /\ c \in started
<1>1. work[c] = "running" /\ LP!ConnInv(c) /\ LP!TypeOK
  BY DEF Working, LP!Inv
<1>2. c \in started
  BY <1>1 DEF LP!ConnInv
<1> QED BY <1>1, <1>2 DEF LP!ConnInv, LP!TypeOK, LP!Byte

LEMMA TextStays ==
  ASSUME LP!Inv, Inv, Working, [Next]_vars, NEW c \in Conns, thread[c] # None, thread'[c] # None
  PROVE  text'[c] = text[c]
<1>1. LP!Inv' /\ Working'
  BY LoopStep, WorkingStep
<1>2. c \in started
  BY TextIs
<1>3. c \in started'
  <2>1. work'[c] = "running" /\ LP!ConnInv(c)'
    BY <1>1 DEF Working, LP!Inv
  <2> QED BY <2>1 DEF LP!ConnInv
<1> QED BY <1>2, <1>3, LoopNext, PoolIs, LP!FrozenStep

-----------------------------------------------------------------------------
(***************************************************************************)
(* How far strtok has come with each copy.                                 *)
(***************************************************************************)
Got(c) == {given[c][k] : k \in 1 .. Len(given[c])}
Place(c) == token[thread[c]].at

\* Of the lines of a text that begin before a place all are given, and no other, and
\* in order.
GivenUpTo(c, at) ==
  /\ Got(c) \subseteq Stretches(TextOf(c))
  /\ \A e \in Stretches(TextOf(c)) : e[1] < at => e \in Got(c)
  /\ \A k \in 1 .. Len(given[c]) : given[c][k][2] < at
  /\ \A j, k \in 1 .. Len(given[c]) : j < k => given[c][j][2] < given[c][k][1]

\* The inductive invariant, for one connection.
CopyInv(c) ==
  /\ thread[c] = None \/ line[c] \in {"none", "copied"} => given[c] = << >>
  /\ thread[c] # None =>
       /\ line[c] = "copied" => copy[c] = TextOf(c)
       /\ line[c] = "some" => Left(TextOf(c), copy[c], Place(c)) /\ GivenUpTo(c, Place(c))
       /\ line[c] = "NULL" => GivenUpTo(c, Len(TextOf(c)) + 1)

CopyType ==
  /\ copy \in [Conns -> Seq({"CR", "LF", "NUL", "x"})]
  /\ given \in [Conns -> Seq(Nat \X Nat)]

LinesInv == LP!Inv /\ Inv /\ Working /\ CopyType /\ \A c \in Conns : CopyInv(c)

\* A step that leaves the lines of a connection alone.
LEMMA CopyElsewhere ==
  ASSUME NEW c \in Conns, CopyInv(c), thread'[c] = thread[c], line'[c] = line[c],
         given'[c] = given[c], copy'[c] = copy[c],
         thread[c] # None => text'[c] = text[c] /\ token'[thread[c]] = token[thread[c]]
  PROVE  CopyInv(c)'
<1>1. CASE thread[c] = None
  BY <1>1 DEF CopyInv
<1>2. CASE thread[c] # None
  <2>1. /\ TextOf(c)' = TextOf(c) /\ Place(c)' = Place(c) /\ Got(c)' = Got(c)
    BY <1>2 DEF TextOf, Place, Got
  <2>2. \A at : GivenUpTo(c, at) <=> GivenUpTo(c, at)'
    BY <2>1 DEF GivenUpTo
  <2> QED BY <1>2, <2>1, <2>2 DEF CopyInv
<1> QED BY <1>1, <1>2

\* The text a thread works on is a C string.
LEMMA StringIs ==
  ASSUME LP!Inv, Working, NEW c \in Conns, thread[c] # None
  PROVE  TextOf(c) \in Text /\ Len(TextOf(c)) \in Nat
<1>1. TextOf(c) \in Text
  BY TextIs, CStringIs DEF TextOf
<1> QED BY <1>1 DEF Text

\* One call of strtok for c, wherever it goes on.
LEMMA StrtokLines ==
  ASSUME LinesInv, [Next]_vars, NEW c \in Conns, thread[c] # None, UNCHANGED thread,
         NEW at, Strtok(c, [of |-> c, at |-> at]),
         Left(TextOf(c), copy[c], at), GivenUpTo(c, at)
  PROVE  CopyType' /\ \A d \in Conns : CopyInv(d)'
<1> DEFINE place == [of |-> c, at |-> at]
<1>1. /\ TextOf(c) \in Text /\ Len(TextOf(c)) \in Nat /\ Len(copy[c]) = Len(TextOf(c))
      /\ thread[c] \in Threads /\ thread'[c] = thread[c]
  BY StringIs DEF LinesInv, Left, Inv, TypeInv
<1>2. TextOf(c)' = TextOf(c)
  BY TextStays DEF TextOf, LinesInv
<1>3. ASSUME Tokens(copy[c], at) = {}, line' = [line EXCEPT ![c] = "NULL"], UNCHANGED <<copy, given>>
      PROVE  CopyType' /\ CopyInv(c)'
  <2>1. CopyType'
    BY <1>3 DEF LinesInv, CopyType
  <2>2. \A e \in Stretches(TextOf(c)) : e[1] < at
    BY <1>1, <1>3, NoToken
  <2>3. GivenUpTo(c, Len(TextOf(c)) + 1)
    <3>1. at \in Nat /\ at <= Len(TextOf(c)) + 1
      BY <1>1 DEF Left
    <3>2. \A k \in 1 .. Len(given[c]) : given[c][k][2] \in Nat
      BY DEF LinesInv, CopyType
    <3>3. \A k \in 1 .. Len(given[c]) : given[c][k][2] < Len(TextOf(c)) + 1
      BY <1>1, <3>1, <3>2 DEF GivenUpTo
    <3> QED BY <2>2, <3>3 DEF GivenUpTo
  <2>4. GivenUpTo(c, Len(TextOf(c)) + 1)'
    BY <1>2, <1>3, <2>3 DEF GivenUpTo, Got
  <2>5. line'[c] = "NULL"
    BY <1>3 DEF LinesInv, Inv, TypeInv
  <2> QED BY <1>1, <2>1, <2>4, <2>5 DEF CopyInv
<1>4. ASSUME NEW e \in Tokens(copy[c], at),
             copy' = [copy EXCEPT ![c] = Cut(copy[c], e[2])],
             line' = [line EXCEPT ![c] = "some"],
             given' = [given EXCEPT ![c] = Append(@, e)],
             NEW next, next = Behind(copy[c], e[2]),
             token' = [token EXCEPT ![thread[c]] = [of |-> c, at |-> next]]
      PROVE  CopyType' /\ CopyInv(c)'
  <2>1. /\ e \in Stretches(TextOf(c)) /\ at <= e[1]
        /\ Left(TextOf(c), Cut(copy[c], e[2]), next) /\ e[2] < next
        /\ \A d \in Stretches(TextOf(c)) : d[1] < next => d[1] < at \/ d = e
    BY <1>1, <1>4, TokenIs
  <2>2. e \in Nat \X Nat /\ at \in Nat /\ next \in Nat /\ e[1] <= e[2]
    BY <1>1, <2>1 DEF Stretches, Left
  <2>3. CopyType'
    <3>1. Cut(copy[c], e[2]) \in Seq({"CR", "LF", "NUL", "x"})
      BY <2>1 DEF Left
    <3>2. copy' \in [Conns -> Seq({"CR", "LF", "NUL", "x"})]
      BY <1>4, <3>1 DEF LinesInv, CopyType
    <3>3. given' \in [Conns -> Seq(Nat \X Nat)]
      BY <1>4, <2>2 DEF LinesInv, CopyType
    <3> QED BY <3>2, <3>3 DEF CopyType
  <2>4. /\ copy'[c] = Cut(copy[c], e[2]) /\ line'[c] = "some" /\ given'[c] = Append(given[c], e)
        /\ given[c] \in Seq(Nat \X Nat)
    BY <1>4 DEF LinesInv, CopyType, Inv, TypeInv
  <2>5. Place(c)' = next
    <3>1. token'[thread[c]] = [of |-> c, at |-> next]
      BY <1>1, <1>4 DEF LinesInv, Inv, TypeInv
    <3> QED BY <1>1, <3>1 DEF Place
  <2>6. /\ Len(given'[c]) = Len(given[c]) + 1 /\ given'[c][Len(given[c]) + 1] = e
        /\ \A k \in 1 .. Len(given[c]) : given'[c][k] = given[c][k] /\ given[c][k] \in Nat \X Nat
        /\ Len(given[c]) \in Nat
    BY <2>2, <2>4
  <2>7. \A k \in 1 .. Len(given'[c]) : k \in 1 .. Len(given[c]) \/ k = Len(given[c]) + 1
    BY <2>6
  <2>8. Got(c)' = Got(c) \cup {e}
    <3>1. \A d \in Got(c)' : d \in Got(c) \cup {e}
      BY <2>6, <2>7 DEF Got
    <3>2. \A d \in Got(c) \cup {e} : d \in Got(c)'
      <4>1. \A k \in 1 .. Len(given[c]) : k \in 1 .. Len(given'[c])
        BY <2>6
      <4>2. Len(given[c]) + 1 \in 1 .. Len(given'[c])
        BY <2>6
      <4> QED BY <2>6, <4>1, <4>2 DEF Got
    <3> QED BY <3>1, <3>2
  <2>9. \A k \in 1 .. Len(given'[c]) : given'[c][k][2] < next
    <3>1. \A k \in 1 .. Len(given[c]) : given[c][k][2] < at /\ given[c][k][2] \in Nat
      BY <2>6 DEF GivenUpTo
    <3>2. at < next
      BY <2>1, <2>2
    <3>3. \A k \in 1 .. Len(given[c]) : given[c][k][2] < next
      BY <2>2, <3>1, <3>2
    <3> QED BY <2>1, <2>6, <2>7, <3>3
  <2>10. ASSUME NEW j \in 1 .. Len(given'[c]), NEW k \in 1 .. Len(given'[c]), j < k
         PROVE  given'[c][j][2] < given'[c][k][1]
    <3>1. j \in 1 .. Len(given[c])
      BY <2>6, <2>10
    <3>2. CASE k \in 1 .. Len(given[c])
      BY <2>6, <2>10, <3>1, <3>2 DEF GivenUpTo
    <3>3. CASE k = Len(given[c]) + 1
      <4>1. given[c][j][2] < at /\ given[c][j][2] \in Nat
        BY <2>6, <3>1 DEF GivenUpTo
      <4>2. given'[c][j] = given[c][j] /\ given'[c][k] = e
        BY <2>6, <3>1, <3>3
      <4> QED BY <2>1, <2>2, <4>1, <4>2
    <3> QED BY <2>7, <3>2, <3>3
  <2>11. \A d \in Stretches(TextOf(c)) : d[1] < next => d \in Got(c)'
    BY <2>1, <2>8 DEF GivenUpTo
  <2>12. Got(c)' \subseteq Stretches(TextOf(c))
    BY <2>1, <2>8 DEF GivenUpTo
  <2>13. GivenUpTo(c, next)'
    BY <1>2, <2>9, <2>10, <2>11, <2>12 DEF GivenUpTo
  <2>14. GivenUpTo(c, Place(c))'
    BY <2>5, <2>13 DEF GivenUpTo
  <2>15. Left(TextOf(c), copy[c], Place(c))'
    BY <1>2, <2>1, <2>4, <2>5
  <2> QED BY <2>3, <2>4, <2>14, <2>15, <1>1 DEF CopyInv
<1>5. CopyType' /\ CopyInv(c)'
         /\ (\E l : line' = [line EXCEPT ![c] = l])
         /\ (copy' = copy \/ \E b : copy' = [copy EXCEPT ![c] = b])
         /\ (given' = given \/ \E g : given' = [given EXCEPT ![c] = g])
         /\ (\E p : token' = [token EXCEPT ![thread[c]] = p])
  <2> DEFINE ThenAt(next) == token' = [token EXCEPT ![thread[c]] = [of |-> c, at |-> next]]
  <2>1. \/ /\ Tokens(copy[c], at) = {}
           /\ line' = [line EXCEPT ![c] = "NULL"]
           /\ ThenAt(Len(copy[c]) + 1)
           /\ UNCHANGED <<copy, given>>
        \/ \E e \in Tokens(copy[c], at) :
             /\ copy' = [copy EXCEPT ![c] = Cut(copy[c], e[2])]
             /\ line' = [line EXCEPT ![c] = "some"]
             /\ given' = [given EXCEPT ![c] = Append(@, e)]
             /\ ThenAt(Behind(copy[c], e[2]))
    BY DEF Strtok, Tokens, Slot
  <2>2. CopyType' /\ CopyInv(c)'
    BY <1>3, <1>4, <2>1
  <2> QED BY <2>1, <2>2
<1>6. ASSUME NEW d \in Conns, d # c
      PROVE  CopyInv(d)'
  <2>1. CopyInv(d) /\ thread'[d] = thread[d] /\ line'[d] = line[d]
    BY <1>5, <1>6 DEF LinesInv, Inv, TypeInv
  <2>2. copy'[d] = copy[d] /\ given'[d] = given[d]
    BY <1>5, <1>6 DEF LinesInv, CopyType
  <2>3. ASSUME thread[d] # None
        PROVE  text'[d] = text[d] /\ token'[thread[d]] = token[thread[d]]
    <3>1. thread[d] \in Threads /\ thread[d] # thread[c]
      BY <1>6, <2>3 DEF LinesInv, Inv, TypeInv, Apart
    <3>2. token'[thread[d]] = token[thread[d]]
      BY <1>5, <3>1 DEF LinesInv, Inv, TypeInv
    <3> QED BY <2>3, <3>2, TextStays DEF LinesInv
  <2> QED BY <2>1, <2>2, <2>3, CopyElsewhere
<1> QED BY <1>5, <1>6

\* The callbacks touch neither a copy nor the text of a request in a thread.
LEMMA CallbackLines ==
  ASSUME LinesInv, [Next]_vars, UNCHANGED poolVars
  PROVE  CopyType' /\ \A d \in Conns : CopyInv(d)'
<1>1. UNCHANGED <<thread, copy, line, given, token>>
  BY DEF poolVars
<1>2. \A d \in Conns : CopyInv(d) /\ (thread[d] # None => text'[d] = text[d])
  BY <1>1, TextStays DEF LinesInv
<1>3. CopyType'
  BY <1>1 DEF LinesInv, CopyType
<1> QED BY <1>1, <1>2, <1>3, CopyElsewhere

\* A thread that takes up a request has no line of it yet.
LEMMA TakeUpLines ==
  ASSUME LinesInv, [Next]_vars, NEW c \in Conns, TakeUp(c)
  PROVE  CopyType' /\ \A d \in Conns : CopyInv(d)'
<1>1. UNCHANGED <<copy, given, token>> /\ line' = [line EXCEPT ![c] = "none"]
      /\ \E t \in Threads : thread' = [thread EXCEPT ![c] = t]
  BY DEF TakeUp
<1>2. thread[c] = None
  <2>1. LP!ProcessStart(c)
    BY LoopCallbacks
  <2> QED BY <2>1 DEF LP!ProcessStart, LinesInv, Working
<1>3. CopyType'
  BY <1>1 DEF LinesInv, CopyType
<1>4. CopyInv(c)'
  <2>1. given[c] = << >>
    BY <1>2 DEF LinesInv, CopyInv
  <2>2. line'[c] = "none" /\ given'[c] = << >>
    BY <1>1, <2>1 DEF LinesInv, Inv, TypeInv
  <2> QED BY <2>2 DEF CopyInv
<1>5. ASSUME NEW d \in Conns, d # c
      PROVE  CopyInv(d)'
  <2>1. CopyInv(d) /\ thread'[d] = thread[d] /\ line'[d] = line[d]
        /\ copy'[d] = copy[d] /\ given'[d] = given[d] /\ token' = token
    BY <1>1, <1>5 DEF LinesInv, Inv, TypeInv
  <2>2. thread[d] # None => text'[d] = text[d]
    BY <2>1, TextStays DEF LinesInv
  <2> QED BY <2>1, <2>2, CopyElsewhere
<1> QED BY <1>3, <1>4, <1>5

\* strdup copies the text as a C string.
LEMMA DuplicateLines ==
  ASSUME LinesInv, [Next]_vars, NEW c \in Conns, Duplicate(c)
  PROVE  CopyType' /\ \A d \in Conns : CopyInv(d)'
<1>1. /\ thread[c] # None /\ line[c] = "none" /\ UNCHANGED <<thread, given, token>>
      /\ copy' = [copy EXCEPT ![c] = TextOf(c)] /\ line' = [line EXCEPT ![c] = "copied"]
  BY DEF Duplicate, InThread, TextOf
<1>2. TextOf(c) \in Text /\ TextOf(c)' = TextOf(c)
  BY <1>1, StringIs, TextStays DEF LinesInv, TextOf
<1>3. CopyType'
  <2>1. TextOf(c) \in Seq({"CR", "LF", "NUL", "x"})
    BY <1>2 DEF Text
  <2> QED BY <1>1, <2>1 DEF LinesInv, CopyType
<1>4. CopyInv(c)'
  <2>1. given[c] = << >>
    BY <1>1 DEF LinesInv, CopyInv
  <2>2. line'[c] = "copied" /\ given'[c] = << >> /\ copy'[c] = TextOf(c)
    BY <1>1, <2>1 DEF LinesInv, Inv, TypeInv, CopyType
  <2> QED BY <1>2, <2>2 DEF CopyInv
<1>5. ASSUME NEW d \in Conns, d # c
      PROVE  CopyInv(d)'
  <2>1. CopyInv(d) /\ thread'[d] = thread[d] /\ line'[d] = line[d]
        /\ copy'[d] = copy[d] /\ given'[d] = given[d] /\ token' = token
    BY <1>1, <1>5 DEF LinesInv, Inv, TypeInv, CopyType
  <2>2. thread[d] # None => text'[d] = text[d]
    BY <2>1, TextStays DEF LinesInv
  <2> QED BY <2>1, <2>2, CopyElsewhere
<1> QED BY <1>3, <1>4, <1>5

\* The first call goes on at the start of the copy, of which nothing is given yet.
LEMMA FirstLineLines ==
  ASSUME LinesInv, [Next]_vars, NEW c \in Conns, FirstLine(c)
  PROVE  CopyType' /\ \A d \in Conns : CopyInv(d)'
<1>1. thread[c] # None /\ line[c] = "copied" /\ UNCHANGED thread /\ Strtok(c, [of |-> c, at |-> 1])
  BY DEF FirstLine, InThread
<1>2. copy[c] = TextOf(c) /\ given[c] = << >>
  BY <1>1 DEF LinesInv, CopyInv
<1>3. TextOf(c) \in Text /\ Len(TextOf(c)) \in Nat
  BY <1>1, StringIs DEF LinesInv
<1>4. Left(TextOf(c), copy[c], 1)
  <2>1. TextOf(c) \in Seq({"CR", "LF", "NUL", "x"})
    BY <1>3 DEF Text
  <2> QED BY <1>2, <1>3, <2>1 DEF Left
<1>5. GivenUpTo(c, 1)
  <2>1. Len(given[c]) = 0 /\ Got(c) = {}
    BY <1>2 DEF Got
  <2>2. \A e \in Stretches(TextOf(c)) : ~(e[1] < 1)
    BY <1>3 DEF Stretches
  <2> QED BY <2>1, <2>2 DEF GivenUpTo
<1> QED BY <1>1, <1>4, <1>5, StrtokLines

\* Every other call goes on where the last one of this thread stopped.
LEMMA NextLineLines ==
  ASSUME LinesInv, [Next]_vars, NEW c \in Conns, NextLine(c)
  PROVE  CopyType' /\ \A d \in Conns : CopyInv(d)'
<1>1. thread[c] # None /\ line[c] = "some" /\ UNCHANGED thread /\ Strtok(c, token[thread[c]])
  BY DEF NextLine, InThread, Slot
<1>2. Left(TextOf(c), copy[c], Place(c)) /\ GivenUpTo(c, Place(c))
  BY <1>1 DEF LinesInv, CopyInv
<1>3. token[thread[c]] = [of |-> c, at |-> Place(c)]
  <2>1. thread[c] \in Threads /\ token[thread[c]].of = c
    BY <1>1 DEF LinesInv, Inv, TypeInv, OwnPlace, Slot
  <2> QED BY <2>1 DEF LinesInv, Inv, TypeInv, Place
<1>4. PICK at : at = Place(c)
  OBVIOUS
<1>5. Strtok(c, [of |-> c, at |-> at]) /\ Left(TextOf(c), copy[c], at) /\ GivenUpTo(c, at)
  BY <1>1, <1>2, <1>3, <1>4
<1> QED BY <1>1, <1>5, StrtokLines

\* The thread is done with the connection, whose lines are forgotten.
LEMMA FinishLines ==
  ASSUME LinesInv, [Next]_vars, NEW c \in Conns, Finish(c)
  PROVE  CopyType' /\ \A d \in Conns : CopyInv(d)'
<1>1. /\ copy' = [copy EXCEPT ![c] = << >>] /\ given' = [given EXCEPT ![c] = << >>]
      /\ thread' = [thread EXCEPT ![c] = None] /\ UNCHANGED <<line, token>>
  BY Zenon DEF Finish
<1>2. CopyType'
  BY <1>1 DEF LinesInv, CopyType
<1>3. CopyInv(c)'
  <2>1. thread'[c] = None /\ given'[c] = << >>
    BY <1>1 DEF LinesInv, Inv, TypeInv, CopyType
  <2> QED BY <2>1 DEF CopyInv
<1>4. ASSUME NEW d \in Conns, d # c
      PROVE  CopyInv(d)'
  <2>1. CopyInv(d) /\ thread'[d] = thread[d] /\ line'[d] = line[d]
        /\ copy'[d] = copy[d] /\ given'[d] = given[d] /\ token' = token
    BY <1>1, <1>4 DEF LinesInv, Inv, TypeInv, CopyType
  <2>2. thread[d] # None => text'[d] = text[d]
    BY <2>1, TextStays DEF LinesInv
  <2> QED BY <2>1, <2>2, CopyElsewhere
<1> QED BY <1>2, <1>3, <1>4

LEMMA LinesStep == LinesInv /\ [Next]_vars => LinesInv'
<1> SUFFICES ASSUME LinesInv, [Next]_vars
             PROVE  LinesInv'
  OBVIOUS
<1>1. LP!Inv' /\ Inv' /\ Working'
  BY LoopStep, InvStep, WorkingStep DEF LinesInv
<1>2. CopyType' /\ \A d \in Conns : CopyInv(d)'
  <2>1. CASE UNCHANGED poolVars
    BY <2>1, CallbackLines
  <2>2. CASE \E c \in Conns : TakeUp(c) \/ InPool(c)
    <3>1. ASSUME NEW c \in Conns, Overrun(c)
          PROVE  UNCHANGED poolVars
      BY <3>1, Zenon DEF Overrun
    <3> QED
      BY <2>2, <3>1, CallbackLines, TakeUpLines, DuplicateLines, FirstLineLines, NextLineLines,
         FinishLines DEF InPool
  <2>3. UNCHANGED poolVars \/ \E c \in Conns : TakeUp(c) \/ InPool(c)
    BY Zenon DEF Next, Main, Connected, Read, TimedOut, Processed, Written, HandleClosed, Callback, vars
  <2> QED BY <2>1, <2>2, <2>3
<1> QED BY <1>1, <1>2 DEF LinesInv

LEMMA LinesInit == Init => LinesInv
<1> SUFFICES ASSUME Init PROVE LinesInv
  OBVIOUS
<1>1. LP!Inv /\ Inv
  BY LoopInit, InvInit
<1>2. Working /\ CopyType /\ \A c \in Conns : CopyInv(c)
  BY DEF Init, Working, CopyType, CopyInv
<1> QED BY <1>1, <1>2 DEF LinesInv

-----------------------------------------------------------------------------
\* How far strtok has come with each copy, in every reachable state.
THEOREM LinesInvCorrect == Spec => []LinesInv
  BY LinesInit, LinesStep, PTL DEF Spec

\* Whatever the reads delivered, what a thread parses is a text of module HttpRequest:
\* it holds a line end, and no line of it is cut but the last.
THEOREM KnownTextCorrect == Spec => []KnownText
<1>1. LinesInv => KnownText
  <2> SUFFICES ASSUME LinesInv, NEW c \in Conns, thread[c] # None
               PROVE  IsText(LinesOf(c))
    BY DEF KnownText
  <2>1. text[c] \in Seq({"CR", "LF", "NUL", "x"}) /\ LP!Terminated(text[c])
    BY TextIs DEF LinesInv
  <2>2. IsText([k \in 1 .. Len(Spans(TextOf(c))) |-> AsLine(TextOf(c), Spans(TextOf(c))[k])])
    BY <2>1, RequestIs DEF TextOf
  <2> QED BY <2>2 DEF LinesOf
<1>2. QED
  BY <1>1, LinesInvCorrect, PTL

\* Each thread gets the lines of its own connection that have a byte, each once and in
\* order, and all of them before strtok returns NULL, for any number of threads and
\* connections, and texts of any length.
THEOREM OwnLinesCorrect == Spec => []OwnLines
<1>1. LinesInv => OwnLines
  <2> SUFFICES ASSUME LinesInv, NEW c \in Conns, thread[c] # None
               PROVE  LET due == Due(TextOf(c))
                          got == {given[c][k] : k \in 1 .. Len(given[c])}
                      IN  /\ got \subseteq due
                          /\ \A j, k \in 1 .. Len(given[c]) : j < k => given[c][j][2] < given[c][k][1]
                          /\ \A e \in due : line[c] = "NULL" \/ (\E g \in got : e[1] < g[1]) => e \in got
    BY DEF OwnLines
  <2>1. TextOf(c) \in Text /\ Len(TextOf(c)) \in Nat /\ Due(TextOf(c)) = Stretches(TextOf(c))
    BY StringIs, DueIs DEF LinesInv
  <2>2. CASE given[c] = << >> /\ line[c] # "NULL"
    <3>1. Len(given[c]) = 0 /\ Got(c) = {}
      BY <2>2 DEF Got
    <3> QED BY <2>2, <3>1 DEF Got
  <2>3. ASSUME NEW at \in Nat, GivenUpTo(c, at), line[c] = "NULL" => at = Len(TextOf(c)) + 1
        PROVE  /\ Got(c) \subseteq Stretches(TextOf(c))
               /\ \A j, k \in 1 .. Len(given[c]) : j < k => given[c][j][2] < given[c][k][1]
               /\ \A e \in Stretches(TextOf(c)) :
                    line[c] = "NULL" \/ (\E g \in Got(c) : e[1] < g[1]) => e \in Got(c)
    <3>1. ASSUME NEW e \in Stretches(TextOf(c)), line[c] = "NULL"
          PROVE  e \in Got(c)
      <4>1. e[1] < at
        BY <2>1, <2>3, <3>1 DEF Stretches
      <4> QED BY <2>3, <4>1 DEF GivenUpTo
    <3>2. ASSUME NEW e \in Stretches(TextOf(c)), NEW g \in Got(c), e[1] < g[1]
          PROVE  e \in Got(c)
      <4>1. g \in Stretches(TextOf(c)) /\ g[2] < at
        BY <2>3 DEF GivenUpTo, Got
      <4>2. e[1] \in Nat /\ g[1] \in Nat /\ g[2] \in Nat /\ g[1] <= g[2]
        BY <2>1, <4>1 DEF Stretches
      <4>3. e[1] < at
        BY <3>2, <4>1, <4>2
      <4> QED BY <2>3, <4>3 DEF GivenUpTo
    <3> QED BY <2>3, <3>1, <3>2 DEF GivenUpTo
  <2>4. \/ given[c] = << >> /\ line[c] # "NULL"
        \/ \E at \in Nat : GivenUpTo(c, at) /\ (line[c] = "NULL" => at = Len(TextOf(c)) + 1)
    <3>1. CopyInv(c) /\ line[c] \in {"none", "copied", "some", "NULL"}
      BY DEF LinesInv, Inv, TypeInv
    <3>2. line[c] = "some" => Place(c) \in Nat
      BY <2>1, <3>1 DEF CopyInv, Left
    <3> QED BY <2>1, <3>1, <3>2 DEF CopyInv
  <2>5. QED
    BY <2>1, <2>2, <2>3, <2>4, Zenon DEF Got
<1>2. QED
  BY <1>1, LinesInvCorrect, PTL

=============================================================================
