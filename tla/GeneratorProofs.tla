--------------------------- MODULE GeneratorProofs --------------------------
(***************************************************************************)
(* Proofs about Generator for every pool, every bound on the tail, every   *)
(* step of the clock and any number of events; and about Workload, where   *)
(* the sessionizer reads what was generated.                               *)
(***************************************************************************)
EXTENDS Workload, Lemmas

-----------------------------------------------------------------------------
(* The inductive invariant *)

\* Every user in use or written has been numbered.
Numbered ==
    /\ \A i \in 1..Concurrency : pool[i] < next_user
    /\ \A i \in 1..Len(retired) : retired[i] < next_user
    /\ \A i \in 1..Len(out) : out[i].user < next_user

\* An event gives its slot to a new user, or to one of the tail, or to nobody.
Budget == next_user + revisits <= Concurrency + Len(out)

StatsOfState ==
    Returned => stats = [events |-> Len(out), distinct_users |-> next_user,
                         revisits |-> revisits, span_ms |-> ts]

IInv ==
    /\ TypeOK
    /\ UsersApart
    /\ TailBounded
    /\ EventsOrdered
    /\ Numbered
    /\ Budget
    /\ StatsOfState

\* The part of the invariant that says where users are.
Placed == UsersApart /\ TailBounded /\ Numbered

LEMMA InitEstablishes == Init => IInv
<1> SUFFICES ASSUME Init
             PROVE  IInv
  OBVIOUS
<1>1. TypeOK
  BY GeneratorAssumption DEF Init, TypeOK, TailBounded
<1>2. UsersApart
  BY DEF Init, UsersApart, Active, Resting
<1>3. TailBounded /\ EventsOrdered /\ Numbered /\ Budget
  BY GeneratorAssumption DEF Init, TailBounded, EventsOrdered, Numbered, Budget
<1>4. StatsOfState
  BY DEF Init, StatsOfState, Returned
<1>5. QED
  BY <1>1, <1>2, <1>3, <1>4 DEF IInv

-----------------------------------------------------------------------------
(* The tail and the slots *)

\* The tail after a retirement holds the retired user last, none twice, and
\* nobody else that was not there before.
LEMMA AppendedTail ==
    ASSUME TypeOK, UsersApart, TailBounded, NEW idx \in 1..Concurrency
    PROVE  LET tail == Appended(pool[idx])
           IN  /\ tail \in Seq(Nat)
               /\ Len(tail) \in 1..RetiredBound
               /\ tail[Len(tail)] = pool[idx]
               /\ \A i \in 1..(Len(tail) - 1) :
                     \E j \in 1..Len(retired) : tail[i] = retired[j]
               /\ \A i, j \in 1..Len(tail) : tail[i] = tail[j] => i = j
<1> DEFINE user == pool[idx]
           kept == IF Len(retired) >= RetiredBound THEN Tail(retired) ELSE retired
<1>1. retired \in Seq(Nat) /\ Len(retired) \in Nat /\ user \in Nat
      /\ Len(retired) <= RetiredBound /\ RetiredBound \in Nat \ {0}
  BY GeneratorAssumption DEF TypeOK, TailBounded
<1>2. \A j \in 1..Len(retired) : retired[j] # user
  BY DEF UsersApart, Active, Resting
<1>3. PICK d \in {0, 1} :
          /\ kept \in Seq(Nat)
          /\ Len(kept) = Len(retired) - d
          /\ Len(kept) \in Nat
          /\ Len(kept) < RetiredBound
          /\ \A j \in 1..Len(kept) : kept[j] = retired[j + d] /\ j + d \in 1..Len(retired)
  <2>1. CASE Len(retired) >= RetiredBound
    <3>1. retired # <<>>
      BY <1>1, <2>1
    <3>2. /\ kept \in Seq(Nat)
          /\ Len(kept) = Len(retired) - 1
          /\ \A j \in 1..(Len(retired) - 1) : kept[j] = retired[j + 1]
      BY <1>1, <2>1, <3>1, TailShifts
    <3> HIDE DEF kept
    <3>3. /\ Len(kept) \in Nat
          /\ Len(kept) < RetiredBound
          /\ \A j \in 1..Len(kept) : kept[j] = retired[j + 1] /\ j + 1 \in 1..Len(retired)
      BY <1>1, <2>1, <3>2
    <3>4. WITNESS 1 \in {0, 1}
    <3>5. QED
      BY <3>2, <3>3
  <2>2. CASE ~(Len(retired) >= RetiredBound)
    <3>1. kept = retired
      BY <2>2
    <3> HIDE DEF kept
    <3>2. /\ kept \in Seq(Nat)
          /\ Len(kept) = Len(retired) - 0
          /\ Len(kept) \in Nat
          /\ Len(kept) < RetiredBound
          /\ \A j \in 1..Len(kept) : kept[j] = retired[j + 0] /\ j + 0 \in 1..Len(retired)
      BY <1>1, <2>2, <3>1
    <3>3. WITNESS 0 \in {0, 1}
    <3>4. QED
      BY <3>2
  <2>3. QED
    BY <2>1, <2>2
<1>4. Appended(user) = Append(kept, user)
  BY DEF Appended
<1> HIDE DEF kept, user
<1>5. /\ Append(kept, user) \in Seq(Nat)
      /\ Len(Append(kept, user)) = Len(kept) + 1
      /\ \A j \in 1..Len(kept) : Append(kept, user)[j] = kept[j]
      /\ Append(kept, user)[Len(kept) + 1] = user
  BY <1>1, <1>3, AppendAdds
<1> DEFINE tail == Appended(user)
<1>6. /\ tail \in Seq(Nat)
      /\ Len(tail) = Len(kept) + 1
      /\ \A j \in 1..Len(kept) : tail[j] = retired[j + d] /\ j + d \in 1..Len(retired)
      /\ tail[Len(kept) + 1] = user
  BY <1>3, <1>4, <1>5
<1> HIDE DEF tail
<1>7. \A i, j \in 1..Len(tail) : tail[i] = tail[j] => i = j
  <2> SUFFICES ASSUME NEW i \in 1..Len(tail), NEW j \in 1..Len(tail), tail[i] = tail[j]
               PROVE  i = j
    OBVIOUS
  <2>1. CASE i \in 1..Len(kept) /\ j \in 1..Len(kept)
    <3>1. i + d = j + d
      BY <1>6, <2>1 DEF UsersApart
    <3>2. QED
      BY <1>3, <2>1, <3>1
  <2>2. CASE i \in 1..Len(kept) /\ j = Len(kept) + 1
    BY <1>2, <1>6, <2>2
  <2>3. CASE i = Len(kept) + 1 /\ j \in 1..Len(kept)
    BY <1>2, <1>6, <2>3
  <2>4. /\ i \in 1..Len(kept) \/ i = Len(kept) + 1
        /\ j \in 1..Len(kept) \/ j = Len(kept) + 1
    <3>1. Len(tail) = Len(kept) + 1 /\ Len(kept) \in Nat
      BY <1>3, <1>6
    <3>2. QED
      BY <3>1
  <2>5. QED
    BY <2>1, <2>2, <2>3, <2>4
<1>8. Len(tail) \in 1..RetiredBound /\ Len(tail) - 1 = Len(kept)
  BY <1>1, <1>3, <1>6
<1>9. QED
  BY <1>6, <1>7, <1>8 DEF tail, user

LEMMA PlacedApart ==
    ASSUME Placed
    PROVE  /\ \A i \in 1..Concurrency, j \in 1..Len(retired) : pool[i] # retired[j]
           /\ \A i, j \in 1..Concurrency : pool[i] = pool[j] => i = j
           /\ \A i \in 1..Concurrency : pool[i] < next_user
           /\ \A i \in 1..Len(retired) : retired[i] < next_user
<1>1. /\ \A i, j \in 1..Concurrency : pool[i] = pool[j] => i = j
      /\ Active \cap Resting = {}
      /\ Numbered
  BY Zenon DEF Placed, UsersApart
<1>2. ASSUME NEW i \in 1..Concurrency, NEW j \in 1..Len(retired)
      PROVE  pool[i] # retired[j]
  <2>1. pool[i] \in Active /\ retired[j] \in Resting
    BY Zenon DEF Active, Resting
  <2>2. QED  BY <1>1, <2>1
<1>3. QED  BY <1>1, <1>2 DEF Numbered

\* After a retirement the slot is handed to a user in use nowhere else.
LEMMA RevisitPlaces ==
    ASSUME TypeOK, Placed, NEW idx \in 1..Concurrency, Revisit(idx)
    PROVE  /\ pool' \in [1..Concurrency -> Nat]
           /\ retired' \in Seq(Nat)
           /\ UsersApart' /\ TailBounded'
           /\ \A i \in 1..Concurrency : pool'[i] < next_user
           /\ \A i \in 1..Len(retired') : retired'[i] < next_user
           /\ (Active \cup Resting)' \subseteq Active \cup Resting
<1> DEFINE tail == Appended(pool[idx])
<1>0. UsersApart /\ TailBounded
  BY DEF Placed
<1>0a. /\ \A i \in 1..Concurrency, j \in 1..Len(retired) : pool[i] # retired[j]
       /\ \A i, j \in 1..Concurrency : pool[i] = pool[j] => i = j
       /\ \A i \in 1..Concurrency : pool[i] < next_user
       /\ \A i \in 1..Len(retired) : retired[i] < next_user
  BY PlacedApart
<1>1. /\ tail \in Seq(Nat)
      /\ Len(tail) \in 1..RetiredBound
      /\ tail[Len(tail)] = pool[idx]
      /\ \A i \in 1..(Len(tail) - 1) : \E j \in 1..Len(retired) : tail[i] = retired[j]
      /\ \A i, j \in 1..Len(tail) : tail[i] = tail[j] => i = j
  BY <1>0, AppendedTail
<1>2. PICK p \in 1..Len(tail) : /\ pool' = [pool EXCEPT ![idx] = tail[p]]
                                /\ retired' = RemoveAt(tail, p)
  BY DEF Revisit
<1> HIDE DEF tail
<1>3. /\ retired' \in Seq(Nat)
      /\ Len(retired') = Len(tail) - 1
      /\ \A j \in 1..(Len(tail) - 1) : retired'[j] = IF j < p THEN tail[j] ELSE tail[j + 1]
  BY <1>1, <1>2, RemoveAtProperties
<1>4. /\ pool \in [1..Concurrency -> Nat]
      /\ RetiredBound \in Nat \ {0}
      /\ Len(tail) \in Nat \ {0}
      /\ Len(retired') \in Nat
  BY <1>1, <1>3, GeneratorAssumption DEF TypeOK
<1>5. /\ pool' \in [1..Concurrency -> Nat]
      /\ pool'[idx] = tail[p]
      /\ \A i \in 1..Concurrency : i # idx => pool'[i] = pool[i]
  BY <1>1, <1>2, <1>4
\* Where the members of the new tail stand in the old one.
<1>6. \A j \in 1..Len(retired') : \E k \in 1..Len(tail) :
         k # p /\ retired'[j] = tail[k] /\ k = IF j < p THEN j ELSE j + 1
  <2> SUFFICES ASSUME NEW j \in 1..Len(retired')
               PROVE  \E k \in 1..Len(tail) :
                        k # p /\ retired'[j] = tail[k] /\ k = IF j < p THEN j ELSE j + 1
    OBVIOUS
  <2>1. CASE j < p
    BY <1>3, <1>4, <2>1
  <2>2. CASE ~(j < p)
    <3>1. j + 1 \in 1..Len(tail) /\ j + 1 # p
      BY <1>3, <1>4, <2>2
    <3>2. QED
      BY <1>3, <1>4, <2>2, <3>1
  <2>3. QED
    BY <2>1, <2>2
\* A member of the old tail is the retired user or was resting.
<1>7. \A k \in 1..Len(tail) : tail[k] = pool[idx] \/ \E j \in 1..Len(retired) : tail[k] = retired[j]
  <2> SUFFICES ASSUME NEW k \in 1..Len(tail)
               PROVE  tail[k] = pool[idx] \/ \E j \in 1..Len(retired) : tail[k] = retired[j]
    OBVIOUS
  <2>1. k = Len(tail) \/ k \in 1..(Len(tail) - 1)
    BY <1>4
  <2>2. QED
    BY <1>1, <2>1
<1>8. \A k \in 1..Len(tail), i \in 1..Concurrency : tail[k] = pool[i] => i = idx
  <2> SUFFICES ASSUME NEW k \in 1..Len(tail), NEW i \in 1..Concurrency, tail[k] = pool[i]
               PROVE  i = idx
    OBVIOUS
  <2>1. ~ \E j \in 1..Len(retired) : tail[k] = retired[j]
    BY <1>0a
  <2>2. QED
    BY <1>0a, <1>7, <2>1
<1>9. \A i, j \in 1..Concurrency : pool'[i] = pool'[j] => i = j
  BY <1>0a, <1>5, <1>8
<1>10. \A i, j \in 1..Len(retired') : retired'[i] = retired'[j] => i = j
  <2> SUFFICES ASSUME NEW i \in 1..Len(retired'), NEW j \in 1..Len(retired'),
                      retired'[i] = retired'[j]
               PROVE  i = j
    OBVIOUS
  <2>1. PICK k \in 1..Len(tail) : retired'[i] = tail[k] /\ k = IF i < p THEN i ELSE i + 1
    BY <1>6
  <2>2. PICK l \in 1..Len(tail) : retired'[j] = tail[l] /\ l = IF j < p THEN j ELSE j + 1
    BY <1>6
  <2>3. k = l
    BY <1>1, <2>1, <2>2
  <2>4. QED
    BY <1>4, <2>1, <2>2, <2>3
<1>11. \A i \in 1..Concurrency, j \in 1..Len(retired') : pool'[i] # retired'[j]
  <2> SUFFICES ASSUME NEW i \in 1..Concurrency, NEW j \in 1..Len(retired'),
                      pool'[i] = retired'[j]
               PROVE  FALSE
    OBVIOUS
  <2>1. PICK k \in 1..Len(tail) : k # p /\ retired'[j] = tail[k]
    BY <1>6
  <2>2. CASE i = idx
    BY <1>1, <1>5, <2>1, <2>2
  <2>3. CASE i # idx
    BY <1>5, <1>8, <2>1, <2>3
  <2>4. QED
    BY <2>2, <2>3
<1>12. UsersApart'
  BY <1>9, <1>10, <1>11 DEF UsersApart, Active, Resting
<1>13. TailBounded'
  BY <1>1, <1>3, <1>4 DEF TailBounded
<1>14. (Active \cup Resting)' \subseteq Active \cup Resting
  <2>1. \A k \in 1..Len(tail) : tail[k] \in Active \cup Resting
    BY <1>7 DEF Active, Resting
  <2>2. \A i \in 1..Concurrency : pool'[i] \in Active \cup Resting
    BY <1>5, <2>1 DEF Active
  <2>3. \A j \in 1..Len(retired') : retired'[j] \in Active \cup Resting
    BY <1>6, <2>1
  <2>4. QED
    BY <2>2, <2>3 DEF Active, Resting
<1>15. /\ \A i \in 1..Concurrency : pool'[i] < next_user
       /\ \A i \in 1..Len(retired') : retired'[i] < next_user
  <2>1. \A k \in 1..Len(tail) : tail[k] < next_user
    BY <1>0a, <1>7
  <2>2. QED
    BY <1>0a, <1>5, <1>6, <2>1
<1>16. QED
  BY <1>3, <1>5, <1>12, <1>13, <1>14, <1>15

LEMMA ReplacePlaces ==
    ASSUME TypeOK, Placed, NEW idx \in 1..Concurrency, Replace(idx)
    PROVE  /\ pool' \in [1..Concurrency -> Nat]
           /\ retired' \in Seq(Nat)
           /\ UsersApart' /\ TailBounded'
           /\ \A i \in 1..Concurrency : pool'[i] < next_user + 1
           /\ \A i \in 1..Len(retired') : retired'[i] < next_user + 1
           /\ (Active \cup Resting)' \subseteq Active \cup Resting \cup {next_user}
<1> DEFINE tail == Appended(pool[idx])
<1>0. UsersApart /\ TailBounded
  BY DEF Placed
<1>0a. /\ \A i \in 1..Concurrency, j \in 1..Len(retired) : pool[i] # retired[j]
       /\ \A i, j \in 1..Concurrency : pool[i] = pool[j] => i = j
       /\ \A i \in 1..Concurrency : pool[i] < next_user
       /\ \A i \in 1..Len(retired) : retired[i] < next_user
  BY PlacedApart
<1>1. /\ tail \in Seq(Nat)
      /\ Len(tail) \in 1..RetiredBound
      /\ tail[Len(tail)] = pool[idx]
      /\ \A i \in 1..(Len(tail) - 1) : \E j \in 1..Len(retired) : tail[i] = retired[j]
      /\ \A i, j \in 1..Len(tail) : tail[i] = tail[j] => i = j
  BY <1>0, AppendedTail
<1>2. retired' = tail /\ pool' = [pool EXCEPT ![idx] = next_user]
  BY DEF Replace
<1> HIDE DEF tail
<1>3. /\ pool \in [1..Concurrency -> Nat] /\ next_user \in Nat
      /\ RetiredBound \in Nat \ {0} /\ Len(tail) \in Nat \ {0}
  BY <1>1, GeneratorAssumption DEF TypeOK
<1>4. /\ pool' \in [1..Concurrency -> Nat]
      /\ pool'[idx] = next_user
      /\ \A i \in 1..Concurrency : i # idx => pool'[i] = pool[i]
  BY <1>2, <1>3
<1>5. \A k \in 1..Len(tail) : tail[k] = pool[idx] \/ \E j \in 1..Len(retired) : tail[k] = retired[j]
  <2> SUFFICES ASSUME NEW k \in 1..Len(tail)
               PROVE  tail[k] = pool[idx] \/ \E j \in 1..Len(retired) : tail[k] = retired[j]
    OBVIOUS
  <2>1. k = Len(tail) \/ k \in 1..(Len(tail) - 1)
    BY <1>3
  <2>2. QED
    BY <1>1, <2>1
<1>6. /\ \A i \in 1..Concurrency : pool[i] < next_user
      /\ \A k \in 1..Len(tail) : tail[k] < next_user
      /\ \A k \in 1..Len(tail) : tail[k] \in Nat
      /\ \A i \in 1..Concurrency : pool[i] \in Nat
  <2>1. \A k \in 1..Len(tail) : tail[k] < next_user
    BY <1>0a, <1>5
  <2>2. \A k \in 1..Len(tail) : tail[k] \in Nat
    BY <1>1
  <2>3. QED
    BY <1>0a, <1>3, <2>1, <2>2
<1>7. \A k \in 1..Len(tail), i \in 1..Concurrency : tail[k] = pool[i] => i = idx
  <2> SUFFICES ASSUME NEW k \in 1..Len(tail), NEW i \in 1..Concurrency, tail[k] = pool[i]
               PROVE  i = idx
    OBVIOUS
  <2>1. ~ \E j \in 1..Len(retired) : tail[k] = retired[j]
    BY <1>0a
  <2>2. QED
    BY <1>0a, <1>5, <2>1
<1>8. \A i, j \in 1..Concurrency : pool'[i] = pool'[j] => i = j
  BY <1>0a, <1>3, <1>4, <1>6
<1>9. \A i \in 1..Concurrency, j \in 1..Len(tail) : pool'[i] # tail[j]
  BY <1>3, <1>4, <1>6, <1>7
<1>10. UsersApart'
  BY <1>1, <1>2, <1>8, <1>9 DEF UsersApart, Active, Resting
<1>11. TailBounded'
  BY <1>1, <1>2, <1>3 DEF TailBounded
<1>12. (Active \cup Resting)' \subseteq Active \cup Resting \cup {next_user}
  BY <1>2, <1>4, <1>5 DEF Active, Resting
<1>13. /\ \A i \in 1..Concurrency : pool'[i] < next_user + 1
       /\ \A i \in 1..Len(retired') : retired'[i] < next_user + 1
  BY <1>2, <1>3, <1>4, <1>6
<1>14. QED
  BY <1>1, <1>2, <1>4, <1>10, <1>11, <1>12, <1>13

-----------------------------------------------------------------------------
(* One iteration of the loop *)

\* What an iteration does to the users, whichever of its branches it takes.
LEMMA SlotKept ==
    ASSUME IInv, NEW idx \in 1..Concurrency, Keep \/ Revisit(idx) \/ Replace(idx)
    PROVE  /\ pool' \in [1..Concurrency -> Nat]
           /\ retired' \in Seq(Nat)
           /\ revisits' \in Nat /\ next_user' \in Nat
           /\ UsersApart' /\ TailBounded'
           /\ \A i \in 1..Concurrency : pool'[i] < next_user'
           /\ \A i \in 1..Len(retired') : retired'[i] < next_user'
           /\ (Active \cup Resting)' \subseteq Active \cup Resting \cup {next_user}
           /\ next_user <= next_user'
           /\ next_user' + revisits' <= next_user + revisits + 1
<1>1. TypeOK /\ Placed /\ revisits \in Nat /\ next_user \in Nat
  BY DEF IInv, Placed, TypeOK
<1>2. CASE Keep
  <2>1. UNCHANGED <<pool, retired, next_user, revisits>>
    BY <1>2 DEF Keep
  <2>2. UsersApart' /\ TailBounded' /\ (Active \cup Resting)' = Active \cup Resting
    <3>1. Active' = Active /\ Resting' = Resting
      BY <2>1 DEF Active, Resting
    <3>2. UsersApart /\ TailBounded
      BY <1>1 DEF Placed
    <3>3. UsersApart'
      BY <2>1, <3>1, <3>2 DEF UsersApart
    <3>4. QED
      BY <2>1, <3>1, <3>2, <3>3 DEF TailBounded
  <2>3. QED
    BY <1>1, <2>1, <2>2 DEF TypeOK, Placed, Numbered
<1>3. CASE Revisit(idx)
  <2>1. revisits' = revisits + 1 /\ next_user' = next_user
    BY <1>3 DEF Revisit
  <2>2. QED
    BY <1>1, <1>3, <2>1, RevisitPlaces
<1>4. CASE Replace(idx)
  <2>1. revisits' = revisits /\ next_user' = next_user + 1
    BY <1>4 DEF Replace
  <2>2. QED
    BY <1>1, <1>4, <2>1, ReplacePlaces
<1>5. QED
  BY <1>2, <1>3, <1>4

LEMMA EmitPreserves ==
    ASSUME IInv, NEW tick \in Ticks, NEW idx \in 1..Concurrency, Emit(tick, idx)
    PROVE  IInv'
<1>1. /\ ts' = ts + tick
      /\ out' = Append(out, [ts |-> ts', user |-> pool[idx]])
      /\ ~Returned
      /\ UNCHANGED stats
  BY DEF Emit
<1>2. /\ ts \in Nat /\ tick \in Nat /\ ts' \in Nat /\ ts <= ts'
      /\ pool[idx] \in Nat /\ pool[idx] < next_user
      /\ out \in Seq(Event) /\ Len(out) \in Nat
      /\ next_user \in Nat /\ revisits \in Nat /\ Concurrency \in Nat
  BY <1>1, GeneratorAssumption DEF IInv, TypeOK, Numbered
<1>3. /\ pool' \in [1..Concurrency -> Nat]
      /\ retired' \in Seq(Nat)
      /\ revisits' \in Nat /\ next_user' \in Nat
      /\ UsersApart' /\ TailBounded'
      /\ \A i \in 1..Concurrency : pool'[i] < next_user'
      /\ \A i \in 1..Len(retired') : retired'[i] < next_user'
      /\ next_user <= next_user'
      /\ next_user' + revisits' <= next_user + revisits + 1
  BY SlotKept DEF Emit
<1> DEFINE event == [ts |-> ts', user |-> pool[idx]]
<1>4. event \in Event /\ event.ts = ts' /\ event.user = pool[idx]
  BY <1>2 DEF Event
<1> HIDE DEF event
<1>5. /\ out' \in Seq(Event)
      /\ Len(out') = Len(out) + 1
      /\ \A j \in 1..Len(out) : out'[j] = out[j]
      /\ out'[Len(out) + 1] = event
  BY <1>1, <1>2, <1>4, AppendAdds DEF event
<1>6. TypeOK'
  BY <1>1, <1>2, <1>3, <1>5 DEF TypeOK, IInv
<1>7. \A i \in 1..Len(out') : i \in 1..Len(out) \/ i = Len(out) + 1
  BY <1>2, <1>5
<1>8. \A i \in 1..Len(out) : out[i].ts \in Nat /\ out[i].ts <= ts /\ out[i].user \in Nat
                             /\ out[i].user < next_user
  <2>1. \A i \in 1..Len(out) : out[i] \in Event
    BY <1>2, ElementOfSeq
  <2>2. QED
    BY <2>1 DEF Event, IInv, EventsOrdered, Numbered
<1>9. \A i \in 1..Len(out') : out'[i].ts <= ts' /\ out'[i].user < next_user'
  <2> SUFFICES ASSUME NEW i \in 1..Len(out')
               PROVE  out'[i].ts <= ts' /\ out'[i].user < next_user'
    OBVIOUS
  <2>1. CASE i \in 1..Len(out)
    <3>1. out'[i].ts \in Nat /\ out'[i].ts <= ts
          /\ out'[i].user \in Nat /\ out'[i].user < next_user
      BY <1>5, <1>8, <2>1
    <3>2. next_user <= next_user' /\ next_user' \in Nat
      BY <1>3
    <3>3. QED
      BY <1>2, <3>1, <3>2
  <2>2. CASE i = Len(out) + 1
    <3>1. out'[i].ts = ts' /\ out'[i].user = pool[idx]
      BY <1>4, <1>5, <2>2
    <3>2. next_user <= next_user' /\ next_user' \in Nat
      BY <1>3
    <3>3. QED
      BY <1>2, <3>1, <3>2
  <2>3. QED
    BY <1>7, <2>1, <2>2
<1>10. \A i, j \in 1..Len(out') : i < j => out'[i].ts <= out'[j].ts
  <2> SUFFICES ASSUME NEW i \in 1..Len(out'), NEW j \in 1..Len(out'), i < j
               PROVE  out'[i].ts <= out'[j].ts
    OBVIOUS
  <2>1. i \in 1..Len(out)
    BY <1>2, <1>5, <1>7
  <2>2. CASE j \in 1..Len(out)
    BY <1>5, <2>1, <2>2 DEF IInv, EventsOrdered
  <2>3. CASE j = Len(out) + 1
    BY <1>4, <1>5, <1>9, <2>3
  <2>4. QED
    BY <1>7, <2>2, <2>3
<1>11. EventsOrdered' /\ Numbered'
  BY <1>3, <1>9, <1>10 DEF EventsOrdered, Numbered
<1>12. Budget'
  <2>1. next_user + revisits <= Concurrency + Len(out)
    BY DEF IInv, Budget
  <2>2. /\ next_user' + revisits' <= next_user + revisits + 1
        /\ revisits' \in Nat /\ next_user' \in Nat
    BY <1>3
  <2>3. Len(out') = Len(out) + 1
    BY <1>5
  <2>4. next_user' + revisits' <= Concurrency + Len(out')
    <3>1. \A a, b, c, d \in Int : a <= b + 1 /\ b <= c + d => a <= c + (d + 1)
      OBVIOUS
    <3>2. /\ next_user' + revisits' \in Int /\ next_user + revisits \in Int
          /\ Concurrency \in Int /\ Len(out) \in Int
      BY <1>2, <2>2
    <3>3. QED
      BY <2>1, <2>2, <2>3, <3>1, <3>2
  <2>5. QED
    BY <2>4 DEF Budget
<1>13. StatsOfState'
  BY <1>1 DEF StatsOfState, Returned
<1>14. QED
  BY <1>3, <1>6, <1>11, <1>12, <1>13 DEF IInv

LEMMA ReturnPreserves == IInv /\ Return => IInv'
<1> SUFFICES ASSUME IInv, Return
             PROVE  IInv'
  OBVIOUS
<1>1. /\ UNCHANGED <<ts, next_user, pool, retired, revisits, out>>
      /\ stats' = [events |-> Len(out), distinct_users |-> next_user,
                   revisits |-> revisits, span_ms |-> ts]
  BY DEF Return
<1>2. TypeOK'
  BY <1>1 DEF IInv, TypeOK, TailBounded
<1>3. /\ UsersApart' /\ TailBounded' /\ EventsOrdered' /\ Numbered' /\ Budget'
  BY <1>1 DEF IInv, UsersApart, Active, Resting, TailBounded, EventsOrdered, Numbered, Budget
<1>4. StatsOfState'
  BY <1>1 DEF StatsOfState
<1>5. QED
  BY <1>2, <1>3, <1>4 DEF IInv

LEMMA StutterPreserves == IInv /\ UNCHANGED vars => IInv'
<1> SUFFICES ASSUME IInv, UNCHANGED vars
             PROVE  IInv'
  OBVIOUS
<1>1. UNCHANGED <<ts, next_user, pool, retired, revisits, out, stats>>
  BY DEF vars
<1>2. TypeOK'
  BY <1>1 DEF IInv, TypeOK, TailBounded
<1>3. UsersApart' /\ TailBounded'
  BY <1>1 DEF IInv, UsersApart, Active, Resting, TailBounded
<1>4. EventsOrdered' /\ Numbered'
  BY <1>1 DEF IInv, EventsOrdered, Numbered
<1>5. Budget' /\ StatsOfState'
  BY <1>1 DEF IInv, Budget, StatsOfState, Returned
<1>6. QED
  BY <1>2, <1>3, <1>4, <1>5 DEF IInv

LEMMA StepPreserves == IInv /\ [Next]_vars => IInv'
BY EmitPreserves, ReturnPreserves, StutterPreserves DEF Next, Terminated

-----------------------------------------------------------------------------
(* The theorems *)

THEOREM Invariance == Spec => []IInv
BY InitEstablishes, StepPreserves, PTL DEF Spec

\* Every variable keeps its type, the tail of retired users its bound.
THEOREM TypeCorrect == Spec => []TypeOK
<1>1. IInv => TypeOK
  BY DEF IInv
<1>2. QED
  BY <1>1, Invariance, PTL

\* A user is in one place only, and the tail within its bound
\* (task/generate.py:76-88).
THEOREM UsersAreApart == Spec => [](UsersApart /\ TailBounded)
<1>1. IInv => UsersApart /\ TailBounded
  BY DEF IInv
<1>2. QED
  BY <1>1, Invariance, PTL

\* The workload is ordered as the sessionizer assumes (task/generate.py:60-62).
THEOREM EventsAreOrdered == Spec => []EventsOrdered
<1>1. IInv => EventsOrdered
  BY DEF IInv
<1>2. QED
  BY <1>1, Invariance, PTL

\* The statistics bound what was written (task/generate.py:90-98).
THEOREM StatsAreBounds == Spec => []StatsAccount
<1>1. ASSUME IInv, Returned
      PROVE  StatsAccount
  <2>1. /\ stats.events = Len(out) /\ stats.distinct_users = next_user
        /\ stats.revisits = revisits
    BY <1>1 DEF IInv, StatsOfState
  <2>2. next_user \in Nat
    BY <1>1 DEF IInv, TypeOK
  <2>3. Written \subseteq 0..(next_user - 1)
    <3> SUFFICES ASSUME NEW i \in 1..Len(out)
                 PROVE  out[i].user \in 0..(next_user - 1)
      BY DEF Written
    <3>1. out[i] \in Event
      BY <1>1, ElementOfSeq DEF IInv, TypeOK
    <3>2. out[i].user < next_user
      BY <1>1 DEF IInv, Numbered
    <3>3. QED
      BY <2>2, <3>1, <3>2 DEF Event
  <2>4. Cardinality(Written) <= next_user
    <3>1. /\ IsFiniteSet(0..(next_user - 1))
          /\ Cardinality(0..(next_user - 1)) = next_user
      BY <2>2, FS_Interval
    <3>2. QED
      BY <2>3, <3>1, FS_Subset
  <2>5. QED
    BY <1>1, <2>1, <2>4 DEF IInv, Budget, StatsAccount
<1>2. IInv => StatsAccount
  BY <1>1 DEF StatsAccount
<1>3. QED
  BY <1>2, Invariance, PTL

\* A user pushed out of the tail never returns (task/generate.py:79-88).
THEOREM ForgottenIsForGood == Spec => ForgottenForGood
<1> DEFINE Forgets == \A u \in 0..(next_user - 1) :
                        u \notin Active \cup Resting => u \notin (Active \cup Resting)'
<1>1. ASSUME IInv, [Next]_vars
      PROVE  [Forgets]_vars
  <2>1. CASE \E tick \in Ticks, idx \in 1..Concurrency : Emit(tick, idx)
    <3>1. (Active \cup Resting)' \subseteq Active \cup Resting \cup {next_user}
      BY <1>1, <2>1, SlotKept DEF Emit
    <3>2. next_user \in Nat
      BY <1>1 DEF IInv, TypeOK
    <3>3. QED
      BY <3>1, <3>2
  <2>2. CASE Return
    BY <2>2 DEF Return, Active, Resting
  <2>3. CASE UNCHANGED vars
    BY <2>3
  <2>4. QED
    BY <1>1, <2>1, <2>2, <2>3 DEF Next, Terminated
<1>2. QED
  BY <1>1, Invariance, PTL DEF Spec, ForgottenForGood

-----------------------------------------------------------------------------
(* The workload and its reader *)

Proved == INSTANCE SessionizerProofs WITH
    Users <- 0..(Concurrency + MaxEvents), Paths <- {"/"}, Sizes <- {1}, Gaps <- Ticks,
    out <- records

At(m) == IF m = 0 THEN 0 ELSE out[m].ts

\* Between two events there is one tick.
Ticking ==
    /\ Len(out) <= MaxEvents
    /\ ts = At(Len(out))
    /\ \A m \in 1..Len(out) : At(m) - At(m - 1) \in Ticks

\* The users of the first n events from time t on, and the slots given away.
Since(t, n) == {m \in 1..n : out[m].ts >= t}
Met(t, n) == {out[m].user : m \in Since(t, n)}
Given(t, n) == {m \in Since(t, n) : handed[m]}

\* However far one looks back, there are no more users than slots, and slots
\* given away since then.
Slots ==
    /\ handed \in Seq(BOOLEAN)
    /\ Len(handed) = Len(out)
    /\ \A t \in Int : \A n \in 0..Len(out) :
          Cardinality(Met(t, n)) <= Concurrency + Cardinality(Given(t, n))
    /\ \A t \in Int :
          Cardinality(Met(t, Len(out)) \cup Active)
              <= Concurrency + Cardinality(Given(t, Len(out)))

\* The sessionizer has read the beginning of what was written.
Copied ==
    /\ Len(input) \in 0..Len(out)
    /\ watermark = At(Len(input))
    /\ \A m \in 1..Len(input) : input[m].ts = out[m].ts /\ input[m].user = out[m].user
    /\ ~Returned => input = <<>>

\* The inductive invariant of generator and reader together: the sessionizer's
\* own is a part of it.
WorkloadInv ==
    /\ IInv
    /\ Ticking
    /\ Slots
    /\ Copied
    /\ Proved!IInv
    /\ done => open_s = <<>>

\* The constants meet what the sessionizer assumes of its own.
LEMMA ReaderConstants ==
    /\ 0..(Concurrency + MaxEvents) \subseteq Nat
    /\ {1} \subseteq Nat
    /\ Ticks \subseteq Nat
    /\ IdleMs \in Nat
    /\ MaxEvents \in Nat
BY GeneratorAssumption, WorkloadAssumption

\* The sessionizer of Workload and the one its proofs are about are the same.
LEMMA SameFlush ==
    ASSUME NEW w, NEW n, Reader!Flush(w, n)
    PROVE  Proved!Flush(w, n)
<1>1. \A s : Reader!Cardinality(s) = Proved!Cardinality(s)
  BY DEF Reader!Cardinality, Proved!Cardinality
<1>2. \A s : Reader!Emit(s) = Proved!Emit(s)
  BY <1>1 DEF Reader!Emit, Proved!Emit
<1>3. \A S, T : Reader!Bijection(S, T) = Proved!Bijection(S, T)
  BY DEF Reader!Bijection, Reader!Injection, Reader!Surjection, Reader!IsInjective,
         Proved!Bijection, Proved!Injection, Proved!Surjection, Proved!IsInjective
<1>4. \A q, r : Reader!Before(q, r) <=> Proved!Before(q, r)
  BY DEF Reader!Before, Proved!Before
<1>5. \A s : Reader!Expired(s, w) <=> Proved!Expired(s, w)
  BY DEF Reader!Expired, Proved!Expired, Reader!Infinity, Proved!Infinity
<1>6. Proved!PopsReady(w, n)
  BY <1>5 DEF Reader!Flush, Reader!PopsReady, Proved!PopsReady
<1>7. PICK p \in Proved!Bijection(1..n, 1..n) : Reader!WritesReady(n, p)
  BY <1>3 DEF Reader!Flush
<1>8. Proved!WritesReady(n, p)
  BY <1>2, <1>4, <1>7 DEF Reader!WritesReady, Proved!WritesReady
<1>9. QED  BY <1>6, <1>8 DEF Proved!Flush

LEMMA ReaderReads ==
    ASSUME NEW gap, NEW u, NEW b, NEW p, Reader!ReadEvent(gap, u, b, p)
    PROVE  Proved!ReadEvent(gap, u, b, p)
<1> DEFINE e == [ts |-> watermark + gap, user |-> u, bytes |-> b, path |-> p]
<1>1. PICK n \in 0..Len(open_s) :
         /\ Reader!Flush(e.ts, n)
         /\ \/ Reader!StartSession(Reader!Remaining(n), e)
            \/ Reader!ExtendSession(Reader!Remaining(n), e)
  BY DEF Reader!ReadEvent
<1>2. Proved!Flush(e.ts, n) /\ Reader!Remaining(n) = Proved!Remaining(n)
  BY <1>1, SameFlush DEF Reader!Remaining, Proved!Remaining
<1>3. \A q, i : Reader!RemoveAt(q, i) = Proved!RemoveAt(q, i)
  BY DEF Reader!RemoveAt, Proved!RemoveAt
<1>4. \A q : Reader!StartSession(q, e) => Proved!StartSession(q, e)
  BY DEF Reader!StartSession, Proved!StartSession, Reader!Found, Proved!Found,
         Reader!NewSession, Proved!NewSession
<1>5. \A q : Reader!ExtendSession(q, e) => Proved!ExtendSession(q, e)
  BY <1>3 DEF Reader!ExtendSession, Proved!ExtendSession, Reader!Found, Proved!Found,
              Reader!Extended, Proved!Extended
<1>6. \/ Proved!StartSession(Proved!Remaining(n), e)
      \/ Proved!ExtendSession(Proved!Remaining(n), e)
  BY <1>1, <1>2, <1>4, <1>5
<1>7. QED  BY <1>2, <1>6 DEF Reader!ReadEvent, Proved!ReadEvent

\* At the end of the file every session is written.
LEMMA ReaderFinishes ==
    ASSUME Reader!Finish, open_s \in Seq(Proved!Session)
    PROVE  Proved!Finish /\ open_s' = <<>>
<1>1. PICK n \in 0..Len(open_s) : Reader!Flush(Reader!Infinity, n) /\ open_s' = Reader!Remaining(n)
  BY DEF Reader!Finish
<1>2. Reader!Infinity = Proved!Infinity /\ Reader!Remaining(n) = Proved!Remaining(n)
  BY DEF Reader!Infinity, Proved!Infinity, Reader!Remaining, Proved!Remaining
<1>3. Proved!Flush(Proved!Infinity, n) /\ open_s' = Proved!Remaining(n)
  BY <1>1, <1>2, SameFlush
<1>4. n = Len(open_s)
  <2>1. ~(n < Len(open_s))
    BY <1>3 DEF Proved!Flush, Proved!PopsReady, Proved!Expired
  <2>2. QED  BY <2>1
<1>5. open_s' = <<>>
  BY <1>3, <1>4 DEF Proved!Remaining
<1>6. QED  BY <1>3, <1>5 DEF Reader!Finish, Proved!Finish

\* There are no more users than slots.
LEMMA ActiveSlots ==
    ASSUME TypeOK
    PROVE  IsFiniteSet(Active) /\ Cardinality(Active) <= Concurrency
<1>1. Concurrency \in Nat
  BY GeneratorAssumption
<1>2. IsFiniteSet(1..Concurrency) /\ Cardinality(1..Concurrency) = Concurrency
  BY <1>1, FS_Interval
<1>3. pool \in Surjection(1..Concurrency, Active)
  BY DEF TypeOK, Surjection, Active
<1>4. QED  BY <1>2, <1>3, FS_Surjection

\* At the start nothing is written and nothing read.
LEMMA WorkloadStarts == WorkloadInit => WorkloadInv
<1> SUFFICES ASSUME WorkloadInit PROVE WorkloadInv
  OBVIOUS
<1>1. /\ IInv /\ out = <<>> /\ ts = 0 /\ handed = <<>> /\ input = <<>> /\ watermark = 0
      /\ open_s = <<>>
  BY InitEstablishes DEF WorkloadInit, Init, Reader!Init
<1>2. Proved!IInv
  <2>1. Proved!Init
    BY DEF WorkloadInit, Reader!Init, Proved!Init
  <2>2. QED  BY <2>1, ReaderConstants, Proved!InitEstablishes
<1>3. Ticking
  BY <1>1, ReaderConstants DEF Ticking, At
<1>4. Copied
  BY <1>1 DEF Copied, At
<1>5. Slots
  <2>1. ASSUME NEW t \in Int
        PROVE  Met(t, 0) = {} /\ Given(t, 0) = {}
    BY DEF Met, Given, Since
  <2>2. IsFiniteSet(Active) /\ Cardinality(Active) <= Concurrency
    BY <1>1, ActiveSlots DEF IInv
  <2>3. Cardinality({}) = 0 /\ Len(out) = 0 /\ Concurrency \in Nat
    BY <1>1, FS_EmptySet, GeneratorAssumption
  <2>4. \A t \in Int : Met(t, 0) \cup Active = Active
    BY <2>1
  <2>5. handed \in Seq(BOOLEAN) /\ Len(handed) = 0
    BY <1>1
  <2>6. ASSUME NEW t \in Int
        PROVE  /\ Cardinality(Met(t, 0)) <= Concurrency + Cardinality(Given(t, 0))
               /\ Cardinality(Met(t, 0) \cup Active) <= Concurrency + Cardinality(Given(t, 0))
    <3>1. Cardinality(Met(t, 0)) = 0 /\ Cardinality(Given(t, 0)) = 0
      BY <2>1, <2>3
    <3>2. Cardinality(Met(t, 0) \cup Active) = Cardinality(Active)
      BY <2>4
    <3>3. Cardinality(Active) \in Nat
      BY <2>2, FS_CardinalityType
    <3>4. QED  BY <2>2, <2>3, <3>1, <3>2, <3>3
  <2>7. \A n \in 0..Len(out) : n = 0
    BY <2>3
  <2>8. QED  BY <2>3, <2>5, <2>6, <2>7 DEF Slots
<1>6. QED  BY <1>1, <1>2, <1>3, <1>4, <1>5 DEF WorkloadInv

\* An event is a tick later than the one before it.
LEMMA EmitTicks ==
    ASSUME IInv, Ticking, NEW tick \in Ticks, NEW idx \in 1..Concurrency, Emit(tick, idx)
    PROVE  Ticking'
<1>1. PICK n \in Nat :
         /\ n = Len(out) /\ n < MaxEvents /\ Len(out') = n + 1
         /\ \A m \in 1..n : out'[m] = out[m]
         /\ out'[n + 1].ts = ts' /\ ts' = ts + tick
  <2>1. out \in Seq(Event) /\ Len(out) \in Nat
    BY DEF IInv, TypeOK
  <2>2. QED  BY <2>1 DEF Emit
<1>2. ts \in Nat /\ tick \in Nat /\ MaxEvents \in Nat
  BY ReaderConstants DEF IInv, TypeOK
<1>3. \A m \in 0..n : At(m)' = At(m)
  BY <1>1 DEF At
<1>4. At(n + 1)' = ts' /\ At(n + 1)' - At(n)' = tick
  <2>1. At(n + 1)' = ts'
    BY <1>1 DEF At
  <2>2. At(n)' = ts
    BY <1>1, <1>3 DEF Ticking
  <2>3. QED  BY <1>1, <1>2, <2>1, <2>2
<1>5. ASSUME NEW m \in 1..Len(out')
      PROVE  (At(m) - At(m - 1) \in Ticks)'
  <2>1. CASE m \in 1..n
    <3>1. m \in 0..n /\ m - 1 \in 0..n
      BY <1>1, <2>1
    <3>2. QED  BY <1>1, <1>3, <2>1, <3>1 DEF Ticking
  <2>2. CASE m = n + 1
    BY <1>1, <1>4, <2>2
  <2>3. QED  BY <1>1, <2>1, <2>2
<1>6. QED  BY <1>1, <1>2, <1>4, <1>5 DEF Ticking

\* There are no more users than slots after the event either.
LEMMA ActiveInNext ==
    ASSUME TypeOK'
    PROVE  IsFiniteSet(Active') /\ Cardinality(Active') <= Concurrency
<1>1. Concurrency \in Nat
  BY GeneratorAssumption
<1>2. IsFiniteSet(1..Concurrency) /\ Cardinality(1..Concurrency) = Concurrency
  BY <1>1, FS_Interval
<1>3. pool' \in Surjection(1..Concurrency, Active')
  BY DEF TypeOK, Surjection, Active
<1>4. QED  BY <1>2, <1>3, FS_Surjection

\* A set of events, of their users, and of slots given away are all finite.
LEMMA FiniteCrowd ==
    ASSUME TypeOK, NEW t, NEW n \in Nat
    PROVE  /\ IsFiniteSet(Since(t, n)) /\ IsFiniteSet(Met(t, n)) /\ IsFiniteSet(Given(t, n))
           /\ Cardinality(Met(t, n)) \in Nat /\ Cardinality(Given(t, n)) \in Nat
           /\ IsFiniteSet(Met(t, n) \cup Active)
<1>1. IsFiniteSet(1..n)
  BY FS_Interval
<1>2. IsFiniteSet(Since(t, n)) /\ IsFiniteSet(Given(t, n))
  <2>1. Since(t, n) \subseteq 1..n /\ Given(t, n) \subseteq 1..n
    BY DEF Since, Given
  <2>2. QED  BY <1>1, <2>1, FS_Subset
<1>3. IsFiniteSet(Met(t, n))
  <2> DEFINE f == [m \in Since(t, n) |-> out[m].user]
  <2>1. f \in Surjection(Since(t, n), Met(t, n))
    BY DEF Surjection, Met
  <2> HIDE DEF f
  <2>2. QED  BY <1>2, <2>1, FS_Surjection
<1>4. QED  BY <1>2, <1>3, ActiveSlots, FS_Union, FS_CardinalityType

\* One more in the crowd needs one more slot given away.
LEMMA Crowding ==
    ASSUME NEW crowd, NEW given, IsFiniteSet(crowd), IsFiniteSet(given),
           Cardinality(crowd) <= Concurrency + Cardinality(given),
           NEW after, NEW x, NEW i, i \notin given
    PROVE  /\ after \subseteq crowd =>
                 Cardinality(after) <= Concurrency + Cardinality(given)
           /\ after \subseteq crowd \cup {x} =>
                 Cardinality(after) <= Concurrency + Cardinality(given \cup {i})
<1>1. Concurrency \in Nat /\ Cardinality(given) \in Nat /\ Cardinality(crowd) \in Nat
  BY GeneratorAssumption, FS_CardinalityType
<1>2. /\ IsFiniteSet(crowd \cup {x})
      /\ Cardinality(crowd \cup {x}) \in {Cardinality(crowd), Cardinality(crowd) + 1}
      /\ Cardinality(given \cup {i}) = Cardinality(given) + 1
  <2>1. /\ IsFiniteSet(crowd \cup {x})
        /\ Cardinality(crowd \cup {x})
             = IF x \in crowd THEN Cardinality(crowd) ELSE Cardinality(crowd) + 1
    BY FS_AddElement
  <2>2. Cardinality(given \cup {i}) = Cardinality(given) + 1
    BY FS_AddElement
  <2>3. QED  BY <2>1, <2>2
<1>3. ASSUME after \subseteq crowd
      PROVE  Cardinality(after) <= Concurrency + Cardinality(given)
  <2>1. Cardinality(after) <= Cardinality(crowd) /\ Cardinality(after) \in Nat
    BY <1>3, FS_Subset, FS_CardinalityType
  <2>2. QED  BY <1>1, <2>1
<1>4. ASSUME after \subseteq crowd \cup {x}
      PROVE  Cardinality(after) <= Concurrency + Cardinality(given \cup {i})
  <2>1. Cardinality(after) <= Cardinality(crowd \cup {x}) /\ Cardinality(after) \in Nat
    BY <1>2, <1>4, FS_Subset, FS_CardinalityType
  <2>2. QED  BY <1>1, <1>2, <2>1
<1>5. QED  BY <1>3, <1>4

\* An event adds its user, who is active, and one user for a slot given away.
LEMMA EmitSlots ==
    ASSUME IInv, IInv', Slots, NEW tick \in Ticks, NEW idx \in 1..Concurrency, Emit(tick, idx),
           handed' = Append(handed, pool' # pool)
    PROVE  Slots'
<1>1. PICK n \in Nat :
         /\ n = Len(out) /\ Len(out') = n + 1
         /\ \A m \in 1..n : out'[m] = out[m]
         /\ out'[n + 1].ts = ts' /\ out'[n + 1].user = pool[idx]
  <2>1. out \in Seq(Event) /\ Len(out) \in Nat
    BY DEF IInv, TypeOK
  <2>2. QED  BY <2>1 DEF Emit
<1>2. /\ handed' \in Seq(BOOLEAN) /\ Len(handed') = n + 1
      /\ \A m \in 1..n : handed'[m] = handed[m]
      /\ handed'[n + 1] <=> pool' # pool
  <2>1. PICK b \in BOOLEAN : (b <=> pool' # pool) /\ handed' = Append(handed, b)
    <3>1. (pool' # pool) \in BOOLEAN
      OBVIOUS
    <3>2. QED  BY <3>1
  <2>2. handed \in Seq(BOOLEAN) /\ Len(handed) = n
    BY <1>1 DEF Slots
  <2>3. QED  BY <2>1, <2>2, AppendAdds
<1>3. /\ TypeOK /\ TypeOK' /\ Concurrency \in Nat /\ n + 1 \in Nat
      /\ \A m \in 1..n : out[m].ts \in Nat /\ out[m].ts <= ts
      /\ ts \in Nat /\ ts' \in Nat /\ ts <= ts'
  <2>1. /\ TypeOK /\ TypeOK' /\ EventsOrdered
    BY DEF IInv
  <2>2. \A m \in 1..n : out[m] \in Event
    BY <1>1, <2>1, ElementOfSeq DEF TypeOK
  <2>3. ts' = ts + tick /\ tick \in Nat
    BY ReaderConstants DEF Emit
  <2>4. \A m \in 1..n : out[m].ts \in Nat /\ out[m].ts <= ts
    BY <1>1, <2>1, <2>2 DEF EventsOrdered, Event
  <2>5. ts \in Nat /\ ts' \in Nat
    BY <2>1 DEF TypeOK
  <2>6. QED  BY <2>1, <2>3, <2>4, <2>5, GeneratorAssumption
<1>4. ASSUME NEW t \in Int, NEW m \in 0..n
      PROVE  Met(t, m)' = Met(t, m) /\ Given(t, m)' = Given(t, m)
  <2>1. Since(t, m)' = Since(t, m)
    BY <1>1 DEF Since
  <2>2. \A i \in Since(t, m) : out'[i] = out[i] /\ handed'[i] = handed[i]
    BY <1>1, <1>2 DEF Since
  <2>3. QED  BY <2>1, <2>2 DEF Met, Given
<1>5. ASSUME NEW t \in Int
      PROVE  /\ ts' >= t => Met(t, n + 1)' = Met(t, n) \cup {pool[idx]}
             /\ ts' >= t /\ pool' = pool => Given(t, n + 1)' = Given(t, n)
             /\ ts' >= t /\ pool' # pool => Given(t, n + 1)' = Given(t, n) \cup {n + 1}
             /\ ~(ts' >= t) => Met(t, n + 1)' = Met(t, n) /\ Given(t, n + 1)' = Given(t, n)
  <2>1. Since(t, n + 1)' = IF ts' >= t THEN Since(t, n) \cup {n + 1} ELSE Since(t, n)
    BY <1>1 DEF Since
  <2>2. \A i \in Since(t, n) : /\ out'[i] = out[i] /\ handed'[i] = handed[i]
    BY <1>1, <1>2 DEF Since
  <2>3. ASSUME ts' >= t
        PROVE  /\ Met(t, n + 1)' = Met(t, n) \cup {pool[idx]}
               /\ pool' = pool => Given(t, n + 1)' = Given(t, n)
               /\ pool' # pool => Given(t, n + 1)' = Given(t, n) \cup {n + 1}
    <3>1. Since(t, n + 1)' = Since(t, n) \cup {n + 1}
      BY <2>1, <2>3
    <3>2. \A v : (\E m \in Since(t, n + 1)' : v = out'[m].user)
                   <=> v = pool[idx] \/ (\E m \in Since(t, n) : v = out[m].user)
      BY <1>1, <2>2, <3>1
    <3>3. Met(t, n + 1)' = Met(t, n) \cup {pool[idx]}
      BY <3>2 DEF Met
    <3>4. \A m : m \in Since(t, n + 1)' /\ handed'[m]
                   <=> (m \in Since(t, n) /\ handed[m]) \/ (m = n + 1 /\ pool' # pool)
      BY <1>2, <2>2, <3>1, Zenon
    <3>5. \A m : m \in Given(t, n + 1)' <=> m \in Given(t, n) \/ (m = n + 1 /\ pool' # pool)
      BY <3>4, Zenon DEF Given
    <3>6. QED  BY <3>3, <3>5, Zenon
  <2>4. ASSUME ~(ts' >= t)
        PROVE  Met(t, n + 1)' = Met(t, n) /\ Given(t, n + 1)' = Given(t, n)
    <3>1. Since(t, n + 1)' = Since(t, n)
      BY <2>1, <2>4
    <3>2. QED  BY <2>2, <3>1 DEF Met, Given
  <2>5. QED  BY <2>3, <2>4
<1>6. /\ pool[idx] \in Active
      /\ Active' \subseteq Active \cup {pool'[idx]}
      /\ pool' = pool => Active' = Active
  <2>1. \A i \in 1..Concurrency : i # idx => pool'[i] = pool[i]
    BY <1>3 DEF Emit, Keep, Revisit, Replace, TypeOK
  <2>2. QED  BY <2>1 DEF Active
<1>7. ASSUME NEW t \in Int
      PROVE  /\ IsFiniteSet(Met(t, n + 1)' \cup Active')
             /\ Cardinality(Met(t, n + 1)' \cup Active')
                  <= Concurrency + Cardinality(Given(t, n + 1)')
  <2>1. /\ IsFiniteSet(Met(t, n) \cup Active) /\ IsFiniteSet(Given(t, n))
        /\ Cardinality(Given(t, n)) \in Nat
        /\ Cardinality(Met(t, n) \cup Active) <= Concurrency + Cardinality(Given(t, n))
        /\ n + 1 \notin Given(t, n)
    <3>1. n + 1 \notin Given(t, n)
      BY DEF Given, Since
    <3>2. Cardinality(Met(t, n) \cup Active) <= Concurrency + Cardinality(Given(t, n))
      BY <1>1 DEF Slots
    <3>3. QED  BY <1>3, <3>1, <3>2, FiniteCrowd
  <2>2. IsFiniteSet(Active') /\ Cardinality(Active') <= Concurrency /\ Cardinality(Active') \in Nat
    BY <1>3, ActiveInNext, FS_CardinalityType
  <2>3. CASE ts' >= t /\ pool' = pool
    <3>1. Met(t, n + 1)' \cup Active' \subseteq Met(t, n) \cup Active
      BY <1>5, <1>6, <2>3
    <3>2. Given(t, n + 1)' = Given(t, n)
      BY <1>5, <2>3
    <3>3. IsFiniteSet(Met(t, n + 1)' \cup Active')
      BY <2>1, <3>1, FS_Subset
    <3>4. QED  BY <2>1, <3>1, <3>2, <3>3, Crowding
  <2>4. CASE ts' >= t /\ pool' # pool
    <3>1. Met(t, n + 1)' \cup Active' \subseteq (Met(t, n) \cup Active) \cup {pool'[idx]}
      BY <1>5, <1>6, <2>4
    <3>2. Given(t, n + 1)' = Given(t, n) \cup {n + 1}
      BY <1>5, <2>4
    <3>3. IsFiniteSet(Met(t, n + 1)' \cup Active')
      <4>1. IsFiniteSet((Met(t, n) \cup Active) \cup {pool'[idx]})
        BY <2>1, FS_AddElement
      <4>2. QED  BY <3>1, <4>1, FS_Subset
    <3>4. Cardinality(Met(t, n + 1)' \cup Active')
            <= Concurrency + Cardinality(Given(t, n) \cup {n + 1})
      <4>1. \A after, x : after \subseteq (Met(t, n) \cup Active) \cup {x} =>
               Cardinality(after) <= Concurrency + Cardinality(Given(t, n) \cup {n + 1})
        BY <2>1, Crowding
      <4>2. QED  BY <3>1, <4>1
    <3>5. QED  BY <3>2, <3>3, <3>4
  <2>5. CASE ~(ts' >= t)
    <3>1. Since(t, n) = {}
      BY <1>3, <2>5 DEF Since
    <3>2. Met(t, n) = {}
      BY <3>1 DEF Met
    <3>3. Met(t, n + 1)' \cup Active' = Active' /\ Given(t, n + 1)' = Given(t, n)
      BY <1>5, <2>5, <3>2
    <3>4. /\ IsFiniteSet(Met(t, n + 1)' \cup Active')
          /\ Cardinality(Met(t, n + 1)' \cup Active') = Cardinality(Active')
          /\ Cardinality(Given(t, n + 1)') \in Nat
      BY <2>1, <2>2, <3>3
    <3>5. QED  BY <1>3, <2>2, <3>4
  <2>6. QED  BY <2>3, <2>4, <2>5
<1>8. ASSUME NEW t \in Int, NEW m \in 0..(n + 1)
      PROVE  Cardinality(Met(t, m)') <= Concurrency + Cardinality(Given(t, m)')
  <2>1. CASE m \in 0..n
    BY <1>1, <1>4, <2>1 DEF Slots
  <2>2. CASE m = n + 1
    <3>1. IsFiniteSet(Met(t, n + 1)' \cup Active')
      BY <1>7
    <3>2. /\ Cardinality(Met(t, n + 1)') <= Cardinality(Met(t, n + 1)' \cup Active')
          /\ IsFiniteSet(Met(t, n + 1)')
      BY <3>1, FS_Subset
    <3>3. IsFiniteSet(Given(t, n + 1)')
      <4>1. IsFiniteSet(Given(t, n)) /\ IsFiniteSet(Given(t, n) \cup {n + 1})
        BY <1>3, FiniteCrowd, FS_AddElement
      <4>2. Given(t, n + 1)' = Given(t, n) \/ Given(t, n + 1)' = Given(t, n) \cup {n + 1}
        BY <1>5
      <4>3. QED  BY <4>1, <4>2
    <3>4. /\ Cardinality(Met(t, n + 1)') \in Nat
          /\ Cardinality(Met(t, n + 1)' \cup Active') \in Nat
          /\ Cardinality(Given(t, n + 1)') \in Nat
      BY <3>1, <3>2, <3>3, FS_CardinalityType
    <3>5. QED  BY <1>3, <1>7, <2>2, <3>2, <3>4
  <2>3. QED  BY <1>3, <2>1, <2>2
<1>9. QED  BY <1>1, <1>2, <1>7, <1>8 DEF Slots

\* What was generated stays as it is while it is read.
LEMMA WrittenKept ==
    ASSUME Ticking, Slots, UNCHANGED <<ts, out, pool, handed>>
    PROVE  Ticking' /\ Slots'
<1>1. \A m : At(m)' = At(m)
  BY DEF At
<1>2. ASSUME NEW t, NEW n
      PROVE  Met(t, n)' = Met(t, n) /\ Given(t, n)' = Given(t, n) /\ Active' = Active
  BY DEF Met, Given, Since, Active
<1>3. Ticking'
  BY <1>1 DEF Ticking
<1>4. Slots'
  BY <1>2 DEF Slots
<1>5. QED  BY <1>3, <1>4

\* What the sessionizer reads next is an event it may read: a tick later.
LEMMA ReadLineReads ==
    ASSUME WorkloadInv, ReadLine
    PROVE  Proved!Next /\ Copied' /\ UNCHANGED done
<1>1. PICK n \in Nat : n = Len(input) /\ n < Len(out) /\ n + 1 \in 1..Len(out)
  BY DEF WorkloadInv, Copied, ReadLine, IInv, TypeOK
<1> DEFINE e == out[n + 1]
           gap == e.ts - watermark
<1>2. /\ Returned /\ Reader!ReadEvent(gap, e.user, 1, "/") /\ UNCHANGED <<vars, handed>>
  BY <1>1 DEF ReadLine
<1>3. e \in Event /\ e.ts \in Nat /\ e.user \in Nat
  <2>1. out \in Seq(Event)
    BY DEF WorkloadInv, IInv, TypeOK
  <2>2. e \in Event
    BY <1>1, <2>1, ElementOfSeq
  <2>3. QED  BY <2>2 DEF Event
<1>4. watermark \in Nat /\ input \in Seq(Proved!Event)
  BY DEF WorkloadInv, Proved!IInv, Proved!TypeOK
<1>5. gap \in Ticks
  <2>1. watermark = At(n) /\ n + 1 # 0 /\ (n + 1) - 1 = n
    BY <1>1 DEF WorkloadInv, Copied
  <2>2. At(n + 1) - At(n) \in Ticks
    BY <1>1, <2>1 DEF WorkloadInv, Ticking
  <2>3. QED  BY <2>1, <2>2 DEF At
<1>6. e.user \in 0..(Concurrency + MaxEvents)
  <2>1. /\ e.user < next_user /\ next_user + revisits <= Concurrency + Len(out)
        /\ Len(out) <= MaxEvents /\ next_user \in Nat /\ revisits \in Nat /\ Len(out) \in Nat
    BY <1>1 DEF WorkloadInv, IInv, Numbered, Budget, Ticking, TypeOK
  <2>2. Concurrency \in Nat /\ MaxEvents \in Nat
    BY GeneratorAssumption
  <2>3. QED  BY <1>3, <2>1, <2>2
<1>7. Proved!Next
  <2>1. Proved!ReadEvent(gap, e.user, 1, "/")
    BY <1>2, ReaderReads
  <2>2. QED  BY <1>5, <1>6, <2>1 DEF Proved!Next
<1>8. Copied'
  <2>1. /\ Len(input') = n + 1
        /\ \A m \in 1..n : input'[m] = input[m]
        /\ input'[n + 1].ts = watermark + gap /\ input'[n + 1].user = e.user
        /\ watermark' = watermark + gap
    BY <1>1, <1>2, <1>4 DEF Reader!ReadEvent
  <2>2. watermark + gap = e.ts
    BY <1>3, <1>4
  <2>3. UNCHANGED <<out, stats>>
    BY <1>2 DEF vars
  <2>4. \A m \in 1..n : input[m].ts = out[m].ts /\ input[m].user = out[m].user
    BY <1>1 DEF WorkloadInv, Copied
  <2>5. ASSUME NEW m \in 1..Len(input')
        PROVE  input'[m].ts = out'[m].ts /\ input'[m].user = out'[m].user
    <3>1. CASE m \in 1..n
      BY <2>1, <2>3, <2>4, <3>1
    <3>2. CASE m = n + 1
      BY <2>1, <2>2, <2>3, <3>2
    <3>3. QED  BY <1>1, <2>1, <3>1, <3>2
  <2>6. watermark' = At(n + 1)' /\ n + 1 # 0
    BY <1>1, <2>1, <2>2, <2>3 DEF At
  <2>7. Returned'
    BY <1>2, <2>3 DEF Returned
  <2>8. QED  BY <1>1, <2>1, <2>3, <2>5, <2>6, <2>7 DEF Copied
<1>9. QED  BY <1>2, <1>7, <1>8 DEF Reader!ReadEvent

\* A step of the workload is a step of the generator or one of the sessionizer.
LEMMA WorkloadStep ==
    ASSUME WorkloadInv, [WorkloadNext]_workloadVars
    PROVE  /\ [Next]_vars
           /\ [Proved!Next]_(Proved!vars)
           /\ WorkloadInv'
<1>1. CASE Generate
  <2>1. /\ Next /\ UNCHANGED readerVars /\ ~Returned
    BY <1>1 DEF Generate, Next, Emit, Return
  <2>2. UNCHANGED Proved!vars /\ UNCHANGED <<input, watermark, open_s, records, done>>
    BY <2>1 DEF readerVars, Proved!vars
  <2>3. IInv'
    BY <2>1, StepPreserves DEF WorkloadInv
  <2>4. Proved!IInv'
    BY <2>2, ReaderConstants, Proved!StutterPreserves DEF WorkloadInv
  <2>5. Copied'
    <3>1. Len(out) \in Nat /\ Len(out') \in Nat /\ input = <<>> /\ watermark = 0
      BY <2>1, <2>3 DEF WorkloadInv, Copied, At, IInv, TypeOK
    <3>2. Len(input') = 0 /\ input' = <<>> /\ watermark' = 0
      BY <2>2, <3>1
    <3>3. QED  BY <3>1, <3>2 DEF Copied, At
  <2>6. Ticking' /\ Slots'
    <3>1. ASSUME NEW tick \in Ticks, NEW idx \in 1..Concurrency, Emit(tick, idx)
          PROVE  Ticking' /\ Slots'
      <4>1. out' # out
        <5>1. out \in Seq(Event)
          BY DEF WorkloadInv, IInv, TypeOK
        <5>2. Len(out') = Len(out) + 1 /\ Len(out) \in Nat
          BY <3>1, <5>1 DEF Emit
        <5>3. QED  BY <5>2
      <4>2. handed' = Append(handed, pool' # pool)
        BY <1>1, <4>1 DEF Generate
      <4>3. QED  BY <2>3, <3>1, <4>2, EmitTicks, EmitSlots DEF WorkloadInv
    <3>2. CASE Return
      <4>1. UNCHANGED <<ts, out, pool, handed>>
        BY <1>1, <3>2 DEF Generate, Return
      <4>2. QED  BY <4>1, WrittenKept DEF WorkloadInv
    <3>3. QED  BY <1>1, <3>1, <3>2 DEF Generate
  <2>7. QED  BY <2>1, <2>2, <2>3, <2>4, <2>5, <2>6 DEF WorkloadInv
<1>2. CASE UNCHANGED <<vars, handed>>
  <2>1. UNCHANGED <<ts, next_user, pool, retired, revisits, out, stats, handed>>
    BY <1>2 DEF vars
  <2>2. IInv'
    BY <1>2, StutterPreserves DEF WorkloadInv
  <2>3. Ticking' /\ Slots'
    BY <2>1, WrittenKept DEF WorkloadInv
  <2>4. [Proved!Next]_(Proved!vars) /\ Copied' /\ (done => open_s = <<>>)'
    <3>1. CASE ReadLine
      <4>1. ~done
        BY <3>1 DEF ReadLine, Reader!ReadEvent
      <4>2. QED  BY <3>1, <4>1, ReadLineReads
    <3>2. CASE ReadEnd
      <4>1. open_s \in Seq(Proved!Session)
        BY DEF WorkloadInv, Proved!IInv, Proved!TypeOK
      <4>2. Proved!Finish /\ open_s' = <<>>
        BY <3>2, <4>1, ReaderFinishes DEF ReadEnd
      <4>3. UNCHANGED <<input, watermark>>
        BY <3>2 DEF ReadEnd, Reader!Finish
      <4>4. Copied'
        BY <2>1, <4>3 DEF WorkloadInv, Copied, At, Returned
      <4>5. QED  BY <4>2, <4>4 DEF Proved!Next
    <3>3. CASE UNCHANGED workloadVars
      <4>1. UNCHANGED <<input, watermark, open_s, records, done>>
        BY <3>3 DEF workloadVars, readerVars
      <4>2. QED  BY <2>1, <4>1 DEF WorkloadInv, Copied, At, Returned, Proved!vars
    <3>4. CASE Generate
      BY <1>1, <3>4 DEF Generate, WorkloadInv, readerVars
    <3>5. QED  BY <3>1, <3>2, <3>3, <3>4 DEF WorkloadNext, Graded
  <2>5. Proved!IInv'
    BY <2>4, ReaderConstants, Proved!StepPreserves DEF WorkloadInv
  <2>6. QED  BY <1>2, <2>2, <2>3, <2>4, <2>5 DEF WorkloadInv
<1>3. QED  BY <1>1, <1>2 DEF WorkloadNext, ReadLine, ReadEnd, Graded, workloadVars

\* The open sessions are those of the users met within the idle time.
LEMMA WorkingSet == WorkloadInv => WorkingSetBounded
<1> SUFFICES ASSUME WorkloadInv PROVE WorkingSetBounded
  OBVIOUS
<1> DEFINE t     == watermark - IdleMs
           n     == Len(input)
           users == {open_s[i].user : i \in 1..Len(open_s)}
<1>1. /\ n \in 0..Len(out) /\ n \in Nat /\ TypeOK
      /\ watermark \in Nat /\ IdleMs \in Nat /\ t \in Int /\ Concurrency \in Nat
      /\ open_s \in Seq(Proved!Session) /\ Len(open_s) \in Nat
  BY ReaderConstants, GeneratorAssumption
     DEF WorkloadInv, Copied, IInv, TypeOK, Proved!IInv, Proved!TypeOK
<1>2. \A m \in 1..n : out[m].ts \in Nat /\ out[m] \in Event
  <2>1. \A m \in 1..Len(out) : out[m] \in Event
    BY <1>1, ElementOfSeq DEF TypeOK
  <2>2. 1..n \subseteq 1..Len(out)
    BY <1>1
  <2>3. QED  BY <2>1, <2>2 DEF Event
<1>3. \A m \in 1..n : out[m].ts >= t <=> out[m].ts + IdleMs >= watermark
  BY <1>1, <1>2
<1>4. Given(t, n) = {i \in 1..n : handed[i] /\ Recent(out[i].ts)}
  <2>1. \A m \in 1..n : Recent(out[m].ts) <=> out[m].ts >= t
    BY <1>3 DEF Recent
  <2>2. \A m : m \in Given(t, n) <=> m \in 1..n /\ out[m].ts >= t /\ handed[m]
    BY Zenon DEF Given, Since
  <2>3. QED  BY <2>1, <2>2, Zenon
<1>5. /\ Cardinality(Met(t, n)) <= Concurrency + Cardinality(Given(t, n))
      /\ IsFiniteSet(Met(t, n))
      /\ Cardinality(Met(t, n)) \in Nat /\ Cardinality(Given(t, n)) \in Nat
  BY <1>1, FiniteCrowd DEF WorkloadInv, Slots
<1>6. WorkingSetBounded <=> Len(open_s) <= Concurrency + Cardinality(Given(t, n))
  BY <1>4, Zenon DEF WorkingSetBounded
<1>7. CASE done
  <2>1. Len(open_s) = 0
    BY <1>7 DEF WorkloadInv
  <2>2. QED  BY <1>1, <1>5, <1>6, <2>1
<1>8. CASE ~done
  <2>1. Proved!OpenExactlyLive
    BY ReaderConstants, Proved!LiveSessions DEF WorkloadInv
  <2>2. /\ users = {input[m].user : m \in {i \in 1..n : input[i].ts + IdleMs >= watermark}}
        /\ \A i, j \in 1..Len(open_s) : open_s[i].user = open_s[j].user => i = j
    BY <1>8, <2>1 DEF Proved!OpenExactlyLive
  <2>3. \A m \in 1..n : input[m].ts = out[m].ts /\ input[m].user = out[m].user
    BY DEF WorkloadInv, Copied
  <2>4. {i \in 1..n : input[i].ts + IdleMs >= watermark} = Since(t, n)
    BY <1>3, <2>3 DEF Since
  <2>5. users = Met(t, n)
    <3>1. \A m \in Since(t, n) : input[m].user = out[m].user
      BY <2>3 DEF Since
    <3>2. users = {input[m].user : m \in Since(t, n)}
      BY <2>2, <2>4, Zenon
    <3>3. Met(t, n) = {input[m].user : m \in Since(t, n)}
      BY <3>1, Zenon DEF Met
    <3>4. QED  BY <3>2, <3>3, Zenon
  <2>6. Len(open_s) <= Cardinality(users)
    <3> DEFINE f == [i \in 1..Len(open_s) |-> open_s[i].user]
    <3>1. f \in [1..Len(open_s) -> users]
      OBVIOUS
    <3>2. \A i, j \in 1..Len(open_s) : f[i] = f[j] => i = j
      BY <2>2
    <3>3. f \in Injection(1..Len(open_s), users)
      BY <3>1, <3>2 DEF Injection, IsInjective
    <3>4. IsFiniteSet(users)
      BY <1>5, <2>5
    <3>5. Cardinality(1..Len(open_s)) <= Cardinality(users)
      BY <3>3, <3>4, FS_Injection
    <3>6. Cardinality(1..Len(open_s)) = Len(open_s)
      <4>1. Len(open_s) \in Int /\ 1 \in Int
        BY <1>1
      <4>2. Cardinality(1..Len(open_s)) = IF 1 > Len(open_s) THEN 0 ELSE Len(open_s) - 1 + 1
        BY <4>1, FS_Interval
      <4>3. QED  BY <1>1, <4>2
    <3>7. QED  BY <3>5, <3>6
  <2>7. Len(open_s) <= Cardinality(Met(t, n))
    BY <2>5, <2>6, Zenon
  <2> HIDE DEF t, n, users
  <2>8. Len(open_s) <= Concurrency + Cardinality(Given(t, n))
    BY <1>1, <1>5, <2>7
  <2>9. QED  BY <1>6, <2>8
<1>9. QED  BY <1>7, <1>8

THEOREM WorkloadInvariance == WorkloadSpec => []WorkloadInv
<1>1. WorkloadInv /\ [WorkloadNext]_workloadVars => WorkloadInv'
  BY WorkloadStep
<1>2. QED  BY <1>1, WorkloadStarts, PTL DEF WorkloadSpec

\* generate writes what sessionize assumes: reading its file is a behaviour of
\* the sessionizer, so all that is proved of one holds of every workload
\* (task/generate.py:69-72, grader/reference.py:55-63).
THEOREM ReaderIsSessionizer == WorkloadSpec => Spec /\ Proved!Spec
<1>1. WorkloadInit => Init /\ Proved!Init
  BY DEF WorkloadInit, Reader!Init, Proved!Init
<1>2. WorkloadInv /\ [WorkloadNext]_workloadVars => [Next]_vars /\ [Proved!Next]_(Proved!vars)
  BY WorkloadStep
<1>3. QED  BY <1>1, <1>2, WorkloadInvariance, PTL DEF WorkloadSpec, Spec, Proved!Spec

\* The sessions a right solution has open, on any workload and at any point of
\* it: one for a slot, and one for a slot given away within the idle time
\* (task/generate.py:29, grader/reference.py:55-63).
THEOREM WorkingSetIsBounded == WorkloadSpec => []WorkingSetBounded
BY WorkingSet, WorkloadInvariance, PTL

=============================================================================
