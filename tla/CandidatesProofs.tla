-------------------------- MODULE CandidatesProofs --------------------------
(***************************************************************************)
(* Proofs about Candidates.  m02 is the reference: every step of it is     *)
(* one, so that what is proved of Sessionizer holds of it.  Of all the     *)
(* candidates, an account relates what they have written, kept and hold    *)
(* open to the sessions the oracle finds in the events they have read:     *)
(* from it follow what they answer, what they hold, and when they are      *)
(* wrong.                                                                  *)
(***************************************************************************)
EXTENDS MCCandidates, SessionizerProofs

\* The candidates whose output is the reference's, byte for byte.
Alike == candidate \in {"reference", "m02"}

\* Neither keeps a closed session.
AlikeInv ==
    /\ Alike
    /\ IInv
    /\ closed = <<>>

LEMMA WrittenIsEmit ==
    ASSUME Alike, NEW s
    PROVE  Written(s) = Emit(s)
BY DEF Alike, Written, Emit

LEMMA PoppedBatch ==
    ASSUME AlikeInv, NEW k \in 0..Len(open_s)
    PROVE  /\ Len(Popped(k)) = k
           /\ \A i \in 1..k : Popped(k)[i] = open_s[i]
           /\ closed \o Popped(k) = Popped(k)
<1>1. open_s \in Seq(Session) /\ Len(open_s) \in Nat
  BY DEF AlikeInv, IInv, TypeOK
<1>2. /\ Popped(k) \in Seq(Session)
      /\ Len(Popped(k)) = k
      /\ \A i \in 1..k : Popped(k)[i] = open_s[i]
  BY <1>1, SubSeqProperties DEF Popped
<1>3. <<>> \o Popped(k) = Popped(k)
  BY <1>2
<1>4. QED  BY <1>2, <1>3 DEF AlikeInv

\* The loop and the sort are the reference's.
LEMMA FlushIsReference ==
    ASSUME AlikeInv, NEW k \in 0..Len(open_s), NEW w,
           Pops(w, k), WritesSorted(Popped(k))
    PROVE  Flush(w, k)
<1>1. PopsReady(w, k)
  BY DEF AlikeInv, Alike, Pops, Over, PopsReady
<1>2. PICK p \in Bijection(1..k, 1..k) :
         LET batch == [i \in 1..k |-> Written(Popped(k)[p[i]])]
         IN  /\ \A i, j \in 1..k : i < j => ~Precedes(batch[j], batch[i])
             /\ out' = out \o batch
  BY PoppedBatch DEF WritesSorted
<1>3. \A i \in 1..k : p[i] \in 1..k
  BY DEF Bijection, Injection
<1>4. [i \in 1..k |-> Written(Popped(k)[p[i]])] = [i \in 1..k |-> Emit(open_s[p[i]])]
  BY <1>3, PoppedBatch, WrittenIsEmit DEF AlikeInv
<1>5. \A r, s : Precedes(r, s) <=> Before(r, s)
  BY DEF AlikeInv, Alike, Precedes
<1>6. WritesReady(k, p)
  BY <1>2, <1>4, <1>5 DEF WritesReady
<1>7. QED  BY <1>1, <1>6 DEF Flush

\* A step of m02 is a step of the reference.
LEMMA StepIsReference ==
    ASSUME AlikeInv, [CandidateNext]_candidateVars
    PROVE  [Next]_vars
<1>1. ASSUME NEW gap \in Gaps, NEW u \in Users, NEW b \in Sizes, NEW p \in Paths,
             NextEvent(gap, u, b, p)
      PROVE  ReadEvent(gap, u, b, p)
  <2> DEFINE e == [ts |-> watermark + gap, user |-> u, bytes |-> b, path |-> p]
  <2>1. StreamEvent(e)
    BY <1>1 DEF NextEvent, HoardEvent, IgnoreEvent, AlikeInv, Alike, Hoarding, Silent
  <2>2. PICK k \in 0..Len(open_s) :
           /\ FlushBatch(e.ts, k)
           /\ StartSession(Remaining(k), e) \/ ExtendSession(Remaining(k), e)
    BY <2>1 DEF StreamEvent
  <2>3. Flush(e.ts, k)
    BY <2>2, FlushIsReference DEF FlushBatch, AlikeInv, Alike
  <2>4. QED  BY <1>1, <2>2, <2>3 DEF NextEvent, ReadEvent
<1>2. ASSUME EndOfInput
      PROVE  Finish
  <2>1. StreamEnd
    BY <1>2 DEF EndOfInput, HoardEnd, SilentEnd, AlikeInv, Alike, Hoarding, Silent
  <2>2. PICK k \in 0..Len(open_s) :
           /\ Pops(Infinity, k)
           /\ open_s' = Remaining(k)
           /\ WritesSorted(closed \o Popped(k))
    BY <2>1 DEF StreamEnd
  <2>3. Flush(Infinity, k)
    BY <2>2, FlushIsReference, PoppedBatch
  <2>4. QED  BY <1>2, <2>2, <2>3 DEF EndOfInput, Finish
<1>3. CASE UNCHANGED candidateVars
  BY <1>3 DEF candidateVars
<1>4. CASE Exited
  BY <1>4 DEF Exited, candidateVars
<1>5. QED  BY <1>1, <1>2, <1>3, <1>4 DEF CandidateNext, Next

LEMMA AlikeInit ==
    ASSUME CandidateInit, Alike
    PROVE  AlikeInv
BY InitEstablishes DEF CandidateInit, AlikeInv

LEMMA AlikeStep ==
    ASSUME AlikeInv, [CandidateNext]_candidateVars
    PROVE  AlikeInv'
<1>1. IInv'
  BY StepIsReference, StepPreserves DEF AlikeInv
<1>2. Alike' /\ candidate' = candidate
  BY DEF AlikeInv, Alike, CandidateNext, NextEvent, EndOfInput, Exited, candidateVars
<1>3. ASSUME NEW gap \in Gaps, NEW u \in Users, NEW b \in Sizes, NEW p \in Paths,
             NextEvent(gap, u, b, p)
      PROVE  closed' = <<>>
  BY <1>3 DEF NextEvent, StreamEvent, FlushBatch, HoardEvent, IgnoreEvent,
              AlikeInv, Alike, Hoarding, Silent
<1>4. EndOfInput => closed' = <<>>
  BY DEF EndOfInput, StreamEnd, HoardEnd, SilentEnd, AlikeInv, Alike, Hoarding, Silent
<1>5. closed' = <<>>
  BY <1>3, <1>4 DEF CandidateNext, Exited, candidateVars, AlikeInv
<1>6. QED  BY <1>1, <1>2, <1>5 DEF AlikeInv

-----------------------------------------------------------------------------
(* The types *)

\* A set of paths is finite in every session kept, so that it can be counted.
TypeInv ==
    /\ CandidateTypeOK
    /\ \A i \in 1..Len(open_s) : IsFiniteSet(open_s[i].paths)
    /\ \A i \in 1..Len(closed) : IsFiniteSet(closed[i].paths)

\* Sessions whose paths can be counted.
Counted == {s \in Session : IsFiniteSet(s.paths)}

LEMMA CountedSeq ==
    /\ \A q \in Seq(Session) :
          (\A i \in 1..Len(q) : IsFiniteSet(q[i].paths)) => q \in Seq(Counted)
    /\ \A q \in Seq(Counted) :
          q \in Seq(Session) /\ \A i \in 1..Len(q) : IsFiniteSet(q[i].paths)
<1>1. ASSUME NEW q \in Seq(Session), \A i \in 1..Len(q) : IsFiniteSet(q[i].paths)
      PROVE  q \in Seq(Counted)
  <2>1. \A i \in 1..Len(q) : q[i] \in Counted
    BY <1>1 DEF Counted
  <2> HIDE DEF Counted
  <2>2. QED  BY <2>1
<1>2. ASSUME NEW q \in Seq(Counted)
      PROVE  q \in Seq(Session) /\ \A i \in 1..Len(q) : IsFiniteSet(q[i].paths)
  <2>1. \A i \in 1..Len(q) : q[i] \in Counted
    OBVIOUS
  <2>2. \A i \in 1..Len(q) : q[i] \in Session /\ IsFiniteSet(q[i].paths)
    BY <2>1 DEF Counted
  <2>3. QED  BY <2>2
<1>3. QED  BY <1>1, <1>2

\* What the steps keep of the types, the input and the loop's variables aside.
Kept ==
    /\ open_s \in Seq(Counted) /\ closed \in Seq(Counted)
    /\ out \in Seq(Line) /\ seen \subseteq Users

LEMMA CountedInv ==
    TypeInv <=> CandidateTypeOK /\ open_s \in Seq(Counted) /\ closed \in Seq(Counted)
<1>1. CandidateTypeOK => open_s \in Seq(Session) /\ closed \in Seq(Session)
  BY DEF CandidateTypeOK
<1>2. QED  BY <1>1, CountedSeq DEF TypeInv

LEMMA WrittenFields ==
    ASSUME NEW s
    PROVE  Written(s) = [user |-> s.user, start_ts |-> s.start_ts, end_ts |-> s.last_ts,
                         events |-> s.n_events,
                         bytes |-> IF candidate = "m06" THEN Float(s.total_bytes)
                                   ELSE s.total_bytes,
                         paths |-> IF candidate = "m05" THEN s.n_events
                                   ELSE Cardinality(s.paths)]
<1> DEFINE p == IF candidate = "m05" THEN s.n_events ELSE Cardinality(s.paths)
           b == IF candidate = "m06" THEN Float(s.total_bytes) ELSE s.total_bytes
<1>1. Emit(s).paths = Cardinality(s.paths) /\ Emit(s).bytes = s.total_bytes
  BY DEF Emit
<1>2. Written(s) = [Emit(s) EXCEPT !.paths = p, !.bytes = b]
  BY <1>1 DEF Written
<1> HIDE DEF p, b
<1>3. [Emit(s) EXCEPT !.paths = p, !.bytes = b] = [[Emit(s) EXCEPT !.paths = p] EXCEPT !.bytes = b]
  OBVIOUS
<1>4. [Emit(s) EXCEPT !.paths = p]
        = [user |-> s.user, start_ts |-> s.start_ts, end_ts |-> s.last_ts,
           events |-> s.n_events, bytes |-> s.total_bytes, paths |-> p]
  BY DEF Emit
<1>5. [[user |-> s.user, start_ts |-> s.start_ts, end_ts |-> s.last_ts,
        events |-> s.n_events, bytes |-> s.total_bytes, paths |-> p] EXCEPT !.bytes = b]
        = [user |-> s.user, start_ts |-> s.start_ts, end_ts |-> s.last_ts,
           events |-> s.n_events, bytes |-> b, paths |-> p]
  OBVIOUS
<1>6. QED  BY <1>2, <1>3, <1>4, <1>5 DEF p, b

LEMMA WrittenType ==
    ASSUME NEW s \in Counted
    PROVE  Written(s) \in Line
<1>1. s \in Session /\ IsFiniteSet(s.paths)
  BY DEF Counted
<1>2. /\ s.user \in Users /\ s.start_ts \in Nat /\ s.last_ts \in Nat /\ s.n_events \in Nat
      /\ s.total_bytes \in Int /\ Float(s.total_bytes) \in Int /\ Cardinality(s.paths) \in Nat
  BY <1>1, FS_CardinalityType DEF Session, Float
<1>3. Written(s) = [user |-> s.user, start_ts |-> s.start_ts, end_ts |-> s.last_ts,
                    events |-> s.n_events,
                    bytes |-> IF candidate = "m06" THEN Float(s.total_bytes) ELSE s.total_bytes,
                    paths |-> IF candidate = "m05" THEN s.n_events ELSE Cardinality(s.paths)]
  BY WrittenFields
<1>4. QED  BY <1>2, <1>3 DEF Line

\* What is sorted and written is a permutation, line by line.
LEMMA WritesPermuted ==
    ASSUME NEW q, WritesSorted(q)
    PROVE  \E p \in Bijection(1..Len(q), 1..Len(q)) :
              LET batch == [i \in 1..Len(q) |-> Written(q[p[i]])]
              IN  /\ \A i, j \in 1..Len(q) : i < j => ~Precedes(batch[j], batch[i])
                  /\ out' = out \o batch
BY DEF WritesSorted

LEMMA WritesType ==
    ASSUME NEW q \in Seq(Counted), out \in Seq(Line), WritesSorted(q)
    PROVE  out' \in Seq(Line)
<1>1. PICK p \in Bijection(1..Len(q), 1..Len(q)) :
         out' = out \o [i \in 1..Len(q) |-> Written(q[p[i]])]
  BY DEF WritesSorted
<1> DEFINE batch == [i \in 1..Len(q) |-> Written(q[p[i]])]
<1>2. \A i \in 1..Len(q) : q[p[i]] \in Counted
  BY DEF Bijection, Injection
<1>3. \A i \in 1..Len(q) : Written(q[p[i]]) \in Line
  BY <1>2, WrittenType
<1>4. batch \in Seq(Line)
  <2>1. batch \in [1..Len(q) -> Line]
    BY <1>3
  <2>2. Len(q) \in Nat
    OBVIOUS
  <2>3. QED  BY <2>1, <2>2
<1> HIDE DEF batch
<1>5. out \o batch \in Seq(Line)
  BY <1>4
<1>6. QED  BY <1>1, <1>5 DEF batch

LEMMA SessionsCounted ==
    ASSUME NEW e \in Event
    PROVE  NewSession(e) \in Counted /\ \A s \in Counted : Extended(s, e) \in Counted
<1>1. NewSession(e) \in Counted
  BY NewSessionType DEF Counted
<1>2. ASSUME NEW s \in Counted
      PROVE  Extended(s, e) \in Counted
  BY ExtendedType DEF Counted
<1>3. QED  BY <1>1, <1>2

LEMMA CutTypes ==
    ASSUME open_s \in Seq(Counted), NEW k \in 0..Len(open_s)
    PROVE  Popped(k) \in Seq(Counted) /\ Remaining(k) \in Seq(Counted)
BY DEF Popped, Remaining

LEMMA OpenTypes ==
    ASSUME NEW q \in Seq(Counted), NEW e \in Event, StartSession(q, e) \/ ExtendSession(q, e)
    PROVE  open_s' \in Seq(Counted)
<1>1. CASE StartSession(q, e)
  <2>1. open_s' = Append(q, NewSession(e)) /\ NewSession(e) \in Counted
    BY <1>1, SessionsCounted DEF StartSession
  <2>2. QED  BY <2>1
<1>2. CASE ExtendSession(q, e)
  <2>1. PICK i \in 1..Len(q) : open_s' = Append(RemoveAt(q, i), Extended(q[i], e))
    BY <1>2 DEF ExtendSession, Found
  <2>2. q[i] \in Counted
    OBVIOUS
  <2>3. Extended(q[i], e) \in Counted
    BY <2>2, SessionsCounted
  <2>4. RemoveAt(q, i) \in Seq(Counted)
    BY RemoveAtProperties
  <2>5. QED  BY <2>1, <2>3, <2>4
<1>3. QED  BY <1>1, <1>2

LEMMA EventType ==
    ASSUME CandidateTypeOK, NEW gap \in Gaps, NEW u \in Users, NEW b \in Sizes, NEW p \in Paths
    PROVE  /\ [ts |-> watermark + gap, user |-> u, bytes |-> b, path |-> p] \in Event
           /\ watermark + gap \in Nat /\ watermark <= watermark + gap
           /\ watermark \in Nat /\ b \in Nat
<1>1. gap \in Nat /\ watermark \in Nat /\ b \in Nat
  BY SessionAssumption DEF CandidateTypeOK
<1>2. watermark + gap \in Nat /\ watermark <= watermark + gap
  BY <1>1
<1>3. QED  BY <1>1, <1>2 DEF Event

LEMMA NextEventTypes ==
    ASSUME TypeInv, NEW gap \in Gaps, NEW u \in Users, NEW b \in Sizes, NEW p \in Paths,
           NextEvent(gap, u, b, p)
    PROVE  TypeInv'
<1> DEFINE e == [ts |-> watermark + gap, user |-> u, bytes |-> b, path |-> p]
<1>1. e \in Event /\ e.ts \in Nat /\ e.user \in Users
  BY EventType DEF TypeInv
<1>2. /\ input' = Append(input, e) /\ watermark' = e.ts
      /\ UNCHANGED <<candidate, done>>
      /\ StreamEvent(e) \/ HoardEvent(e) \/ IgnoreEvent(e)
  BY DEF NextEvent
<1> HIDE DEF e
<1>3. /\ CandidateTypeOK /\ open_s \in Seq(Counted) /\ closed \in Seq(Counted)
      /\ out \in Seq(Line) /\ seen \subseteq Users
  BY CountedInv DEF TypeInv, CandidateTypeOK
<1>4. ASSUME StreamEvent(e)
      PROVE  Kept'
  <2>1. PICK k \in 0..Len(open_s) :
           FlushBatch(e.ts, k) /\ (StartSession(Remaining(k), e) \/ ExtendSession(Remaining(k), e))
    BY <1>4 DEF StreamEvent
  <2>2. Popped(k) \in Seq(Counted) /\ Remaining(k) \in Seq(Counted)
    BY <1>3, CutTypes
  <2>3. open_s' \in Seq(Counted)
    BY <1>1, <2>1, <2>2, OpenTypes
  <2>5. seen' \subseteq Users
    BY <1>1, <1>3, <1>4 DEF StreamEvent
  <2>4. CASE candidate = "m03"
    <3>1. closed' = closed \o Popped(k) /\ UNCHANGED out
      BY <2>1, <2>4 DEF FlushBatch
    <3>2. closed \o Popped(k) \in Seq(Counted)
      BY <1>3, <2>2
    <3>3. QED  BY <1>3, <2>3, <2>5, <3>1, <3>2 DEF Kept
  <2>6. CASE candidate # "m03"
    <3>1. WritesSorted(Popped(k)) /\ UNCHANGED closed
      BY <2>1, <2>6 DEF FlushBatch
    <3>2. out' \in Seq(Line)
      BY <1>3, <2>2, <3>1, WritesType
    <3>3. QED  BY <1>3, <2>3, <2>5, <3>1, <3>2 DEF Kept
  <2>7. QED  BY <2>4, <2>6
<1>5. ASSUME HoardEvent(e)
      PROVE  Kept'
  <2>1. UNCHANGED <<out, seen>>
    BY <1>5 DEF HoardEvent
  <2>2. CASE StartSession(open_s, e) /\ UNCHANGED closed
    <3>1. open_s' \in Seq(Counted)
      BY <1>1, <1>3, <2>2, OpenTypes
    <3>2. QED  BY <1>3, <2>1, <2>2, <3>1 DEF Kept
  <2>3. CASE \E i \in Found(open_s, e.user) :
                LET idle == e.ts - open_s[i].last_ts > IdleMs
                IN  /\ open_s' = [open_s EXCEPT ![i] = IF idle THEN NewSession(e)
                                                       ELSE Extended(@, e)]
                    /\ closed' = IF idle THEN Append(closed, open_s[i]) ELSE closed
    <3>1. PICK i \in 1..Len(open_s) :
             /\ open_s' = [open_s EXCEPT ![i] = NewSession(e)]
                \/ open_s' = [open_s EXCEPT ![i] = Extended(open_s[i], e)]
             /\ closed' = Append(closed, open_s[i]) \/ closed' = closed
      BY <2>3 DEF Found
    <3>2. /\ open_s[i] \in Counted /\ NewSession(e) \in Counted
          /\ Extended(open_s[i], e) \in Counted
      BY <1>1, <1>3, SessionsCounted
    <3>3. open_s' \in Seq(Counted) /\ closed' \in Seq(Counted)
      <4> HIDE DEF Counted
      <4>1. \A x \in Counted : [open_s EXCEPT ![i] = x] \in Seq(Counted)
        BY <1>3
      <4>2. Append(closed, open_s[i]) \in Seq(Counted)
        BY <1>3, <3>2
      <4>3. QED  BY <1>3, <3>1, <3>2, <4>1, <4>2
    <3>4. QED  BY <1>3, <2>1, <3>3 DEF Kept
  <2>4. QED  BY <1>5, <2>2, <2>3 DEF HoardEvent
<1>6. ASSUME IgnoreEvent(e)
      PROVE  Kept'
  BY <1>3, <1>6 DEF IgnoreEvent, Kept
<1>7. Kept'
  BY <1>2, <1>4, <1>5, <1>6
<1>8. open_s' \in Seq(Session) /\ closed' \in Seq(Session)
  BY <1>7, CountedSeq DEF Kept
<1>9. CandidateTypeOK'
  BY <1>1, <1>2, <1>3, <1>7, <1>8 DEF CandidateTypeOK, Kept
<1>10. QED  BY <1>7, <1>9, CountedSeq DEF TypeInv, Kept

LEMMA EndTypes ==
    ASSUME TypeInv, EndOfInput
    PROVE  TypeInv'
<1>1. /\ done' = TRUE /\ UNCHANGED <<candidate, input, watermark>>
      /\ StreamEnd \/ HoardEnd \/ SilentEnd
  BY DEF EndOfInput
<1>2. /\ CandidateTypeOK /\ open_s \in Seq(Counted) /\ closed \in Seq(Counted)
      /\ out \in Seq(Line) /\ seen \subseteq Users
  BY CountedInv DEF TypeInv, CandidateTypeOK
<1>3. <<>> \in Seq(Counted)
  OBVIOUS
<1>4. ASSUME StreamEnd
      PROVE  Kept'
  <2>1. PICK k \in 0..Len(open_s) :
           open_s' = Remaining(k) /\ WritesSorted(closed \o Popped(k))
    BY <1>4 DEF StreamEnd
  <2>2. Popped(k) \in Seq(Counted) /\ Remaining(k) \in Seq(Counted)
    BY <1>2, CutTypes
  <2>3. closed \o Popped(k) \in Seq(Counted)
    BY <1>2, <2>2
  <2>4. out' \in Seq(Line)
    BY <1>2, <2>1, <2>3, WritesType
  <2>5. QED  BY <1>2, <1>3, <1>4, <2>1, <2>2, <2>4 DEF StreamEnd, Kept
<1>5. ASSUME HoardEnd
      PROVE  Kept'
  <2>1. closed \o open_s \in Seq(Counted)
    BY <1>2
  <2>2. out' \in Seq(Line)
    BY <1>2, <1>5, <2>1, WritesType DEF HoardEnd
  <2>3. QED  BY <1>2, <1>3, <1>5, <2>2 DEF HoardEnd, Kept
<1>6. ASSUME SilentEnd
      PROVE  Kept'
  <2>1. NoRecord \in Line
    BY DEF Line
  <2>2. out' \in Seq(Line)
    <3>1. <<>> \in Seq(Line) /\ <<NoRecord, NoRecord>> \in Seq(Line)
      BY <2>1
    <3>2. QED  BY <1>6, <3>1 DEF SilentEnd
  <2>3. QED  BY <1>2, <1>6, <2>2 DEF SilentEnd, Kept
<1>7. Kept'
  BY <1>1, <1>4, <1>5, <1>6
<1>8. open_s' \in Seq(Session) /\ closed' \in Seq(Session)
  BY <1>7, CountedSeq DEF Kept
<1>9. CandidateTypeOK'
  BY <1>1, <1>2, <1>7, <1>8 DEF CandidateTypeOK, Kept
<1>10. QED  BY <1>7, <1>9, CountedSeq DEF TypeInv, Kept

LEMMA TypeInit == CandidateInit => TypeInv
<1> SUFFICES ASSUME CandidateInit PROVE TypeInv
  OBVIOUS
<1>1. /\ candidate \in Streaming \cup Hoarding \cup Silent
      /\ input = <<>> /\ open_s = <<>> /\ closed = <<>> /\ out = <<>>
      /\ seen = {} /\ watermark = 0 /\ done = FALSE
  BY DEF CandidateInit, Init
<1>2. /\ <<>> \in Seq(Event) /\ <<>> \in Seq(Session) /\ <<>> \in Seq(Line)
      /\ 0 \in Nat /\ FALSE \in BOOLEAN
  OBVIOUS
<1>3. CandidateTypeOK
  BY ONLY <1>1, <1>2 DEF CandidateTypeOK
<1>4. QED  BY <1>1, <1>3 DEF TypeInv

LEMMA TypeStep == TypeInv /\ [CandidateNext]_candidateVars => TypeInv'
<1> SUFFICES ASSUME TypeInv, [CandidateNext]_candidateVars PROVE TypeInv'
  OBVIOUS
<1>1. CASE UNCHANGED candidateVars
  BY <1>1 DEF candidateVars, vars, TypeInv, CandidateTypeOK
<1>2. QED  BY <1>1, NextEventTypes, EndTypes DEF CandidateNext, Exited

-----------------------------------------------------------------------------
(* The account: what every candidate that reads its input has written, keeps *)
(* and holds open, in terms of the sessions the oracle finds in that input.  *)

\* The gap that ends a session of the candidate is longer than this.
Idle == IF candidate = "m04" THEN IdleMs - 1 ELSE IdleMs

Sess == OracleSessions(input, Idle)

\* The streaming candidates hold the sessions that the next event could extend,
\* the others the last session of every user.
StillOpen ==
    IF done THEN {}
    ELSE IF candidate \in Hoarding THEN Latest(Sess)
    ELSE Live(input, Idle, watermark)

\* Closed sessions are kept until the end, and not written when they close.
Keeps == ~done /\ candidate \in Hoarding \cup {"m03"}

\* The key of the candidate's whole output.
Sooner(evs, r, s) ==
    CASE candidate = "m03" -> StartsFirst(r, s)
      [] candidate = "m12" ->
            \/ CloseIndex(evs, IdleMs, r) < CloseIndex(evs, IdleMs, s)
            \/ CloseIndex(evs, IdleMs, r) = CloseIndex(evs, IdleMs, s) /\ r.user < s.user
      [] OTHER -> EndsFirst(r, s)

Ordered(evs, q) ==
    \A i, j \in 1..Len(q) : i < j => Sooner(evs, RecordOf(q[i]), RecordOf(q[j]))

Lines(q) == [i \in 1..Len(q) |-> Written(q[i])]

\* gone lists the sessions that are closed.
Told(gone) ==
    /\ Lists(gone, Sess \ StillOpen)
    /\ IF Keeps THEN closed = gone /\ out = <<>>
       ELSE closed = <<>> /\ out = Lines(gone) /\ Ordered(input, gone)

Ascending(q) == \A i, j \in 1..Len(q) : i < j => q[i].last_ts <= q[j].last_ts

\* The events read, the last of them at the watermark; with IdleMs = 0 there is
\* no gap for m04 to be off by.
Heard ==
    /\ Stream(input)
    /\ \A i \in 1..Len(input) : input[i].ts <= watermark
    /\ watermark = 0 \/ \E i \in 1..Len(input) : input[i].ts = watermark
    /\ candidate = "m04" => IdleMs > 0

\* The candidates that ignore the input keep nothing and write at the end.
Mute ==
    /\ open_s = <<>> /\ closed = <<>>
    /\ out = IF done /\ candidate = "m08" THEN <<NoRecord, NoRecord>> ELSE <<>>

\* Every session is held open, or closed and told of.
Holdings ==
    /\ Lists(open_s, StillOpen)
    /\ candidate \in Streaming => Ascending(open_s)
    /\ \E gone \in Seq(Session) : Told(gone)

Account ==
    /\ Heard
    /\ seen = IF candidate = "m02" THEN {input[i].user : i \in 1..Len(input)} ELSE {}
    /\ candidate \in Silent => Mute
    /\ candidate \notin Silent => Holdings

LEMMA IdleFacts ==
    ASSUME CandidateTypeOK, Heard
    PROVE  /\ Idle \in Nat /\ Idle \in Int /\ IdleMs \in Nat /\ watermark \in Nat
           /\ input \in Seq(Event)
           /\ candidate # "m04" => Idle = IdleMs
BY SessionAssumption DEF CandidateTypeOK, Heard, Idle

LEMMA SessFields ==
    ASSUME CandidateTypeOK, Heard, NEW s \in Sess
    PROVE  /\ s.last_ts \in Nat /\ s.start_ts \in Nat /\ s.start_ts <= s.last_ts
           /\ s.last_ts <= watermark
           /\ s.user \in Users /\ s.user \in Nat
           /\ s.n_events \in Nat \ {0} /\ s.total_bytes \in Nat
           /\ IsFiniteSet(s.paths)
           /\ RecordOf(s).user = s.user /\ RecordOf(s).start_ts = s.start_ts
           /\ RecordOf(s).end_ts = s.last_ts
<1>1. Shaped(s) /\ \E j \in 1..Len(input) : s.user = input[j].user /\ s.last_ts = input[j].ts
  BY IdleFacts, SessionsAre DEF Heard, Sess
<1>2. PICK j \in 1..Len(input) : s.user = input[j].user /\ s.last_ts = input[j].ts
  BY <1>1
<1>3. input[j] \in Event /\ input[j].ts <= watermark
  BY IdleFacts DEF Heard
<1>4. s.user \in Users /\ s.user \in Nat
  BY <1>2, <1>3, SessionAssumption DEF Event
<1>5. QED  BY <1>1, <1>2, <1>3, <1>4 DEF Shaped, RecordOf

\* The loop of flush pops what is over, and at the end everything.
LEMMA PopsOver ==
    ASSUME CandidateTypeOK, Heard, Ascending(open_s), NEW w \in Nat,
           NEW k \in 0..Len(open_s), Pops(w, k)
    PROVE  \A i \in 1..Len(open_s) : i <= k <=> ~(w <= open_s[i].last_ts + Idle)
<1>1. /\ Len(open_s) \in Nat /\ IdleMs \in Nat /\ w # Infinity /\ k \in 0..Len(open_s)
      /\ \A i \in 1..Len(open_s) : open_s[i].last_ts \in Nat
  <2>1. \A i \in 1..Len(open_s) : open_s[i] \in Session
    BY DEF CandidateTypeOK
  <2>2. QED  BY <2>1, IdleFacts, SMTT(30) DEF CandidateTypeOK, Session, Infinity
<1>2. \A i \in 1..Len(open_s) : Over(open_s[i], w) <=> ~(w <= open_s[i].last_ts + Idle)
  BY <1>1 DEF Over, Expired, ExpiredAtBoundary, Idle
<1>3. \A i \in 1..k : i \in 1..Len(open_s) /\ Over(open_s[i], w)
  BY <1>1 DEF Pops
<1>4. ASSUME NEW i \in 1..Len(open_s), ~(i <= k)
      PROVE  w <= open_s[i].last_ts + Idle
  <2>1. k < Len(open_s) /\ k + 1 \in 1..Len(open_s) /\ k + 1 <= i
    BY <1>1, <1>4
  <2>2. w <= open_s[k + 1].last_ts + Idle
    BY <1>2, <2>1 DEF Pops
  <2>3. open_s[k + 1].last_ts <= open_s[i].last_ts
    <3>1. k + 1 < i \/ k + 1 = i
      BY <1>1, <1>4, <2>1
    <3>2. QED  BY <1>1, <2>1, <3>1 DEF Ascending
  <2>4. QED  BY <1>1, <2>1, <2>2, <2>3, IdleFacts
<1>5. \A i \in 1..Len(open_s) : i <= k => i \in 1..k
  BY <1>1
<1>6. QED  BY <1>2, <1>3, <1>4, <1>5

LEMMA PopsAll ==
    ASSUME CandidateTypeOK, NEW k \in 0..Len(open_s), Pops(Infinity, k)
    PROVE  k = Len(open_s) /\ Popped(k) = open_s /\ Remaining(k) = <<>>
<1>1. open_s \in Seq(Session) /\ Len(open_s) \in Nat
  BY DEF CandidateTypeOK
<1>2. \A s : Over(s, Infinity)
  BY DEF Over, Expired, ExpiredAtBoundary, Infinity
<1>3. k = Len(open_s)
  BY <1>1, <1>2 DEF Pops
<1>4. QED  BY <1>1, <1>3 DEF Popped, Remaining

LEMMA OpenStep ==
    ASSUME NEW q \in Seq(Counted), NEW e \in Event, NEW L, NEW L2, Lists(q, L), Carries(L, L2, e),
           StartSession(q, e) \/ ExtendSession(q, e)
    PROVE  Lists(open_s', L2)
<1>1. /\ \A i \in 1..Len(q) : q[i] \in L
      /\ \A s \in L : \E i \in 1..Len(q) : s = q[i]
  BY DEF Lists
<1>2. /\ NewSession(e) = Fresh(e) /\ Fresh(e).user = e.user
      /\ \A s : Extended(s, e) = Longer(s, e) /\ Longer(s, e).user = s.user
  BY DEF NewSession, Fresh, Extended, Longer
<1>3. CASE StartSession(q, e)
  <2>1. open_s' = Append(q, NewSession(e)) /\ \A i \in 1..Len(q) : q[i].user # e.user
    BY <1>3 DEF StartSession, Found
  <2>2. \A s \in L : s.user # e.user
    BY <1>1, <2>1
  <2>3. L2 = L \cup {Fresh(e)} /\ Fresh(e) \notin L
    BY <1>2, <2>2 DEF Carries
  <2>4. Fresh(e) \in Counted
    BY <1>2, SessionsCounted
  <2>5. QED  BY <1>2, <2>1, <2>3, <2>4, ListsAppend
<1>4. CASE ExtendSession(q, e)
  <2>1. PICK i \in 1..Len(q) : /\ q[i].user = e.user
                               /\ open_s' = Append(RemoveAt(q, i), Extended(q[i], e))
    BY <1>4 DEF ExtendSession, Found
  <2> DEFINE s == q[i]
             r == RemoveAt(q, i)
  <2>2. s \in L /\ s \in Counted /\ s.user = e.user
    BY <1>1, <2>1
  <2>3. r \in Seq(Counted) /\ Lists(r, L \ {s})
    BY ListsRemove, RemoveAtProperties
  <2>4. Longer(s, e) \in Counted
    BY <1>2, <2>2, SessionsCounted
  <2> HIDE DEF r, s
  <2>5. L2 = (L \ {s}) \cup {Longer(s, e)}
    BY <2>2 DEF Carries
  <2>6. Longer(s, e) \notin L \ {s}
    BY <1>2, <2>2 DEF Carries
  <2>7. open_s' = Append(r, Longer(s, e))
    BY <1>2, <2>1 DEF r, s
  <2>8. QED  BY <2>3, <2>4, <2>5, <2>6, <2>7, ListsAppend
<1>5. QED  BY <1>3, <1>4

LEMMA OpenAscends ==
    ASSUME NEW q \in Seq(Counted), NEW e \in Event, Ascending(q),
           \A i \in 1..Len(q) : q[i].last_ts <= e.ts,
           StartSession(q, e) \/ ExtendSession(q, e)
    PROVE  Ascending(open_s')
<1>1. PICK r \in Seq(Counted), s \in Counted :
         /\ open_s' = Append(r, s) /\ Ascending(r) /\ s.last_ts = e.ts
         /\ \A i \in 1..Len(r) : r[i].last_ts <= e.ts
  <2>1. NewSession(e).last_ts = e.ts /\ \A x : Extended(x, e).last_ts = e.ts
    BY DEF NewSession, Extended
  <2>2. CASE StartSession(q, e)
    <3>1. open_s' = Append(q, NewSession(e)) /\ NewSession(e) \in Counted
      BY <2>2, SessionsCounted DEF StartSession
    <3>2. QED  BY <2>1, <3>1
  <2>3. CASE ExtendSession(q, e)
    <3>1. PICK i \in 1..Len(q) : open_s' = Append(RemoveAt(q, i), Extended(q[i], e))
      BY <2>3 DEF ExtendSession, Found
    <3> DEFINE r == RemoveAt(q, i)
    <3>2. /\ r \in Seq(Counted) /\ Len(r) = Len(q) - 1 /\ Len(q) \in Nat
          /\ \A j \in 1..(Len(q) - 1) : r[j] = IF j < i THEN q[j] ELSE q[j + 1]
      BY RemoveAtProperties
    <3>3. q[i] \in Counted /\ Extended(q[i], e) \in Counted
      BY SessionsCounted
    <3> HIDE DEF r
    <3>4. \A j \in 1..Len(r) : LET m == IF j < i THEN j ELSE j + 1
                               IN  m \in 1..Len(q) /\ r[j] = q[m]
      BY <3>2
    <3>5. \A j \in 1..Len(r) : r[j].last_ts <= e.ts
      BY <3>4
    <3>6. Ascending(r)
      <4> SUFFICES ASSUME NEW x \in 1..Len(r), NEW y \in 1..Len(r), x < y
                   PROVE  r[x].last_ts <= r[y].last_ts
        BY DEF Ascending
      <4> DEFINE mx == IF x < i THEN x ELSE x + 1
                 my == IF y < i THEN y ELSE y + 1
      <4>1. mx \in 1..Len(q) /\ my \in 1..Len(q) /\ r[x] = q[mx] /\ r[y] = q[my]
        BY <3>4
      <4>2. mx < my
        BY <3>2
      <4> HIDE DEF mx, my
      <4>3. QED  BY <4>1, <4>2 DEF Ascending
    <3>7. open_s' = Append(r, Extended(q[i], e))
      BY <3>1 DEF r
    <3>8. QED  BY <2>1, <3>2, <3>3, <3>5, <3>6, <3>7
  <2>4. QED  BY <2>2, <2>3
<1>2. /\ Len(open_s') = Len(r) + 1 /\ Len(r) \in Nat
      /\ \A j \in 1..Len(r) : open_s'[j] = r[j]
      /\ open_s'[Len(r) + 1] = s
  BY <1>1, AppendAdds
<1>3. \A i \in 1..(Len(r) + 1) : i \in 1..Len(r) \/ i = Len(r) + 1
  BY <1>2
<1>4. ASSUME NEW i \in 1..(Len(r) + 1), NEW j \in 1..(Len(r) + 1), i < j
      PROVE  open_s'[i].last_ts <= open_s'[j].last_ts
  <2>1. i \in 1..Len(r)
    BY <1>2, <1>4
  <2>2. CASE j \in 1..Len(r)
    BY <1>1, <1>2, <1>4, <2>1, <2>2 DEF Ascending
  <2>3. CASE j = Len(r) + 1
    BY <1>1, <1>2, <2>1, <2>3
  <2>4. QED  BY <1>3, <2>2, <2>3
<1>5. QED  BY <1>2, <1>4 DEF Ascending

\* What is sorted is written as the lines of a list of it, in the order of keys.
LEMMA SortedBatch ==
    ASSUME NEW q \in Seq(Session), NEW B, Lists(q, B), WritesSorted(q)
    PROVE  \E b \in Seq(Session) :
              /\ Lists(b, B)
              /\ out' = out \o Lines(b)
              /\ \A i, j \in 1..Len(b) : i < j => ~Precedes(Written(b[j]), Written(b[i]))
<1>1. PICK p \in Bijection(1..Len(q), 1..Len(q)) :
         LET batch == [i \in 1..Len(q) |-> Written(q[p[i]])]
         IN  /\ \A i, j \in 1..Len(q) : i < j => ~Precedes(batch[j], batch[i])
             /\ out' = out \o batch
  BY WritesPermuted
<1> DEFINE b == [i \in 1..Len(q) |-> q[p[i]]]
<1>2. b \in Seq(Session) /\ Lists(b, B)
  BY ListsPermuted
<1>3. Len(b) = Len(q)
  <2>1. \A i \in 1..Len(q) : p[i] \in 1..Len(q)
    BY DEF Bijection, Injection
  <2>2. b \in [1..Len(q) -> Session] /\ Len(q) \in Nat
    BY <2>1
  <2>3. QED  BY <2>2
<1>4. Lines(b) = [i \in 1..Len(q) |-> Written(q[p[i]])]
  BY <1>3 DEF Lines
<1>5. \A i, j \in 1..Len(b) : i < j => ~Precedes(Written(b[j]), Written(b[i]))
  <2>1. \A i \in 1..Len(q) : [j \in 1..Len(q) |-> Written(q[p[j]])][i] = Written(b[i])
    OBVIOUS
  <2> HIDE DEF b
  <2>2. QED  BY <1>1, <1>3, <2>1
<1>6. out' = out \o Lines(b)
  BY <1>1, <1>4
<1> HIDE DEF b
<1>7. QED  BY <1>2, <1>5, <1>6

LEMMA LinesConcat ==
    ASSUME NEW a \in Seq(Session), NEW b \in Seq(Session)
    PROVE  Lines(a \o b) = Lines(a) \o Lines(b)
<1> DEFINE c == a \o b
           F == {Written(s) : s \in Session}
<1>1. /\ c \in Seq(Session) /\ Len(c) = Len(a) + Len(b) /\ Len(a) \in Nat /\ Len(b) \in Nat
      /\ \A j \in 1..(Len(a) + Len(b)) : c[j] = IF j <= Len(a) THEN a[j] ELSE b[j - Len(a)]
  BY ConcatProperties
<1>2. \A q \in Seq(Session) : /\ Lines(q) \in Seq(F) /\ Len(Lines(q)) = Len(q)
                              /\ \A j \in 1..Len(q) : Lines(q)[j] = Written(q[j])
  <2> SUFFICES ASSUME NEW q \in Seq(Session)
               PROVE  /\ Lines(q) \in Seq(F) /\ Len(Lines(q)) = Len(q)
                      /\ \A j \in 1..Len(q) : Lines(q)[j] = Written(q[j])
    OBVIOUS
  <2>1. \A j \in 1..Len(q) : Written(q[j]) \in F
    OBVIOUS
  <2> HIDE DEF F
  <2>2. QED  BY <2>1 DEF Lines
<1> DEFINE x == Lines(a)
           y == Lines(b)
<1> HIDE DEF F
<1>3. /\ Lines(a) \o Lines(b) \in Seq(F)
      /\ Len(Lines(a) \o Lines(b)) = Len(a) + Len(b)
      /\ \A j \in 1..(Len(a) + Len(b)) :
            (Lines(a) \o Lines(b))[j] = IF j <= Len(a) THEN Lines(a)[j]
                                        ELSE Lines(b)[j - Len(a)]
  <2>1. x \in Seq(F) /\ Len(x) = Len(a) /\ y \in Seq(F) /\ Len(y) = Len(b)
    BY <1>2
  <2> HIDE DEF x, y
  <2>2. /\ x \o y \in Seq(F) /\ Len(x \o y) = Len(x) + Len(y)
        /\ \A j \in 1..(Len(x) + Len(y)) : (x \o y)[j] = IF j <= Len(x) THEN x[j] ELSE y[j - Len(x)]
    BY ONLY <2>1, ConcatProperties
  <2>3. QED  BY <2>1, <2>2 DEF x, y
<1>4. Lines(c) \in Seq(F) /\ Len(Lines(c)) = Len(a) + Len(b)
  BY <1>1, <1>2
<1> HIDE DEF c
<1>5. ASSUME NEW j \in 1..(Len(a) + Len(b))
      PROVE  Lines(c)[j] = (Lines(a) \o Lines(b))[j]
  <2>1. Lines(c)[j] = Written(c[j])
    BY <1>1, <1>2
  <2>2. CASE j <= Len(a)
    <3>1. j \in 1..Len(a) /\ c[j] = a[j]
      BY <1>1, <2>2
    <3>2. Lines(a)[j] = Written(a[j])
      BY <1>2, <3>1
    <3>3. QED  BY <1>3, <2>1, <2>2, <3>1, <3>2
  <2>3. CASE ~(j <= Len(a))
    <3>1. j - Len(a) \in 1..Len(b) /\ c[j] = b[j - Len(a)]
      BY <1>1, <2>3
    <3>2. Lines(b)[j - Len(a)] = Written(b[j - Len(a)])
      BY <1>2, <3>1
    <3>3. QED  BY <1>3, <2>1, <2>3, <3>1, <3>2
  <2>4. QED  BY <2>2, <2>3
<1>6. Lines(c) = Lines(a) \o Lines(b)
  BY <1>3, <1>4, <1>5, SeqEqual
<1>7. QED  BY <1>6 DEF c

LEMMA OrderedConcat ==
    ASSUME NEW evs, NEW a \in Seq(Session), NEW b \in Seq(Session),
           Ordered(evs, a), Ordered(evs, b),
           \A i \in 1..Len(a), j \in 1..Len(b) : Sooner(evs, RecordOf(a[i]), RecordOf(b[j]))
    PROVE  Ordered(evs, a \o b)
<1> DEFINE c == a \o b
           m == Len(a)
           n == Len(b)
<1>1. /\ Len(c) = m + n /\ m \in Nat /\ n \in Nat
      /\ \A j \in 1..(m + n) : c[j] = IF j <= m THEN a[j] ELSE b[j - m]
  BY ConcatProperties
<1>2. /\ \A i, j \in 1..m : i < j => Sooner(evs, RecordOf(a[i]), RecordOf(a[j]))
      /\ \A i, j \in 1..n : i < j => Sooner(evs, RecordOf(b[i]), RecordOf(b[j]))
      /\ \A i \in 1..m, j \in 1..n : Sooner(evs, RecordOf(a[i]), RecordOf(b[j]))
  BY DEF Ordered
<1> HIDE DEF c, m, n
<1>3. ASSUME NEW i \in 1..(m + n), NEW j \in 1..(m + n), i < j
      PROVE  Sooner(evs, RecordOf(c[i]), RecordOf(c[j]))
  <2>1. CASE j <= m
    <3>1. i \in 1..m /\ j \in 1..m /\ i <= m
      BY <1>1, <1>3, <2>1
    <3>2. QED  BY <1>1, <1>2, <1>3, <2>1, <3>1
  <2>2. CASE ~(j <= m) /\ i <= m
    <3>1. i \in 1..m /\ j - m \in 1..n
      BY <1>1, <1>3, <2>2
    <3>2. QED  BY <1>1, <1>2, <2>2, <3>1
  <2>3. CASE ~(j <= m) /\ ~(i <= m)
    <3>1. i - m \in 1..n /\ j - m \in 1..n /\ i - m < j - m
      BY <1>1, <1>3, <2>3
    <3>2. QED  BY <1>1, <1>2, <2>3, <3>1
  <2>4. QED  BY <2>1, <2>2, <2>3
<1>4. QED  BY <1>1, <1>3 DEF Ordered, c

\* Sessions that the sort leaves in this order are in the strict order of the
\* output: their keys differ, m12's because they are of different users.
LEMMA StrictlySooner ==
    ASSUME CandidateTypeOK, Heard, NEW s \in Sess, NEW t \in Sess, s # t, NEW evs,
           ~Precedes(Written(t), Written(s)),
           candidate = "m12" =>
              s.user # t.user /\ CloseIndex(evs, IdleMs, RecordOf(s)) = CloseIndex(evs, IdleMs, RecordOf(t))
    PROVE  Sooner(evs, RecordOf(s), RecordOf(t))
<1>1. /\ s.last_ts \in Nat /\ s.start_ts \in Nat /\ s.user \in Nat
      /\ t.last_ts \in Nat /\ t.start_ts \in Nat /\ t.user \in Nat
      /\ RecordOf(s).user = s.user /\ RecordOf(s).start_ts = s.start_ts
      /\ RecordOf(s).end_ts = s.last_ts
      /\ RecordOf(t).user = t.user /\ RecordOf(t).start_ts = t.start_ts
      /\ RecordOf(t).end_ts = t.last_ts
  BY SessFields
<1>2. s.user = t.user => s.start_ts # t.start_ts /\ s.last_ts # t.last_ts
  BY IdleFacts, SessionsDiffer DEF Heard, Sess
<1>3. \A x : /\ Written(x).user = x.user /\ Written(x).start_ts = x.start_ts
             /\ Written(x).end_ts = x.last_ts
  BY WrittenFields
<1>4. CASE candidate = "m03"
  BY <1>1, <1>2, <1>3, <1>4 DEF Precedes, Sooner, StartsFirst
<1>5. CASE candidate = "m12"
  BY <1>1, <1>2, <1>3, <1>5 DEF Precedes, Sooner
<1>6. CASE candidate # "m03" /\ candidate # "m12"
  BY <1>1, <1>2, <1>3, <1>6 DEF Precedes, Before, Sooner, EndsFirst
<1>7. QED  BY <1>4, <1>5, <1>6

\* The watermark has closed what is not live, and the next event closes what of
\* the live sessions it leaves behind.
LEMMA GoneIsClosed ==
    ASSUME CandidateTypeOK, Heard, NEW s \in Sess \ Live(input, Idle, watermark)
    PROVE  /\ s.last_ts + Idle < watermark
           /\ CloseIndex(input, Idle, RecordOf(s)) <= Len(input)
<1>1. s \in Sess /\ ~(watermark <= s.last_ts + Idle)
  BY DEF Live, Sess
<1>2. s.last_ts \in Nat /\ RecordOf(s).end_ts = s.last_ts
  BY <1>1, SessFields
<1>3. Idle \in Nat /\ watermark \in Nat /\ input \in Seq(Event)
  BY IdleFacts
<1>4. s.last_ts + Idle < watermark
  BY <1>1, <1>2, <1>3
<1>5. PICK i \in 1..Len(input) : input[i].ts = watermark
  BY <1>2, <1>3, <1>4 DEF Heard
<1>6. input[i].ts > RecordOf(s).end_ts + Idle
  BY <1>2, <1>3, <1>4, <1>5
<1>7. CloseIndex(input, Idle, RecordOf(s)) # Len(input) + 1
  BY <1>3, <1>6, CloseIndexOver
<1>8. CloseIndex(input, Idle, RecordOf(s)) \in 1..(Len(input) + 1) /\ Len(input) \in Nat
  BY <1>3, CloseIndexIs
<1>9. QED  BY <1>4, <1>7, <1>8

\* No event has closed what is live.
LEMMA LiveIsUnclosed ==
    ASSUME CandidateTypeOK, Heard, NEW t \in Live(input, Idle, watermark)
    PROVE  /\ t \in Sess /\ watermark <= t.last_ts + Idle
           /\ CloseIndex(input, Idle, RecordOf(t)) = Len(input) + 1
<1>1. t \in Sess /\ watermark <= t.last_ts + Idle
  BY DEF Live, Sess
<1>2. t.last_ts \in Nat /\ RecordOf(t).end_ts = t.last_ts
  BY <1>1, SessFields
<1>3. Idle \in Nat /\ watermark \in Nat /\ input \in Seq(Event)
  BY IdleFacts
<1>4. ASSUME NEW i \in 1..Len(input)
      PROVE  ~(input[i].ts > RecordOf(t).end_ts + Idle)
  <2>1. input[i].ts \in Nat /\ input[i].ts <= watermark
    BY DEF Heard, Stream
  <2>2. QED  BY <1>1, <1>2, <1>3, <2>1
<1>5. QED  BY <1>1, <1>3, <1>4, CloseIndexOver

LEMMA BatchCloses ==
    ASSUME CandidateTypeOK, Heard, NEW e \in Event, NEW s \in Live(input, Idle, watermark),
           ~(e.ts <= s.last_ts + Idle)
    PROVE  /\ s \in Sess
           /\ watermark <= s.last_ts + Idle
           /\ CloseIndex(Append(input, e), Idle, RecordOf(s)) = Len(input) + 1
<1>1. s \in Sess /\ watermark <= s.last_ts + Idle
  BY DEF Live, Sess
<1>2. s.last_ts \in Nat /\ RecordOf(s).end_ts = s.last_ts
  BY <1>1, SessFields
<1>3. Idle \in Nat /\ watermark \in Nat /\ input \in Seq(Event) /\ e.ts \in Nat
  BY IdleFacts DEF Event
<1>4. CloseIndex(input, Idle, RecordOf(s)) = Len(input) + 1
  BY LiveIsUnclosed
<1>5. Len(input) \in Nat
  BY <1>3
<1>6. CloseIndex(input, Idle, RecordOf(s)) > Len(input)
  BY <1>4, <1>5
<1>7. e.ts > RecordOf(s).end_ts + Idle
  BY <1>2, <1>3
<1>8. CloseIndex(Append(input, e), Idle, RecordOf(s)) = Len(input) + 1
  BY <1>3, <1>6, <1>7, CloseIndexAppend
<1>9. QED  BY <1>1, <1>8

\* The rules do not change: they depend on which candidate runs.
LEMMA SameRules ==
    ASSUME candidate' = candidate, NEW q
    PROVE  /\ Idle' = Idle
           /\ Lines(q)' = Lines(q)
           /\ Ordered(input, q)' <=> Ordered(input', q)
           /\ Keeps' <=> ~done' /\ candidate \in Hoarding \cup {"m03"}
<1>1. Idle' = Idle
  BY DEF Idle
<1>2. Lines(q)' = Lines(q)
  BY DEF Lines, Written, Emit
<1>3. Ordered(input, q)' <=> Ordered(input', q)
  BY DEF Ordered, Sooner
<1>4. QED  BY <1>1, <1>2, <1>3 DEF Keeps

\* What is written keeps its order as events come, and a batch comes after it.
LEMMA OrderedStays ==
    ASSUME CandidateTypeOK, Heard, NEW e \in Event, NEW gone \in Seq(Session),
           Lists(gone, Sess \ Live(input, Idle, watermark)), Ordered(input, gone)
    PROVE  Ordered(Append(input, e), gone)
<1>1. \A i \in 1..Len(gone) : gone[i] \in Sess \ Live(input, Idle, watermark)
  BY DEF Lists
<1>2. ASSUME NEW i \in 1..Len(gone)
      PROVE  CloseIndex(Append(input, e), Idle, RecordOf(gone[i]))
               = CloseIndex(input, Idle, RecordOf(gone[i]))
  <2>1. CloseIndex(input, Idle, RecordOf(gone[i])) <= Len(input)
    BY <1>1, GoneIsClosed
  <2>2. QED  BY <2>1, IdleFacts, CloseIndexAppend
<1>3. candidate = "m12" => Idle = IdleMs
  BY IdleFacts
<1>4. ASSUME NEW i \in 1..Len(gone), NEW j \in 1..Len(gone),
             Sooner(input, RecordOf(gone[i]), RecordOf(gone[j]))
      PROVE  Sooner(Append(input, e), RecordOf(gone[i]), RecordOf(gone[j]))
  BY <1>2, <1>3, <1>4 DEF Sooner
<1>5. QED  BY <1>4 DEF Ordered

LEMMA BatchIsLater ==
    ASSUME CandidateTypeOK, Heard, candidate # "m03", NEW e \in Event,
           NEW s \in Sess \ Live(input, Idle, watermark),
           NEW t \in Live(input, Idle, watermark), ~(e.ts <= t.last_ts + Idle)
    PROVE  Sooner(Append(input, e), RecordOf(s), RecordOf(t))
<1>1. /\ s.last_ts + Idle < watermark
      /\ CloseIndex(input, Idle, RecordOf(s)) <= Len(input)
  BY GoneIsClosed
<1>2. /\ t \in Sess /\ watermark <= t.last_ts + Idle
      /\ CloseIndex(Append(input, e), Idle, RecordOf(t)) = Len(input) + 1
  BY BatchCloses
<1>3. /\ s.last_ts \in Nat /\ RecordOf(s).end_ts = s.last_ts
      /\ t.last_ts \in Nat /\ RecordOf(t).end_ts = t.last_ts
  BY <1>2, SessFields
<1>4. Idle \in Nat /\ watermark \in Nat /\ input \in Seq(Event)
  BY IdleFacts
<1>5. CloseIndex(Append(input, e), Idle, RecordOf(s)) = CloseIndex(input, Idle, RecordOf(s))
  BY <1>1, <1>4, CloseIndexAppend
<1>6. CloseIndex(Append(input, e), Idle, RecordOf(s)) < CloseIndex(Append(input, e), Idle, RecordOf(t))
  <2>1. CloseIndex(input, Idle, RecordOf(s)) \in 1..(Len(input) + 1) /\ Len(input) \in Nat
    BY <1>4, CloseIndexIs
  <2>2. QED  BY <1>1, <1>2, <1>5, <2>1
<1>7. s.last_ts < t.last_ts
  BY <1>1, <1>2, <1>3, <1>4
<1>8. CASE candidate = "m12"
  <2>1. Idle = IdleMs
    BY <1>8, IdleFacts
  <2>2. QED  BY <1>6, <1>8, <2>1 DEF Sooner
<1>9. CASE candidate # "m12"
  BY <1>3, <1>7, <1>9 DEF Sooner, EndsFirst
<1>10. QED  BY <1>8, <1>9

\* The sorted batch is in the order of the whole output.
LEMMA BatchOrdered ==
    ASSUME CandidateTypeOK, Heard, NEW e \in Event, NEW b \in Seq(Session), NEW B,
           Lists(b, B), \A s \in B : s \in Live(input, Idle, watermark) /\ ~(e.ts <= s.last_ts + Idle),
           \A i, j \in 1..Len(b) : i < j => ~Precedes(Written(b[j]), Written(b[i]))
    PROVE  Ordered(Append(input, e), b)
<1> SUFFICES ASSUME NEW i \in 1..Len(b), NEW j \in 1..Len(b), i < j
             PROVE  Sooner(Append(input, e), RecordOf(b[i]), RecordOf(b[j]))
  BY DEF Ordered
<1> DEFINE s == b[i]
           t == b[j]
<1>1. s # t /\ s \in B /\ t \in B
  BY DEF Lists, Distinct
<1>2. ~Precedes(Written(t), Written(s))
  OBVIOUS
<1> HIDE DEF s, t
<1>3. /\ s \in Live(input, Idle, watermark) /\ ~(e.ts <= s.last_ts + Idle)
      /\ t \in Live(input, Idle, watermark) /\ ~(e.ts <= t.last_ts + Idle)
  BY <1>1
<1>4. /\ s \in Sess /\ t \in Sess
      /\ CloseIndex(Append(input, e), Idle, RecordOf(s)) = Len(input) + 1
      /\ CloseIndex(Append(input, e), Idle, RecordOf(t)) = Len(input) + 1
  BY <1>3, BatchCloses
<1>5. s.user # t.user
  BY <1>1, <1>3, IdleFacts, LiveUsers DEF Heard
<1>6. candidate = "m12" => Idle = IdleMs
  BY IdleFacts
<1>7. Sooner(Append(input, e), RecordOf(s), RecordOf(t))
  BY <1>1, <1>2, <1>4, <1>5, <1>6, StrictlySooner
<1>8. QED  BY <1>7 DEF s, t

\* What the next event does to the account of the candidates that read it.
Reads(e) ==
    /\ ~done
    /\ e \in Event /\ Follows(e, input) /\ watermark <= e.ts
    /\ input' = Append(input, e)
    /\ watermark' = e.ts
    /\ UNCHANGED <<candidate, done>>

\* Told of the sessions gone, of which b has just been closed.
LEMMA GoneGrows ==
    ASSUME TypeInv, Heard, candidate \in Streaming, NEW e, Reads(e),
           NEW gone \in Seq(Session), Told(gone),
           NEW k \in 0..Len(open_s), FlushBatch(e.ts, k),
           NEW B, Lists(Popped(k), B),
           \A s \in B : s \in Live(input, Idle, watermark) /\ ~(e.ts <= s.last_ts + Idle),
           (Sess \ StillOpen)' = (Sess \ Live(input, Idle, watermark)) \cup B
    PROVE  \E g \in Seq(Session) : Told(g)'
<1>1. /\ CandidateTypeOK /\ e \in Event /\ ~done /\ ~done' /\ candidate' = candidate
      /\ input' = Append(input, e) /\ candidate \notin Hoarding
  BY DEF TypeInv, Reads, Streaming, Hoarding
<1>2. StillOpen = Live(input, Idle, watermark)
  BY <1>1 DEF StillOpen
<1>3. Lists(gone, Sess \ Live(input, Idle, watermark))
  BY <1>2 DEF Told
<1>4. Popped(k) \in Seq(Session)
  BY <1>1 DEF CandidateTypeOK, Popped
<1>5. (Sess \ Live(input, Idle, watermark)) \cap B = {}
  OBVIOUS
<1>6. \A b \in Seq(Session) : Lists(b, B) =>
         gone \o b \in Seq(Session) /\ Lists(gone \o b, (Sess \ StillOpen)')
  <2> SUFFICES ASSUME NEW b \in Seq(Session), Lists(b, B)
               PROVE  gone \o b \in Seq(Session) /\ Lists(gone \o b, (Sess \ StillOpen)')
    OBVIOUS
  <2>1. Lists(gone \o b, (Sess \ Live(input, Idle, watermark)) \cup B)
    BY <1>3, <1>5, ListsConcat
  <2>2. gone \o b \in Seq(Session)
    OBVIOUS
  <2>3. Lists(gone \o b, (Sess \ StillOpen)')
    BY ONLY <2>1, (Sess \ StillOpen)' = (Sess \ Live(input, Idle, watermark)) \cup B
  <2>4. QED  BY <2>2, <2>3
<1>7. CASE candidate = "m03"
  <2>1. closed = gone /\ out = <<>>
    BY <1>1, <1>7 DEF Told, Keeps
  <2>2. closed' = gone \o Popped(k) /\ out' = <<>>
    BY <1>7, <2>1 DEF FlushBatch
  <2>3. Keeps'
    BY <1>1, <1>7 DEF Keeps
  <2>4. PICK g : g = gone \o Popped(k)
    OBVIOUS
  <2>5. g \in Seq(Session) /\ Lists(g, (Sess \ StillOpen)') /\ closed' = g
    BY <1>4, <1>6, <2>2, <2>4
  <2>6. Lists(g, Sess \ StillOpen)'
    BY <2>5
  <2>7. Told(g)'
    BY <2>2, <2>3, <2>5, <2>6 DEF Told
  <2>8. QED  BY <2>5, <2>7
<1>8. CASE candidate # "m03"
  <2>1. ~Keeps /\ ~Keeps'
    BY <1>1, <1>8 DEF Keeps
  <2>2. closed = <<>> /\ out = Lines(gone) /\ Ordered(input, gone)
    BY <2>1 DEF Told
  <2>3. WritesSorted(Popped(k)) /\ closed' = <<>>
    BY <1>8, <2>2 DEF FlushBatch
  <2>4. PICK b \in Seq(Session) :
           /\ Lists(b, B)
           /\ out' = out \o Lines(b)
           /\ \A i, j \in 1..Len(b) : i < j => ~Precedes(Written(b[j]), Written(b[i]))
    BY <1>4, <2>3, SortedBatch
  <2>5. PICK g : g = gone \o b
    OBVIOUS
  <2>6. g \in Seq(Session) /\ Lists(g, (Sess \ StillOpen)')
    BY <1>6, <2>4, <2>5
  <2>7. Ordered(Append(input, e), gone)
    BY <1>1, <1>3, <2>2, OrderedStays
  <2>8. Ordered(Append(input, e), b)
    BY <1>1, <2>4, BatchOrdered
  <2>9. \A i \in 1..Len(gone), j \in 1..Len(b) :
           Sooner(Append(input, e), RecordOf(gone[i]), RecordOf(b[j]))
    <3> SUFFICES ASSUME NEW i \in 1..Len(gone), NEW j \in 1..Len(b)
                 PROVE  Sooner(Append(input, e), RecordOf(gone[i]), RecordOf(b[j]))
      OBVIOUS
    <3>1. gone[i] \in Sess \ Live(input, Idle, watermark) /\ b[j] \in B
      BY <1>3, <2>4 DEF Lists
    <3>2. b[j] \in Live(input, Idle, watermark) /\ ~(e.ts <= b[j].last_ts + Idle)
      BY <3>1
    <3>3. QED  BY <1>1, <1>8, <3>1, <3>2, BatchIsLater
  <2>10. Ordered(input', g)
    BY <1>1, <2>4, <2>5, <2>7, <2>8, <2>9, OrderedConcat
  <2>11. out' = Lines(g)'
    <3>1. out' = Lines(gone) \o Lines(b)
      BY <2>2, <2>4
    <3>2. Lines(g) = Lines(gone) \o Lines(b)
      BY <2>4, <2>5, LinesConcat
    <3>3. Lines(g)' = Lines(g)
      BY <1>1, SameRules
    <3>4. QED  BY <3>1, <3>2, <3>3
  <2>12. Ordered(input, g)'
    BY <1>1, <2>10, SameRules
  <2>13. Lists(g, Sess \ StillOpen)'
    BY <2>6
  <2>14. Told(g)'
    BY <2>1, <2>3, <2>11, <2>12, <2>13 DEF Told
  <2>15. QED  BY <2>6, <2>14
<1>9. QED  BY <1>7, <1>8

LEMMA StreamAccount ==
    ASSUME TypeInv, Account, NEW e, Reads(e), StreamEvent(e)
    PROVE  Holdings'
<1>1. /\ CandidateTypeOK /\ open_s \in Seq(Counted) /\ Heard /\ candidate \in Streaming
      /\ e \in Event /\ ~done /\ ~done' /\ candidate' = candidate
      /\ input' = Append(input, e) /\ watermark' = e.ts
      /\ candidate \notin Hoarding /\ candidate \notin Silent
  BY CountedInv DEF TypeInv, Reads, Streaming, Hoarding, Silent, Account, StreamEvent
<1>2. /\ input \in Seq(Event) /\ Idle \in Nat /\ watermark \in Nat /\ e.ts \in Nat
      /\ Stream(input) /\ Follows(e, input) /\ watermark <= e.ts
  BY <1>1, IdleFacts DEF Heard, Reads, Event
<1>3. /\ Lists(open_s, Live(input, Idle, watermark)) /\ Ascending(open_s)
      /\ \E gone \in Seq(Session) : Told(gone)
  BY <1>1 DEF Account, Holdings, StillOpen
<1>4. PICK k \in 0..Len(open_s) :
         FlushBatch(e.ts, k) /\ (StartSession(Remaining(k), e) \/ ExtendSession(Remaining(k), e))
  BY DEF StreamEvent
<1>5. \A i \in 1..Len(open_s) : i <= k <=> ~(e.ts <= open_s[i].last_ts + Idle)
  BY <1>1, <1>2, <1>3, <1>4, PopsOver DEF FlushBatch
<1> DEFINE L == Live(input, Idle, watermark)
           P == {s \in L : ~(e.ts <= s.last_ts + Idle)}
<1>6. \A i \in 1..Len(open_s) : i <= k <=> open_s[i] \in P
  BY <1>3, <1>5 DEF Lists
<1>7. L \cap P = P /\ L \ P = Live(input, Idle, e.ts)
  <2>1. \A s \in Sess : s.last_ts \in Nat
    BY <1>1, SessFields
  <2>2. \A s \in Sess : e.ts <= s.last_ts + Idle => watermark <= s.last_ts + Idle
    BY <1>2, <2>1
  <2>3. QED  BY <2>2 DEF Live, Sess
<1> HIDE DEF L, P
<1>8. /\ Popped(k) \in Seq(Counted) /\ Remaining(k) \in Seq(Counted)
      /\ Lists(Popped(k), P) /\ Lists(Remaining(k), Live(input, Idle, e.ts))
  <2> DEFINE a == SubSeq(open_s, 1, k)
             c == SubSeq(open_s, k + 1, Len(open_s))
  <2>1. Lists(open_s, L)
    BY <1>3 DEF L
  <2>2. /\ a \in Seq(Counted) /\ c \in Seq(Counted)
        /\ Lists(a, L \cap P) /\ Lists(c, L \ P)
    BY <1>1, <1>6, <2>1, ListsSplit
  <2>3. Popped(k) = a /\ Remaining(k) = c
    BY DEF Popped, Remaining
  <2> HIDE DEF a, c
  <2>4. QED  BY <1>7, <2>2, <2>3
<1>9. /\ Carries(Live(input, Idle, e.ts), Live(input', Idle, e.ts), e)
      /\ OracleSessions(input', Idle) \ Live(input', Idle, e.ts) = Sess \ Live(input, Idle, e.ts)
  BY <1>1, <1>2, LiveAppend DEF Sess
<1>10. Idle' = Idle /\ StillOpen' = Live(input', Idle, e.ts) /\ Sess' = OracleSessions(input', Idle)
  BY <1>1, SameRules DEF StillOpen, Sess
<1>11. Lists(open_s, StillOpen)'
  <2>1. Lists(open_s', Live(input', Idle, e.ts))
    BY <1>1, <1>4, <1>8, <1>9, OpenStep
  <2>2. QED  BY <1>10, <2>1
<1>12. Ascending(open_s)'
  <2>1. /\ Len(open_s) \in Nat /\ Len(Remaining(k)) = Len(open_s) - k
        /\ \A i \in 1..(Len(open_s) - k) : Remaining(k)[i] = open_s[k + i]
    BY <1>1 DEF Remaining
  <2>2. \A i \in 1..Len(Remaining(k)) : k + i \in 1..Len(open_s) /\ Remaining(k)[i] = open_s[k + i]
    BY <2>1
  <2>3. Ascending(Remaining(k))
    <3> SUFFICES ASSUME NEW i \in 1..Len(Remaining(k)), NEW j \in 1..Len(Remaining(k)), i < j
                 PROVE  Remaining(k)[i].last_ts <= Remaining(k)[j].last_ts
      BY DEF Ascending
    <3>1. k + i < k + j
      OBVIOUS
    <3>2. QED  BY <1>3, <2>2, <3>1 DEF Ascending
  <2>4. \A i \in 1..Len(Remaining(k)) : Remaining(k)[i].last_ts <= e.ts
    <3> SUFFICES ASSUME NEW i \in 1..Len(Remaining(k))
                 PROVE  Remaining(k)[i].last_ts <= e.ts
      OBVIOUS
    <3>1. Remaining(k)[i] \in Sess
      BY <1>8 DEF Lists, Live, Sess
    <3>2. Remaining(k)[i].last_ts \in Nat /\ Remaining(k)[i].last_ts <= watermark
      BY <1>1, <3>1, SessFields
    <3>3. QED  BY <1>2, <3>2
  <2>5. Ascending(open_s')
    BY <1>1, <1>4, <1>8, <2>3, <2>4, OpenAscends
  <2>6. QED  BY <2>5 DEF Ascending
<1>13. \A s \in P : s \in Live(input, Idle, watermark) /\ ~(e.ts <= s.last_ts + Idle)
  BY DEF P, L
<1>14. (Sess \ StillOpen)' = (Sess \ Live(input, Idle, watermark)) \cup P
  <2>1. (Sess \ StillOpen)' = Sess \ (L \ P)
    BY <1>7, <1>9, <1>10
  <2>2. P \subseteq L /\ L \subseteq Sess
    BY DEF P, L, Live, Sess
  <2>3. QED  BY <2>1, <2>2 DEF L
<1>15. \E gone \in Seq(Session) : Told(gone)'
  BY <1>1, <1>3, <1>4, <1>8, <1>13, <1>14, GoneGrows
<1>16. QED  BY <1>11, <1>12, <1>15 DEF Holdings

LEMMA HoardAccount ==
    ASSUME TypeInv, Account, NEW e, Reads(e), HoardEvent(e)
    PROVE  Holdings'
<1>1. /\ CandidateTypeOK /\ open_s \in Seq(Counted) /\ Heard /\ candidate \in Hoarding
      /\ e \in Event /\ ~done /\ ~done' /\ candidate' = candidate
      /\ input' = Append(input, e) /\ out' = out
      /\ candidate \notin Streaming /\ candidate \notin Silent /\ candidate # "m04"
  BY CountedInv DEF TypeInv, Reads, Streaming, Hoarding, Silent, Account, HoardEvent
<1>2. /\ input \in Seq(Event) /\ Idle = IdleMs /\ Idle \in Nat
      /\ Stream(input) /\ Follows(e, input)
  BY <1>1, IdleFacts DEF Heard, Reads
<1> DEFINE S2 == OracleSessions(input', Idle)
           L == Latest(Sess)
<1>3. /\ Lists(open_s, L) /\ Keeps /\ Keeps'
      /\ \E gone \in Seq(Session) : Lists(gone, Past(Sess)) /\ closed = gone /\ out = <<>>
  <2>1. StillOpen = L /\ Keeps /\ Keeps'
    BY <1>1 DEF StillOpen, Keeps
  <2>2. Lists(open_s, L) /\ \E gone \in Seq(Session) : Told(gone)
    BY <1>1, <2>1 DEF Account, Holdings
  <2>3. QED  BY <2>1, <2>2 DEF Told, Past
<1>4. closed \in Seq(Session) /\ Lists(closed, Past(Sess)) /\ out = <<>>
  BY <1>3
<1>5. LatestStep(input, Idle, e)
  BY <1>1, <1>2, LatestAppend
<1>6. /\ Idle' = Idle /\ Sess' = S2
      /\ StillOpen' = Latest(S2) /\ (Sess \ StillOpen)' = Past(S2)
  <2>1. Idle' = Idle
    BY <1>1, SameRules
  <2>2. Sess' = S2
    BY <2>1 DEF Sess
  <2>3. StillOpen' = Latest(S2)
    BY <1>1, <2>2 DEF StillOpen, Latest
  <2>4. QED  BY <2>1, <2>2, <2>3 DEF Past
<1>7. NewSession(e) = Fresh(e) /\ \A s : Extended(s, e) = Longer(s, e)
  BY DEF NewSession, Fresh, Extended, Longer
<1>8. /\ Fresh(e) \in Counted /\ \A s \in Counted : Longer(s, e) \in Counted
      /\ Fresh(e).user = e.user /\ \A s : Longer(s, e).user = s.user
  BY <1>1, <1>7, SessionsCounted DEF Fresh, Longer
<1>9. \A s, t \in L : s.user = t.user => s = t
  BY <1>1, <1>2, LatestUnique DEF Sess, Latest
<1>10. \A s : s \in L <=> \E i \in 1..Len(open_s) : s = open_s[i]
  BY <1>3 DEF Lists
<1>11. /\ Lists(open_s', Latest(S2))
       /\ closed' \in Seq(Session) /\ Lists(closed', Past(S2))
  <2>1. CASE StartSession(open_s, e) /\ UNCHANGED closed
    <3>1. open_s' = Append(open_s, Fresh(e)) /\ \A i \in 1..Len(open_s) : open_s[i].user # e.user
      BY <1>7, <2>1 DEF StartSession, Found
    <3>2. \A s \in L : s.user # e.user
      BY <1>10, <3>1
    <3>3. Fresh(e) \notin L
      BY <1>8, <3>2
    <3>4. Latest(S2) = L \cup {Fresh(e)} /\ Past(S2) = Past(Sess)
      BY <1>1, <1>5, <3>2 DEF LatestStep, Sess
    <3> HIDE DEF S2, L
    <3>5. Lists(Append(open_s, Fresh(e)), L \cup {Fresh(e)})
      BY <1>1, <1>3, <1>8, <3>3, ListsAppend
    <3>6. QED  BY <1>4, <2>1, <3>1, <3>4, <3>5
  <2>2. ASSUME NEW i \in Found(open_s, e.user),
               LET idle == e.ts - open_s[i].last_ts > IdleMs
               IN  /\ open_s' = [open_s EXCEPT ![i] = IF idle THEN NewSession(e)
                                                      ELSE Extended(@, e)]
                   /\ closed' = IF idle THEN Append(closed, open_s[i]) ELSE closed
        PROVE  /\ Lists(open_s', Latest(S2))
               /\ closed' \in Seq(Session) /\ Lists(closed', Past(S2))
    <3> DEFINE s == open_s[i]
    <3>1. i \in 1..Len(open_s) /\ s.user = e.user
      BY <2>2 DEF Found
    <3>2. s \in L /\ s \in Counted /\ s \in Session
      BY <1>1, <1>10, <3>1 DEF Counted
    <3>3. \A x : x.user = e.user => x \notin L \ {s}
      BY <1>9, <3>1, <3>2
    <3>4. CASE e.ts - s.last_ts > IdleMs
      <4>1. open_s' = [open_s EXCEPT ![i] = Fresh(e)] /\ closed' = Append(closed, s)
        BY <1>7, <2>2, <3>4
      <4>2. Latest(S2) = (L \ {s}) \cup {Fresh(e)} /\ Past(S2) = Past(Sess) \cup {s}
        BY <1>1, <1>2, <1>5, <3>1, <3>2, <3>4 DEF LatestStep, Sess
      <4>3. s \notin Past(Sess)
        BY <3>2 DEF Past
      <4> HIDE DEF S2, L
      <4>4. Lists([open_s EXCEPT ![i] = Fresh(e)], (L \ {open_s[i]}) \cup {Fresh(e)})
        BY <1>1, <1>3, <1>8, <3>1, <3>3, ListsExcept
      <4> HIDE DEF s
      <4>5. Lists(Append(closed, s), Past(Sess) \cup {s})
        BY <1>4, <3>2, <4>3, ListsAppend
      <4>6. Append(closed, s) \in Seq(Session)
        BY <1>4, <3>2
      <4>7. QED  BY <4>1, <4>2, <4>4, <4>5, <4>6 DEF s
    <3>5. CASE ~(e.ts - s.last_ts > IdleMs)
      <4>1. open_s' = [open_s EXCEPT ![i] = Longer(s, e)] /\ closed' = closed
        BY <1>7, <2>2, <3>5
      <4>2. Latest(S2) = (L \ {s}) \cup {Longer(s, e)} /\ Past(S2) = Past(Sess)
        BY <1>1, <1>2, <1>5, <3>1, <3>2, <3>5 DEF LatestStep, Sess
      <4>3. Longer(s, e) \in Counted /\ Longer(s, e) \notin L \ {s}
        BY <1>8, <3>1, <3>2, <3>3
      <4> HIDE DEF S2, L
      <4>4. Lists([open_s EXCEPT ![i] = Longer(s, e)], (L \ {open_s[i]}) \cup {Longer(s, e)})
        BY <1>1, <1>3, <3>1, <4>3, ListsExcept
      <4>5. QED  BY <1>4, <4>1, <4>2, <4>4
    <3>6. QED  BY <3>4, <3>5
  <2>3. QED  BY <2>1, <2>2 DEF HoardEvent
<1>12. PICK g : g = closed'
  OBVIOUS
<1>13. g \in Seq(Session) /\ Lists(g, Sess \ StillOpen)' /\ closed' = g
  BY <1>6, <1>11, <1>12
<1>14. Told(g)'
  BY <1>1, <1>3, <1>4, <1>13 DEF Told
<1>15. Lists(open_s, StillOpen)'
  BY <1>6, <1>11
<1>16. QED  BY <1>1, <1>13, <1>14, <1>15 DEF Holdings

\* So it comes after all that is closed.
LEMMA LiveIsLater ==
    ASSUME CandidateTypeOK, Heard, candidate # "m03",
           NEW s \in Sess \ Live(input, Idle, watermark), NEW t \in Live(input, Idle, watermark)
    PROVE  Sooner(input, RecordOf(s), RecordOf(t))
<1>1. s.last_ts + Idle < watermark /\ CloseIndex(input, Idle, RecordOf(s)) <= Len(input)
  BY GoneIsClosed
<1>2. /\ t \in Sess /\ watermark <= t.last_ts + Idle
      /\ CloseIndex(input, Idle, RecordOf(t)) = Len(input) + 1
  BY LiveIsUnclosed
<1>3. Idle \in Nat /\ watermark \in Nat /\ input \in Seq(Event) /\ (candidate = "m12" => Idle = IdleMs)
  BY IdleFacts
<1>4. CloseIndex(input, Idle, RecordOf(s)) < CloseIndex(input, Idle, RecordOf(t))
  <2>1. CloseIndex(input, Idle, RecordOf(s)) \in 1..(Len(input) + 1) /\ Len(input) \in Nat
    BY <1>3, CloseIndexIs
  <2>2. QED  BY <1>1, <1>2, <2>1
<1>5. /\ s.last_ts \in Nat /\ RecordOf(s).end_ts = s.last_ts
      /\ t.last_ts \in Nat /\ RecordOf(t).end_ts = t.last_ts
  BY <1>2, SessFields
<1>6. s.last_ts < t.last_ts
  BY <1>1, <1>2, <1>3, <1>5
<1>7. QED  BY <1>3, <1>4, <1>5, <1>6 DEF Sooner, EndsFirst

\* The last batch comes after what is written, in the order of the output.
LEMMA LastBatchOrdered ==
    ASSUME CandidateTypeOK, Heard, candidate # "m03", NEW gone \in Seq(Session),
           Lists(gone, Sess \ Live(input, Idle, watermark)), Ordered(input, gone),
           NEW b \in Seq(Session), Lists(b, Live(input, Idle, watermark)),
           \A i, j \in 1..Len(b) : i < j => ~Precedes(Written(b[j]), Written(b[i]))
    PROVE  Ordered(input, gone \o b)
<1> DEFINE L == Live(input, Idle, watermark)
<1>1. /\ Idle \in Nat /\ Idle \in Int /\ watermark \in Nat /\ input \in Seq(Event) /\ Stream(input)
      /\ \A i \in 1..Len(input) : input[i].ts \in Nat /\ input[i].ts <= watermark
      /\ candidate = "m12" => Idle = IdleMs
  BY IdleFacts DEF Heard, Stream
<1>2. \A t \in L : t \in Sess /\ CloseIndex(input, Idle, RecordOf(t)) = Len(input) + 1
  BY LiveIsUnclosed
<1>3. Ordered(input, b)
  <2> SUFFICES ASSUME NEW i \in 1..Len(b), NEW j \in 1..Len(b), i < j
               PROVE  Sooner(input, RecordOf(b[i]), RecordOf(b[j]))
    BY DEF Ordered
  <2> DEFINE s == b[i]
             t == b[j]
  <2>1. s # t /\ s \in L /\ t \in L
    BY DEF Lists, Distinct
  <2>2. ~Precedes(Written(t), Written(s))
    OBVIOUS
  <2> HIDE DEF s, t
  <2>3. s.user # t.user
    BY <1>1, <2>1, LiveUsers
  <2>4. Sooner(input, RecordOf(s), RecordOf(t))
    BY <1>1, <1>2, <2>1, <2>2, <2>3, StrictlySooner
  <2>5. QED  BY <2>4 DEF s, t
<1>4. ASSUME NEW i \in 1..Len(gone), NEW j \in 1..Len(b)
      PROVE  Sooner(input, RecordOf(gone[i]), RecordOf(b[j]))
  <2>1. gone[i] \in Sess \ L /\ b[j] \in L
    BY DEF Lists
  <2>2. QED  BY <2>1, LiveIsLater
<1>5. QED  BY <1>3, <1>4, OrderedConcat

LEMMA EndAccount ==
    ASSUME TypeInv, Account, EndOfInput, candidate \notin Silent
    PROVE  Holdings'
<1>1. /\ CandidateTypeOK /\ open_s \in Seq(Session) /\ closed \in Seq(Session) /\ Heard
      /\ ~done /\ done' /\ candidate' = candidate /\ input' = input
      /\ StreamEnd \/ HoardEnd
  BY DEF TypeInv, CandidateTypeOK, Account, EndOfInput, SilentEnd
<1>2. open_s' = <<>> /\ closed' = <<>> /\ WritesSorted(closed \o open_s)
  BY <1>1, PopsAll DEF StreamEnd, HoardEnd
<1>3. PICK gone \in Seq(Session) : Told(gone)
  BY DEF Account, Holdings
<1>4. Lists(open_s, StillOpen) /\ Lists(gone, Sess \ StillOpen) /\ StillOpen \subseteq Sess
  <2>1. StillOpen \subseteq Sess
    BY DEF StillOpen, Latest, Live, Sess
  <2>2. QED  BY <1>3, <2>1 DEF Account, Holdings, Told
<1>5. StillOpen' = {} /\ (Sess \ StillOpen)' = Sess /\ ~Keeps'
  <2>1. StillOpen' = {} /\ ~Keeps'
    BY <1>1 DEF StillOpen, Keeps
  <2>2. Sess' = Sess
    BY <1>1, SameRules DEF Sess
  <2>3. QED  BY <2>1, <2>2
<1>6. \E g \in Seq(Session) : Lists(g, Sess) /\ out' = Lines(g) /\ Ordered(input, g)
  <2>1. CASE Keeps
    <3>1. /\ closed = gone /\ out = <<>> /\ candidate # "m12"
      BY <1>3, <2>1 DEF Told, Keeps, Hoarding
    <3>2. gone \o open_s \in Seq(Session) /\ Lists(gone \o open_s, Sess)
      <4>1. (Sess \ StillOpen) \cap StillOpen = {} /\ (Sess \ StillOpen) \cup StillOpen = Sess
        BY <1>4
      <4>2. Lists(gone \o open_s, (Sess \ StillOpen) \cup StillOpen)
        BY <1>1, <1>4, <4>1, ListsConcat
      <4>3. gone \o open_s \in Seq(Session)
        BY <1>1
      <4>4. Lists(gone \o open_s, Sess)
        BY ONLY <4>1, <4>2
      <4>5. QED  BY <4>3, <4>4
    <3>3. PICK b \in Seq(Session) :
             /\ Lists(b, Sess)
             /\ out' = out \o Lines(b)
             /\ \A i, j \in 1..Len(b) : i < j => ~Precedes(Written(b[j]), Written(b[i]))
      BY <1>2, <3>1, <3>2, SortedBatch
    <3>4. Ordered(input, b)
      <4> SUFFICES ASSUME NEW i \in 1..Len(b), NEW j \in 1..Len(b), i < j
                   PROVE  Sooner(input, RecordOf(b[i]), RecordOf(b[j]))
        BY DEF Ordered
      <4> DEFINE s == b[i]
                 t == b[j]
      <4>1. s # t /\ s \in Sess /\ t \in Sess
        BY <3>3 DEF Lists, Distinct
      <4>2. ~Precedes(Written(t), Written(s))
        BY <3>3
      <4> HIDE DEF s, t
      <4>3. Sooner(input, RecordOf(s), RecordOf(t))
        BY <1>1, <3>1, <4>1, <4>2, StrictlySooner
      <4>4. QED  BY <4>3 DEF s, t
    <3>5. out' = Lines(b)
      <4>1. Lines(b) \in Seq({Written(s) : s \in Session})
        <5>1. \A i \in 1..Len(b) : Written(b[i]) \in {Written(s) : s \in Session}
          OBVIOUS
        <5>2. QED  BY <5>1 DEF Lines
      <4>2. QED  BY <3>1, <3>3, <4>1
    <3>6. QED  BY <3>3, <3>4, <3>5
  <2>2. CASE ~Keeps
    <3>1. /\ closed = <<>> /\ out = Lines(gone) /\ Ordered(input, gone)
          /\ candidate # "m03" /\ candidate \notin Hoarding
      BY <1>1, <1>3, <2>2 DEF Told, Keeps
    <3>2. StillOpen = Live(input, Idle, watermark)
      BY <1>1, <3>1 DEF StillOpen
    <3>3. closed \o open_s = open_s
      BY <1>1, <3>1
    <3>4. PICK b \in Seq(Session) :
             /\ Lists(b, StillOpen)
             /\ out' = out \o Lines(b)
             /\ \A i, j \in 1..Len(b) : i < j => ~Precedes(Written(b[j]), Written(b[i]))
      BY <1>1, <1>2, <1>4, <3>3, SortedBatch
    <3>5. PICK g : g = gone \o b
      OBVIOUS
    <3>6. Ordered(input, g)
      BY <1>1, <1>4, <3>1, <3>2, <3>4, <3>5, LastBatchOrdered
    <3>7. g \in Seq(Session) /\ Lists(g, Sess)
      <4>1. (Sess \ StillOpen) \cap StillOpen = {} /\ (Sess \ StillOpen) \cup StillOpen = Sess
        BY <1>4
      <4>2. Lists(gone \o b, (Sess \ StillOpen) \cup StillOpen)
        BY <1>4, <3>4, <4>1, ListsConcat
      <4>3. gone \o b \in Seq(Session)
        OBVIOUS
      <4>4. Lists(gone \o b, Sess)
        BY ONLY <4>1, <4>2
      <4>5. QED  BY <3>5, <4>3, <4>4
    <3>8. out' = Lines(g)
      BY <3>1, <3>4, <3>5, LinesConcat
    <3>9. QED  BY <3>6, <3>7, <3>8
  <2>3. QED  BY <2>1, <2>2
<1>7. PICK g \in Seq(Session) : Lists(g, Sess) /\ out' = Lines(g) /\ Ordered(input, g)
  BY <1>6
<1>8. Lists(g, Sess \ StillOpen)' /\ out' = Lines(g)' /\ Ordered(input, g)'
  BY <1>1, <1>5, <1>7, SameRules
<1>9. Told(g)'
  BY <1>2, <1>5, <1>8 DEF Told
<1>10. Lists(open_s, StillOpen)'
  <2>1. Lists(<<>>, {})
    BY DEF Lists, Distinct
  <2>2. QED  BY <1>2, <1>5, <2>1
<1>11. Ascending(open_s)'
  BY <1>2 DEF Ascending
<1>12. QED  BY <1>7, <1>9, <1>10, <1>11 DEF Holdings

LEMMA HeardStep ==
    ASSUME CandidateTypeOK, Heard, NEW e, Reads(e)
    PROVE  Heard'
<1>1. /\ input' = Append(input, e) /\ watermark' = e.ts /\ candidate' = candidate
      /\ Follows(e, input) /\ e \in Event /\ e.ts \in Nat /\ input \in Seq(Event)
  BY IdleFacts DEF Reads, Event
<1>2. /\ Stream(input') /\ Len(input) \in Nat /\ Len(input') = Len(input) + 1
      /\ \A i \in 1..Len(input) : input'[i] = input[i]
      /\ input'[Len(input) + 1] = e
  BY <1>1, StreamAppend DEF Heard
<1>3. \A i \in 1..Len(input') : i \in 1..Len(input) \/ i = Len(input) + 1
  BY <1>2
<1>4. \A i \in 1..Len(input') : input'[i].ts <= watermark'
  BY <1>1, <1>2, <1>3 DEF Follows
<1>5. \E i \in 1..Len(input') : input'[i].ts = watermark'
  <2>1. Len(input) + 1 \in 1..Len(input') /\ input'[Len(input) + 1].ts = watermark'
    BY <1>1, <1>2
  <2>2. QED  BY <2>1
<1>6. QED  BY <1>1, <1>2, <1>4, <1>5 DEF Heard

LEMMA UsersAppend ==
    ASSUME input \in Seq(Event), NEW e \in Event, input' = Append(input, e)
    PROVE  {input'[i].user : i \in 1..Len(input')}
             = {input[i].user : i \in 1..Len(input)} \cup {e.user}
<1>1. /\ Len(input) \in Nat
      /\ Len(input') = Len(input) + 1
      /\ \A i \in 1..Len(input) : input'[i] = input[i]
      /\ input'[Len(input) + 1] = e
  BY AppendAdds
<1>2. ASSUME NEW v
      PROVE  (\E i \in 1..Len(input') : v = input'[i].user)
               <=> v = e.user \/ \E i \in 1..Len(input) : v = input[i].user
  <2>1. \A i \in 1..Len(input') : i \in 1..Len(input) \/ i = Len(input) + 1
    BY <1>1
  <2>2. Len(input) + 1 \in 1..Len(input') /\ 1..Len(input) \subseteq 1..Len(input')
    BY <1>1
  <2>3. QED  BY <1>1, <2>1, <2>2
<1>3. QED  BY <1>2

LEMMA NextEventAccount ==
    ASSUME TypeInv, Account, NEW gap \in Gaps, NEW u \in Users, NEW b \in Sizes, NEW p \in Paths,
           NextEvent(gap, u, b, p)
    PROVE  Account'
<1>1. PICK e : e = [ts |-> watermark + gap, user |-> u, bytes |-> b, path |-> p]
  OBVIOUS
<1>2. CandidateTypeOK /\ Heard /\ e \in Event /\ e.ts \in Nat /\ e.bytes \in Nat /\ watermark <= e.ts
  BY <1>1, EventType DEF TypeInv, Account
<1>3. /\ ~done /\ input' = Append(input, e) /\ watermark' = e.ts
      /\ candidate' = candidate /\ done' = done
      /\ StreamEvent(e) \/ HoardEvent(e) \/ IgnoreEvent(e)
  BY <1>1 DEF NextEvent
<1>4. Follows(e, input)
  <2>1. \A i \in 1..Len(input) : input[i].ts \in Nat /\ input[i].ts <= watermark
    BY <1>2 DEF Heard, Stream
  <2>2. watermark \in Nat
    BY <1>2 DEF CandidateTypeOK
  <2>3. QED  BY <1>2, <2>1, <2>2 DEF Follows
<1>5. Reads(e)
  BY <1>2, <1>3, <1>4 DEF Reads
<1>6. Heard'
  BY <1>2, <1>5, HeardStep
<1>7. candidate' \notin Silent => Holdings'
  BY <1>3, <1>5, StreamAccount, HoardAccount DEF IgnoreEvent
<1>8. candidate' \in Silent => Mute'
  BY <1>3 DEF Account, Mute, StreamEvent, HoardEvent, IgnoreEvent, Streaming, Hoarding, Silent
<1>9. seen' = IF candidate' = "m02" THEN {input'[i].user : i \in 1..Len(input')} ELSE {}
  <2>1. seen' = IF candidate = "m02" THEN seen \cup {e.user} ELSE seen
    BY <1>3 DEF StreamEvent, HoardEvent, IgnoreEvent, Hoarding, Silent
  <2>2. {input'[i].user : i \in 1..Len(input')} = {input[i].user : i \in 1..Len(input)} \cup {e.user}
    BY <1>2, <1>3, UsersAppend DEF CandidateTypeOK
  <2>3. QED  BY <1>3, <2>1, <2>2 DEF Account
<1>10. QED  BY <1>6, <1>7, <1>8, <1>9 DEF Account

LEMMA EndOfInputAccount ==
    ASSUME TypeInv, Account, EndOfInput
    PROVE  Account'
<1>1. UNCHANGED <<candidate, input, watermark>> /\ (StreamEnd \/ HoardEnd \/ SilentEnd)
  BY DEF EndOfInput
<1>2. seen' = seen
  BY <1>1 DEF StreamEnd, HoardEnd, SilentEnd
<1>3. Heard'
  BY <1>1 DEF Account, Heard
<1>4. candidate' \in Silent => Mute'
  <2>1. done' = TRUE
    BY DEF EndOfInput
  <2>2. QED  BY <1>1, <2>1 DEF Account, Mute, StreamEnd, HoardEnd, SilentEnd, Streaming, Hoarding, Silent
<1>5. candidate' \notin Silent => Holdings'
  BY <1>1, EndAccount
<1>6. QED  BY <1>1, <1>2, <1>3, <1>4, <1>5 DEF Account

LEMMA AccountInit ==
    ASSUME CandidateInit, candidate = "m04" => IdleMs > 0
    PROVE  Account
<1>1. /\ input = <<>> /\ watermark = 0 /\ open_s = <<>> /\ closed = <<>> /\ out = <<>>
      /\ seen = {} /\ ~done
  BY DEF CandidateInit, Init
<1>2. Heard
  BY <1>1 DEF Heard, Stream
<1>3. Sess = {} /\ StillOpen = {}
  <2>1. Sess = {}
    BY <1>1, NoSessions DEF Sess
  <2>2. Live(input, Idle, watermark) = {} /\ Latest(Sess) = {}
    BY <2>1 DEF Live, Latest, Sess
  <2>3. QED  BY <2>1, <2>2 DEF StillOpen
<1>4. Lists(<<>>, {})
  BY DEF Lists, Distinct
<1>5. Told(<<>>)
  <2>1. Lines(<<>>) = <<>>
    BY DEF Lines
  <2>2. Ordered(input, <<>>)
    BY DEF Ordered
  <2>3. QED  BY <1>1, <1>3, <1>4, <2>1, <2>2 DEF Told
<1>6. Holdings
  <2>1. Ascending(open_s)
    BY <1>1 DEF Ascending
  <2>2. <<>> \in Seq(Session)
    OBVIOUS
  <2>3. QED  BY <1>1, <1>3, <1>4, <1>5, <2>1, <2>2 DEF Holdings
<1>7. {input[i].user : i \in 1..Len(input)} = {}
  BY <1>1
<1>8. QED  BY <1>1, <1>2, <1>6, <1>7 DEF Account, Mute

LEMMA AccountStutters ==
    ASSUME Account, UNCHANGED candidateVars
    PROVE  Account'
<1>1. UNCHANGED <<input, watermark, open_s, out, done, candidate, closed, seen>>
  BY DEF candidateVars, vars
<1>2. Idle' = Idle /\ Keeps' = Keeps /\ Sess' = Sess /\ StillOpen' = StillOpen
  BY <1>1 DEF Idle, Keeps, Sess, StillOpen, Live
<1>3. ASSUME NEW gone, Told(gone)
      PROVE  Told(gone)'
  BY <1>1, <1>2, <1>3, SameRules DEF Told
<1>4. Holdings => Holdings'
  BY <1>1, <1>2, <1>3 DEF Holdings, Ascending
<1>5. Heard'
  BY <1>1 DEF Account, Heard
<1>6. QED  BY <1>1, <1>4, <1>5 DEF Account, Mute

LEMMA AccountStep ==
    ASSUME TypeInv, Account, [CandidateNext]_candidateVars
    PROVE  Account'
BY NextEventAccount, EndOfInputAccount, AccountStutters DEF CandidateNext, Exited

-----------------------------------------------------------------------------
(* The answer of every candidate *)

\* f is a list of n.
IsList(f, n) == f = [k \in 1..n |-> f[k]]

LEMMA FunctionIsList ==
    ASSUME NEW n \in Nat, NEW f, IsList(f, n)
    PROVE  Len(f) = n /\ f \in Seq({f[k] : k \in 1..n})
<1> DEFINE T == {f[k] : k \in 1..n}
<1>1. f \in [1..n -> T]
  BY DEF IsList
<1> HIDE DEF T
<1>2. Len(f) = n /\ f \in Seq(T)
  BY <1>1
<1>3. QED  BY <1>2 DEF T

LEMMA PrefixIs ==
    ASSUME NEW n \in Nat, NEW q, IsList(q, n), NEW m \in Nat, NEW r, IsList(r, m),
           n <= m, \A k \in 1..n : q[k] = r[k]
    PROVE  IsPrefix(q, r)
<1> DEFINE T == {q[k] : k \in 1..n} \cup {r[k] : k \in 1..m}
<1>1. q \in [1..n -> T] /\ r \in [1..m -> T]
  BY DEF IsList
<1> HIDE DEF T
<1>2. Len(q) = n /\ Len(r) = m /\ q \in Seq(T) /\ r \in Seq(T)
  BY <1>1
<1> DEFINE a == SubSeq(q, 1, n)
           b == SubSeq(r, 1, n)
<1>a. a \in Seq(T) /\ Len(a) = n /\ \A k \in 1..n : a[k] = q[k]
  BY <1>2
<1>b. b \in Seq(T) /\ Len(b) = n /\ \A k \in 1..n : b[k] = r[k]
  BY <1>2
<1> HIDE DEF a, b
<1>3. \A k \in 1..n : a[k] = b[k]
  BY <1>a, <1>b
<1>4. a = b
  BY <1>a, <1>b, <1>3, SeqEqual
<1>5. QED  BY <1>2, <1>4 DEF IsPrefix, a, b

\* The oracle's records in the order of the candidate.
Records == OracleRecords(input, Idle)

Ranked == InOrder(Records, {p \in Records \X Records : Sooner(input, p[1], p[2])})

LEMMA RankedList == IsList(Ranked, Cardinality(Records))
<1> DEFINE before == {p \in Records \X Records : Sooner(input, p[1], p[2])}
           pick(k) == CHOOSE r \in Records : Cardinality({s \in Records : <<s, r>> \in before}) = k - 1
<1>1. Ranked = [k \in 1..Cardinality(Records) |-> pick(k)]
  BY DEF Ranked, InOrder
<1> HIDE DEF pick
<1>2. QED  BY <1>1 DEF IsList

LEMMA RecordFields ==
    ASSUME CandidateTypeOK, Heard, NEW r \in Records
    PROVE  /\ r.user \in Nat /\ r.start_ts \in Nat /\ r.end_ts \in Nat
           /\ \E s \in Sess : r = RecordOf(s)
<1>1. PICK s \in Sess : r = RecordOf(s)
  BY DEF Records, OracleRecords, Sess
<1>2. QED  BY <1>1, SessFields

LEMMA RankedIs ==
    ASSUME CandidateTypeOK, Heard
    PROVE  /\ candidate = "m03" => Ranked = Reordered(StartsFirst)
           /\ candidate = "m12" => Ranked = Reordered(ClosesFirst)
           /\ candidate \notin {"m03", "m12"} => Ranked = Oracle(input, Idle)
<1>1. CASE candidate = "m03"
  <2>1. Idle = IdleMs /\ \A r, s : Sooner(input, r, s) <=> StartsFirst(r, s)
    BY <1>1 DEF Idle, Sooner
  <2>2. QED  BY <1>1, <2>1 DEF Ranked, Records, Reordered
<1>2. CASE candidate = "m12"
  <2>1. Idle = IdleMs /\ \A r, s : Sooner(input, r, s) <=> ClosesFirst(r, s)
    BY <1>2 DEF Idle, Sooner, ClosesFirst, Close
  <2>2. QED  BY <1>2, <2>1 DEF Ranked, Records, Reordered
<1>3. CASE candidate \notin {"m03", "m12"}
  <2>1. \A r, s \in Records : Sooner(input, r, s) <=> ClosesBefore(input, Idle, r, s)
    <3> SUFFICES ASSUME NEW r \in Records, NEW s \in Records
                 PROVE  Sooner(input, r, s) <=> ClosesBefore(input, Idle, r, s)
      OBVIOUS
    <3>1. r.end_ts \in Nat /\ s.end_ts \in Nat
      BY RecordFields
    <3>2. ClosesBefore(input, Idle, r, s) <=> EndsFirst(r, s)
      BY <3>1, IdleFacts, ClosesBeforeIs DEF Heard
    <3>3. QED  BY <1>3, <3>2 DEF Sooner
  <2>2. {p \in Records \X Records : Sooner(input, p[1], p[2])}
          = {p \in Records \X Records : ClosesBefore(input, Idle, p[1], p[2])}
    BY <2>1
  <2>3. QED  BY <1>3, <2>2 DEF Ranked, Records, Oracle
<1>4. QED  BY <1>1, <1>2, <1>3

\* A record of the right answer as the candidate has it.
Changed(r) ==
    CASE candidate = "m05" -> [r EXCEPT !.paths = r.events]
      [] candidate = "m06" -> [r EXCEPT !.bytes = Float(@)]
      [] OTHER -> r

LEMMA WrittenIsChanged ==
    ASSUME NEW s
    PROVE  Written(s) = Changed(RecordOf(s))
<1>1. CASE candidate = "m05"
  BY <1>1, WrittenFields DEF Changed, RecordOf
<1>2. CASE candidate = "m06"
  BY <1>2, WrittenFields DEF Changed, RecordOf
<1>3. CASE candidate # "m05" /\ candidate # "m06"
  BY <1>3, WrittenFields DEF Changed, RecordOf
<1>4. QED  BY <1>1, <1>2, <1>3

LEMMA AnswerIs ==
    ASSUME CandidateTypeOK, Heard, candidate \notin Silent, Ranked = [k \in 1..Len(Ranked) |-> Ranked[k]]
    PROVE  Answer = [k \in 1..Len(Ranked) |-> Changed(Ranked[k])]
<1>1. CASE candidate = "m03"
  <2>1. Answer = Ranked
    BY <1>1, RankedIs DEF Answer
  <2>2. \A r : Changed(r) = r
    BY <1>1 DEF Changed
  <2>3. QED  BY <2>1, <2>2
<1>2. CASE candidate = "m12"
  <2>1. Answer = Ranked
    BY <1>2, RankedIs DEF Answer
  <2>2. \A r : Changed(r) = r
    BY <1>2 DEF Changed
  <2>3. QED  BY <2>1, <2>2
<1>3. CASE candidate = "m04"
  <2>1. Answer = Ranked
    BY <1>3, RankedIs DEF Answer, Idle
  <2>2. \A r : Changed(r) = r
    BY <1>3 DEF Changed
  <2>3. QED  BY <2>1, <2>2
<1>4. CASE candidate = "m05"
  <2>1. Right = Ranked
    BY <1>4, RankedIs DEF Right, Idle
  <2>2. \A r : Changed(r) = [r EXCEPT !.paths = r.events]
    BY <1>4 DEF Changed
  <2>3. QED  BY <1>4, <2>1, <2>2 DEF Answer
<1>5. CASE candidate = "m06"
  <2>1. Right = Ranked
    BY <1>5, RankedIs DEF Right, Idle
  <2>2. \A r : Changed(r) = [r EXCEPT !.bytes = Float(@)]
    BY <1>5 DEF Changed
  <2>3. QED  BY <1>5, <2>1, <2>2 DEF Answer
<1>6. CASE candidate \notin {"m03", "m04", "m05", "m06", "m12"}
  <2>1. Right = Ranked
    BY <1>6, RankedIs DEF Right, Idle
  <2>2. \A r : Changed(r) = r
    BY <1>6 DEF Changed
  <2>3. Answer = Ranked
    BY <1>6, <2>1 DEF Answer, Silent
  <2>4. QED  BY <2>2, <2>3
<1>7. QED  BY <1>1, <1>2, <1>3, <1>4, <1>5, <1>6

\* No candidate's key has two records before each other.
LEMMA SoonerOnce ==
    ASSUME CandidateTypeOK, Heard, NEW r \in Records, NEW s \in Records, Sooner(input, r, s)
    PROVE  ~Sooner(input, s, r)
<1>1. /\ r.user \in Nat /\ r.start_ts \in Nat /\ r.end_ts \in Nat
      /\ s.user \in Nat /\ s.start_ts \in Nat /\ s.end_ts \in Nat
  BY RecordFields
<1>2. CloseIndex(input, IdleMs, r) \in Nat /\ CloseIndex(input, IdleMs, s) \in Nat
  BY IdleFacts, CloseIndexIs
<1>3. CASE candidate = "m03"
  BY <1>1, <1>3 DEF Sooner, StartsFirst
<1>4. CASE candidate = "m12"
  BY <1>1, <1>2, <1>4 DEF Sooner
<1>5. CASE candidate \notin {"m03", "m12"}
  BY <1>1, <1>5 DEF Sooner, EndsFirst
<1>6. QED  BY <1>3, <1>4, <1>5

\* The sessions told of are the first of the order, the live ones come later.
LEMMA GoneLeads ==
    ASSUME CandidateTypeOK, Heard, NEW gone \in Seq(Session), Lists(gone, Sess \ StillOpen),
           ~Keeps, candidate \notin Silent, Ordered(input, gone)
    PROVE  Leads([i \in 1..Len(gone) |-> RecordOf(gone[i])], Len(gone), Records,
                 {p \in Records \X Records : Sooner(input, p[1], p[2])})
<1> DEFINE n == Len(gone)
           q == [i \in 1..n |-> RecordOf(gone[i])]
           before == {p \in Records \X Records : Sooner(input, p[1], p[2])}
<1>1. \A i \in 1..n : gone[i] \in Sess \ StillOpen /\ q[i] = RecordOf(gone[i])
  BY DEF Lists
<1>2. \A s \in Sess : RecordOf(s) \in Records
  BY DEF Records, OracleRecords, Sess
<1>3. \A r, s \in Records : <<r, s>> \in before <=> Sooner(input, r, s)
  OBVIOUS
<1>4. \A i, j \in 1..n : i < j => Sooner(input, q[i], q[j])
  BY <1>1 DEF Ordered
<1>5. ASSUME NEW i \in 1..n, NEW r \in Records, \A j \in 1..n : r # q[j]
      PROVE  Sooner(input, q[i], r)
  <2>1. PICK t \in Sess : r = RecordOf(t)
    BY RecordFields
  <2>2. \A j \in 1..n : t # gone[j]
    BY <1>1, <1>5, <2>1
  <2>3. t \in StillOpen
    BY <2>1, <2>2 DEF Lists
  <2>4. ~done /\ candidate \notin Hoarding /\ candidate # "m03"
    BY <2>3 DEF StillOpen, Keeps
  <2>5. StillOpen = Live(input, Idle, watermark)
    BY <2>4 DEF StillOpen
  <2> DEFINE s == gone[i]
  <2>6. s \in Sess \ Live(input, Idle, watermark) /\ q[i] = RecordOf(s)
    BY <1>1, <2>5
  <2>7. t \in Live(input, Idle, watermark)
    BY <2>3, <2>5
  <2> HIDE DEF s, q
  <2>8. Sooner(input, RecordOf(s), RecordOf(t))
    BY <2>4, <2>6, <2>7, LiveIsLater
  <2>9. QED  BY <2>1, <2>6, <2>8
<1>6. ASSUME NEW r \in Records, NEW s \in Records, Sooner(input, r, s)
      PROVE  ~Sooner(input, s, r)
  BY <1>6, SoonerOnce
<1>7. n \in Nat
  OBVIOUS
<1> HIDE DEF n, q, before
<1>8. \A i \in 1..n : q[i] \in Records
  BY <1>1, <1>2
<1>9. /\ \A i, j \in 1..n : i < j => <<q[i], q[j]>> \in before
      /\ \A i \in 1..n : \A r \in Records : (\A j \in 1..n : r # q[j]) => <<q[i], r>> \in before
      /\ \A r, s \in Records : <<r, s>> \in before => <<s, r>> \notin before
  BY <1>3, <1>4, <1>5, <1>6, <1>8
<1>10. Precede(q, n, Records, before)
  BY <1>8, <1>9 DEF Precede
<1>11. Leads(q, n, Records, before)
  BY <1>7, <1>10, PrecedeLeads
<1>12. QED  BY <1>11 DEF n, q, before

\* The account is of as many sessions as there are records.
LEMMA AccountCounts ==
    ASSUME CandidateTypeOK, Heard, Lists(open_s, StillOpen),
           NEW gone \in Seq(Session), Lists(gone, Sess \ StillOpen)
    PROVE  Cardinality(Records) = Len(gone) + Len(open_s) /\ IsFiniteSet(Records)
<1>1. open_s \in Seq(Session) /\ input \in Seq(Event) /\ Idle \in Nat /\ Stream(input)
  BY IdleFacts DEF CandidateTypeOK, Heard
<1>2. StillOpen \subseteq Sess
  BY DEF StillOpen, Latest, Live, Sess
<1>3. (Sess \ StillOpen) \cap StillOpen = {} /\ (Sess \ StillOpen) \cup StillOpen = Sess
  BY <1>2
<1>4. PICK q : q = gone \o open_s
  OBVIOUS
<1>5. Lists(q, (Sess \ StillOpen) \cup StillOpen)
  BY <1>1, <1>3, <1>4, ListsConcat
<1>6. Len(q) = Len(gone) + Len(open_s) /\ Len(q) \in Nat
  BY <1>1, <1>4
<1>7. Distinct(q, Len(q)) /\ \A s : s \in OracleSessions(input, Idle) <=> \E i \in 1..Len(q) : s = q[i]
  BY <1>3, <1>5 DEF Lists, Sess
<1>8. Cardinality(OracleRecords(input, Idle)) = Len(q)
  BY <1>1, <1>6, <1>7, CountRecords
<1>9. QED  BY <1>1, <1>6, <1>8, SessionsFinite DEF Records

\* The line of a session told of is at the place of its record in the order.
LEMMA ToldLines ==
    ASSUME CandidateTypeOK, Heard, candidate \notin Silent, ~Keeps, Lists(open_s, StillOpen),
           NEW gone \in Seq(Session), Told(gone)
    PROVE  /\ Len(gone) <= Cardinality(Records)
           /\ \A k \in 1..Len(gone) : Ranked[k] = RecordOf(gone[k])
           /\ IsList(out, Len(gone))
           /\ \A k \in 1..Len(gone) : out[k] = Written(gone[k])
<1>1. out = Lines(gone) /\ Ordered(input, gone) /\ Lists(gone, Sess \ StillOpen)
  BY DEF Told
<1>2. IsFiniteSet(Records)
  BY <1>1, AccountCounts
<1> DEFINE n == Len(gone)
           q == [i \in 1..n |-> RecordOf(gone[i])]
           before == {p \in Records \X Records : Sooner(input, p[1], p[2])}
<1>3. Leads(q, n, Records, before)
  BY <1>1, GoneLeads
<1>4. Ranked = InOrder(Records, before) /\ (\A k \in 1..n : q[k] = RecordOf(gone[k])) /\ n \in Nat
  BY DEF Ranked
<1>5. IsList(out, n) /\ \A k \in 1..n : out[k] = Written(gone[k])
  BY <1>1 DEF Lines, IsList
<1> HIDE DEF n, q, before
<1>6. n <= Cardinality(Records)
  BY <1>2, <1>3, <1>4, InOrderBegins
<1>7. \A k \in 1..n : InOrder(Records, before)[k] = q[k]
  BY <1>2, <1>3, <1>4, InOrderBegins
<1>8. QED  BY <1>4, <1>5, <1>6, <1>7 DEF n

LEMMA AccountAgrees ==
    ASSUME CandidateTypeOK, Account
    PROVE  AgreesWithOracle
<1> SUFFICES ASSUME candidate \notin Silent
             PROVE  IsPrefix(out, Answer) /\ Len(Answer) = Len(out) + Len(open_s) + Len(closed)
  BY DEF AgreesWithOracle
<1>1. Heard /\ Lists(open_s, StillOpen)
  BY DEF Account, Holdings
<1>2. PICK gone \in Seq(Session) : Told(gone)
  BY DEF Account, Holdings
<1> DEFINE n == Len(gone)
           m == Cardinality(Records)
<1>3. m = n + Len(open_s) /\ IsFiniteSet(Records) /\ n \in Nat /\ Len(open_s) \in Nat
  <2>1. Lists(gone, Sess \ StillOpen)
    BY <1>2 DEF Told
  <2>2. m = n + Len(open_s) /\ IsFiniteSet(Records)
    BY <1>1, <2>1, AccountCounts
  <2>3. n \in Nat /\ Len(open_s) \in Nat
    BY DEF CandidateTypeOK
  <2>4. QED  BY <2>2, <2>3
<1> HIDE DEF m
<1>4. m \in Nat
  BY <1>3
<1>5. Ranked = [k \in 1..m |-> Ranked[k]]
  BY RankedList DEF IsList, m
<1>6. Len(Ranked) = m
  BY <1>4, <1>5, FunctionIsList DEF IsList
<1>7. Answer = [k \in 1..m |-> Changed(Ranked[k])]
  BY <1>1, <1>5, <1>6, AnswerIs
<1>8. IsList(Answer, m) /\ \A k \in 1..m : Answer[k] = Changed(Ranked[k])
  <2>1. \A k \in 1..m : Answer[k] = Changed(Ranked[k])
    BY <1>7
  <2>2. QED  BY <1>7, <2>1 DEF IsList
<1> HIDE DEF n
<1>9. Len(Answer) = m
  BY <1>4, <1>8, FunctionIsList
<1>10. CASE Keeps
  <2>1. closed = gone /\ out = <<>>
    BY <1>2, <1>10 DEF Told
  <2>2. IsPrefix(out, Answer)
    <3>1. IsList(out, 0) /\ 0 \in Nat /\ 0 <= m
      BY <1>4, <2>1 DEF IsList
    <3>2. \A k \in 1..0 : out[k] = Answer[k]
      OBVIOUS
    <3>3. QED  BY <1>4, <1>8, <3>1, <3>2, PrefixIs
  <2>3. QED  BY <1>3, <1>9, <2>1, <2>2 DEF n
<1>11. CASE ~Keeps
  <2>1. closed = <<>>
    BY <1>2, <1>11 DEF Told
  <2>2. n <= m /\ \A k \in 1..n : Ranked[k] = RecordOf(gone[k])
    BY <1>1, <1>2, <1>11, ToldLines DEF n, m
  <2>3. IsList(out, n) /\ \A k \in 1..n : out[k] = Written(gone[k])
    BY <1>1, <1>2, <1>11, ToldLines DEF n
  <2>5. \A k \in 1..n : out[k] = Answer[k]
    <3> TAKE k \in 1..n
    <3>1. k \in 1..m
      BY <1>3, <2>2
    <3>2. QED  BY <1>8, <2>2, <2>3, <3>1, WrittenIsChanged
  <2>6. IsPrefix(out, Answer)
    BY <1>3, <1>4, <1>8, <2>2, <2>3, <2>5, PrefixIs
  <2>7. Len(out) = n /\ Len(closed) = 0
    BY <1>3, <2>1, <2>3, FunctionIsList
  <2>8. QED  BY <1>3, <1>9, <2>6, <2>7
<1>12. QED  BY <1>10, <1>11

-----------------------------------------------------------------------------
(* What every candidate holds *)

\* Every user heard of has a session, and a live one when heard of within Idle.
LEMMA UsersOfSessions ==
    ASSUME CandidateTypeOK, Heard
    PROVE  /\ {s.user : s \in Sess} = SeenUsers(0)
           /\ {s.user : s \in Live(input, Idle, watermark)} = SeenUsers(watermark - Idle)
           /\ {input[i].user : i \in 1..Len(input)} = SeenUsers(0)
<1>1. /\ Idle \in Nat /\ Idle \in Int /\ watermark \in Nat /\ input \in Seq(Event) /\ Stream(input)
      /\ \A i \in 1..Len(input) : input[i].ts \in Nat
  BY IdleFacts DEF Heard, Stream
<1>2. \A i : i \in {m \in 1..Len(input) : input[m].ts >= 0} <=> i \in 1..Len(input)
  BY <1>1
<1>3. \A s \in Sess : s.last_ts \in Nat /\ \E j \in 1..Len(input) : s.user = input[j].user /\ s.last_ts = input[j].ts
  BY <1>1, SessionsAre, SessFields DEF Sess
<1>4. \A j \in 1..Len(input) : \E s \in Sess : s.user = input[j].user /\ input[j].ts <= s.last_ts
  BY <1>1, EventInSession DEF Sess
<1>5. {s.user : s \in Sess} = SeenUsers(0)
  <2>1. SeenUsers(0) = {input[i].user : i \in 1..Len(input)}
    BY <1>2 DEF SeenUsers
  <2>2. \A v : (\E s \in Sess : v = s.user) <=> \E j \in 1..Len(input) : v = input[j].user
    BY <1>3, <1>4
  <2>3. QED  BY <2>1, <2>2
<1>6. \A s : s \in Live(input, Idle, watermark) <=> s \in Sess /\ watermark <= s.last_ts + Idle
  BY DEF Live, Sess
<1>7. ASSUME NEW s \in Live(input, Idle, watermark)
      PROVE  s.user \in SeenUsers(watermark - Idle)
  <2>1. PICK j \in 1..Len(input) : s.user = input[j].user /\ s.last_ts = input[j].ts
    BY <1>3, <1>6
  <2>2. input[j].ts >= watermark - Idle
    BY <1>1, <1>6, <2>1
  <2>3. QED  BY <2>1, <2>2 DEF SeenUsers
<1>8. ASSUME NEW j \in 1..Len(input), input[j].ts >= watermark - Idle
      PROVE  \E s \in Live(input, Idle, watermark) : s.user = input[j].user
  <2>1. PICK s \in Sess : s.user = input[j].user /\ input[j].ts <= s.last_ts
    BY <1>4
  <2>2. watermark <= s.last_ts + Idle
    BY <1>1, <1>3, <1>8, <2>1
  <2>3. QED  BY <1>6, <2>1, <2>2
<1>9. {s.user : s \in Live(input, Idle, watermark)} = SeenUsers(watermark - Idle)
  BY <1>7, <1>8 DEF SeenUsers
<1>10. {input[i].user : i \in 1..Len(input)} = SeenUsers(0)
  BY <1>2 DEF SeenUsers
<1>11. QED  BY <1>5, <1>9, <1>10

\* The users of a list are those of the set.
LEMMA UsersOfList ==
    ASSUME NEW q, NEW S, Lists(q, S)
    PROVE  {q[i].user : i \in 1..Len(q)} = {s.user : s \in S}
BY DEF Lists

LEMMA AccountHolds ==
    ASSUME CandidateTypeOK, Account
    PROVE  HeldAsDeclared
<1> SUFFICES ASSUME ~done
             PROVE  HeldAsDeclared
  BY DEF HeldAsDeclared
<1> DEFINE opened == {open_s[i].user : i \in 1..Len(open_s)}
           ended  == {closed[i].user : i \in 1..Len(closed)}
<1>1. Held = seen \cup opened \cup ended
  BY DEF Held
<1>2. CASE candidate \in Silent
  <2>1. open_s = <<>> /\ closed = <<>> /\ seen = {}
    BY <1>2 DEF Account, Mute, Silent
  <2>2. opened = {} /\ ended = {}
    BY <2>1
  <2>3. QED  BY <1>1, <1>2, <2>1, <2>2 DEF HeldAsDeclared, Silent
<1>3. CASE candidate \notin Silent
  <2>1. Heard /\ Lists(open_s, StillOpen)
    BY <1>3 DEF Account, Holdings
  <2>2. PICK gone \in Seq(Session) : Told(gone)
    BY <1>3 DEF Account, Holdings
  <2>3. Lists(gone, Sess \ StillOpen) /\ StillOpen \subseteq Sess
    BY <2>2 DEF Told, StillOpen, Latest, Live, Sess
  <2>4. opened = {s.user : s \in StillOpen}
    BY <2>1, UsersOfList
  <2>5. /\ {s.user : s \in Sess} = SeenUsers(0)
        /\ {s.user : s \in Live(input, Idle, watermark)} = SeenUsers(watermark - Idle)
        /\ {input[i].user : i \in 1..Len(input)} = SeenUsers(0)
    BY <2>1, UsersOfSessions
  <2>6. CASE Keeps
    <3>1. ended = {s.user : s \in Sess \ StillOpen}
      BY <2>2, <2>3, <2>6, UsersOfList DEF Told
    <3>2. seen = {} /\ candidate \in {"m01", "m09", "m03"}
      BY <2>6 DEF Account, Keeps, Hoarding
    <3>3. opened \cup ended = {s.user : s \in Sess}
      BY <2>3, <2>4, <3>1
    <3>4. Held = SeenUsers(0)
      BY <1>1, <2>5, <3>2, <3>3
    <3>5. QED  BY <3>2, <3>4 DEF HeldAsDeclared
  <2>7. CASE ~Keeps
    <3>1. closed = <<>> /\ candidate \notin {"m01", "m03", "m09"} /\ candidate \notin Hoarding
      BY <2>2, <2>7 DEF Told, Keeps, Hoarding
    <3>2. ended = {}
      BY <3>1
    <3>3. StillOpen = Live(input, Idle, watermark)
      BY <3>1 DEF StillOpen
    <3>4. opened = SeenUsers(watermark - Idle)
      BY <2>4, <2>5, <3>3
    <3>5. CASE candidate = "m02"
      <4>1. seen = SeenUsers(0) /\ opened \subseteq SeenUsers(0)
        BY <2>3, <2>4, <2>5, <3>5 DEF Account
      <4>2. QED  BY <1>1, <3>2, <3>5, <4>1 DEF HeldAsDeclared
    <3>6. CASE candidate # "m02"
      <4>1. seen = {}
        BY <3>6 DEF Account
      <4>2. Held = SeenUsers(watermark - Idle)
        BY <1>1, <3>2, <3>4, <4>1
      <4>3. CASE candidate = "m04"
        <5>1. watermark - Idle = watermark - IdleMs + 1
          BY <2>1, <4>3, IdleFacts DEF Idle
        <5>2. QED  BY <4>2, <4>3, <5>1 DEF HeldAsDeclared, Silent
      <4>4. CASE candidate # "m04"
        <5>1. Idle = IdleMs
          BY <4>4 DEF Idle
        <5>2. QED  BY <1>3, <3>1, <3>6, <4>2, <4>4, <5>1 DEF HeldAsDeclared
      <4>5. QED  BY <4>3, <4>4
    <3>7. QED  BY <3>5, <3>6
  <2>8. QED  BY <2>6, <2>7
<1>4. QED  BY <1>2, <1>3

-----------------------------------------------------------------------------
(* How every candidate fails *)

\* A candidate that has read its input and ended: gone lists the sessions it found,
\* in its order, and its lines are theirs.
Outcome(gone) ==
    /\ Lists(gone, Sess)
    /\ Ordered(input, gone)
    /\ Len(gone) \in Nat /\ Len(gone) = Cardinality(Records)
    /\ IsList(out, Len(gone)) /\ IsList(Ranked, Len(gone))
    /\ Len(out) = Len(gone)
    /\ \A k \in 1..Len(gone) : /\ gone[k] \in Sess
                               /\ out[k] = Written(gone[k])
                               /\ out[k] = Changed(Ranked[k])
                               /\ Ranked[k] = RecordOf(gone[k])

LEMMA DoneOutcome ==
    ASSUME CandidateTypeOK, Account, done, candidate \notin Silent
    PROVE  \E gone \in Seq(Session) : Outcome(gone)
<1>1. Heard /\ Lists(open_s, StillOpen)
  BY DEF Account, Holdings
<1>2. PICK gone \in Seq(Session) : Told(gone)
  BY DEF Account, Holdings
<1>3. StillOpen = {} /\ ~Keeps
  BY DEF StillOpen, Keeps
<1>4. Lists(gone, Sess) /\ Ordered(input, gone)
  <2>1. Sess \ StillOpen = Sess
    BY <1>3
  <2>2. Lists(gone, Sess \ StillOpen) /\ Ordered(input, gone)
    BY <1>2, <1>3 DEF Told
  <2>3. QED  BY ONLY <2>1, <2>2
<1>5. Lists(gone, Sess \ StillOpen)
  BY <1>2 DEF Told
<1>6. Cardinality(Records) = Len(gone) + Len(open_s)
  BY <1>1, <1>5, AccountCounts
<1>7. Len(open_s) = 0 /\ Len(gone) \in Nat
  <2>1. Len(open_s) \in Nat
    BY DEF CandidateTypeOK
  <2>2. \A i \in 1..Len(open_s) : FALSE
    BY <1>1, <1>3 DEF Lists
  <2>3. Len(open_s) > 0 => 1 \in 1..Len(open_s)
    BY <2>1
  <2>4. QED  BY <2>1, <2>2, <2>3
<1>8. Len(gone) = Cardinality(Records)
  BY <1>6, <1>7
<1>9. IsList(Ranked, Len(gone))
  BY <1>8, RankedList
<1>10. /\ \A k \in 1..Len(gone) : Ranked[k] = RecordOf(gone[k])
       /\ IsList(out, Len(gone))
       /\ \A k \in 1..Len(gone) : out[k] = Written(gone[k])
  BY <1>1, <1>2, <1>3, ToldLines
<1>11. Len(out) = Len(gone)
  BY <1>7, <1>10, FunctionIsList
<1>12. \A k \in 1..Len(gone) : gone[k] \in Sess
  BY <1>4 DEF Lists
<1>13. \A k \in 1..Len(gone) : out[k] = Changed(Ranked[k])
  BY <1>10, WrittenIsChanged
<1>14. QED  BY <1>4, <1>7, <1>8, <1>9, <1>10, <1>11, <1>12, <1>13 DEF Outcome

LEMMA EqualLists ==
    ASSUME NEW n, NEW f, NEW g, IsList(f, n), IsList(g, n)
    PROVE  f = g <=> \A k \in 1..n : f[k] = g[k]
BY DEF IsList

\* The right answer has every record of the right idle time in one place.
LEMMA RightIs ==
    ASSUME CandidateTypeOK, Heard
    PROVE  LET R == OracleRecords(input, IdleMs)
               n == Cardinality(R)
           IN  /\ n \in Nat /\ IsList(Right, n) /\ Len(Right) = n
               /\ \A k \in 1..n : Right[k] \in R
               /\ \A k \in 1..n : Right[k] # NoRecord
               /\ Distinct(Right, n)
               /\ \A r \in R : \E k \in 1..n : Right[k] = r
<1> DEFINE R == OracleRecords(input, IdleMs)
           n == Cardinality(R)
<1>1. IdleMs \in Nat /\ IdleMs \in Int /\ input \in Seq(Event) /\ Stream(input)
  BY IdleFacts DEF Heard
<1>2. \A i \in 1..Len(input) : input[i].user \in Nat
  <2>1. \A i \in 1..Len(input) : input[i] \in Event
    BY <1>1
  <2>2. QED  BY <2>1, SessionAssumption DEF Event
<1>3. OraclePlaced(input, IdleMs)
  BY <1>1, <1>2, OracleListsRecords
<1>4. /\ n \in Nat /\ IsList(Right, n)
      /\ \A k \in 1..n : Right[k] \in R
      /\ Distinct(Right, n)
      /\ \A r \in R : \E k \in 1..n : Right[k] = r
  BY <1>3 DEF OraclePlaced, Right, IsList
<1>5. \A r \in R : r # NoRecord
  <2> SUFFICES ASSUME NEW s \in OracleSessions(input, IdleMs)
               PROVE  RecordOf(s) # NoRecord
    BY DEF OracleRecords
  <2>1. s.n_events \in Nat \ {0}
    BY <1>1, SessionsAre DEF Shaped
  <2>2. RecordOf(s).events = s.n_events /\ NoRecord.events = 0
    BY DEF RecordOf, NoRecord
  <2>3. QED  BY <2>1, <2>2
<1> HIDE DEF n
<1>6. Len(Right) = n
  BY <1>4, FunctionIsList
<1>7. QED  BY <1>4, <1>5, <1>6 DEF n

\* Sessions are found exactly where there are events.
LEMMA SomeRecord ==
    ASSUME CandidateTypeOK, Heard
    PROVE  /\ input # <<>> <=> OracleRecords(input, IdleMs) # {}
           /\ input # <<>> <=> Right # <<>>
<1>1. IdleMs \in Nat /\ IdleMs \in Int /\ input \in Seq(Event) /\ Stream(input)
  BY IdleFacts DEF Heard
<1>2. input # <<>> => 1 \in 1..Len(input)
  BY <1>1
<1>3. input # <<>> => OracleSessions(input, IdleMs) # {}
  BY <1>1, <1>2, EventInSession
<1>4. input = <<>> => OracleSessions(input, IdleMs) = {}
  BY NoSessions
<1>5. input # <<>> <=> OracleRecords(input, IdleMs) # {}
  BY <1>3, <1>4 DEF OracleRecords
<1> DEFINE R == OracleRecords(input, IdleMs)
           n == Cardinality(R)
<1>6. /\ n \in Nat /\ Len(Right) = n
      /\ \A k \in 1..n : Right[k] \in R
      /\ \A r \in R : \E k \in 1..n : Right[k] = r
      /\ IsList(Right, n)
  BY RightIs
<1> HIDE DEF n
<1>7. Right = <<>> => R = {}
  BY <1>6
<1>8. R = {} => Right = <<>>
  <2>1. ASSUME R = {}
        PROVE  n = 0
    <3>1. n > 0 => 1 \in 1..n
      BY <1>6
    <3>2. QED  BY <1>6, <2>1, <3>1
  <2>2. n = 0 => Right = <<>>
    <3>1. IsList(<<>>, 0)
      BY DEF IsList
    <3>2. QED  BY <1>6, <3>1 DEF IsList
  <2>3. QED  BY <2>1, <2>2
<1>9. QED  BY <1>5, <1>7, <1>8

\* Two events of one user are in one session of the right answer unless another
\* starts between them.
LEMMA SameSessionIs ==
    ASSUME CandidateTypeOK, Heard, NEW i \in 1..Len(input), NEW j \in 1..Len(input), i < j
    PROVE  SameSession(i, j) <=> \E x \in StartsOf(input, IdleMs) :
                                    /\ i \in Members(input, IdleMs, x)
                                    /\ j \in Members(input, IdleMs, x)
<1>1. IdleMs \in Nat /\ IdleMs \in Int /\ input \in Seq(Event) /\ Stream(input)
  BY IdleFacts DEF Heard
<1> DEFINE u == input[i].user
           between(m) == m \in (i + 1)..j /\ input[m].user = u
<1>2. ASSUME NEW m, between(m)
      PROVE  ~Starts(input, IdleMs, m) <=>
               \E n \in i..(m - 1) : input[n].user = u /\ input[m].ts - input[n].ts <= IdleMs
  <2>1. m \in 1..Len(input)
    BY <1>1, <1>2
  <2>2. Starts(input, IdleMs, m) <=>
          \A n \in 1..Len(input) : n < m /\ input[n].user = u => input[m].ts - input[n].ts > IdleMs
    BY <1>1, <1>2, <2>1, StartsIs
  <2>3. \A n \in 1..Len(input) : input[n].ts \in Nat /\ input[m].ts - input[n].ts \in Int
    BY <2>1, <1>1 DEF Stream
  <2>4. \A n \in i..(m - 1) : n \in 1..Len(input) /\ n < m
    BY <2>1, <1>1
  <2>5. ASSUME NEW n \in 1..Len(input), n < m, input[n].user = u,
               ~(input[m].ts - input[n].ts > IdleMs)
        PROVE  \E k \in i..(m - 1) : input[k].user = u /\ input[m].ts - input[k].ts <= IdleMs
    <3>1. input[m].ts - input[n].ts <= IdleMs
      BY <1>1, <2>3, <2>5
    <3>2. CASE n >= i
      <4>1. n \in i..(m - 1)
        BY <2>1, <2>5, <3>2
      <4>2. QED  BY <2>5, <3>1, <4>1
    <3>3. CASE ~(n >= i)
      <4>1. i \in i..(m - 1) /\ input[n].ts <= input[i].ts
        BY <1>1, <1>2, <2>1, <3>3 DEF Stream
      <4>2. input[m].ts - input[i].ts <= IdleMs
        BY <1>1, <2>1, <2>3, <3>1, <4>1, SMTT(30)
      <4>3. QED  BY <4>1, <4>2
    <3>4. QED  BY <3>2, <3>3
  <2>6. QED  BY <1>1, <2>2, <2>3, <2>4, <2>5
<1>3. SameSession(i, j) <=>
        input[j].user = u /\ \A m : between(m) => ~Starts(input, IdleMs, m)
  <2>1. SameSession(i, j) <=>
          /\ input[j].user = u
          /\ \A m : between(m) => \E n \in i..(m - 1) : /\ input[n].user = u
                                                       /\ input[m].ts - input[n].ts <= IdleMs
    BY DEF SameSession
  <2> HIDE DEF between
  <2>2. QED  BY <1>2, <2>1
<1>4. ASSUME NEW x \in StartsOf(input, IdleMs),
             i \in Members(input, IdleMs, x), j \in Members(input, IdleMs, x)
      PROVE  SameSession(i, j)
  <2>1. /\ x \in Nat /\ x <= i /\ input[i].user = input[x].user
        /\ input[j].user = input[x].user
        /\ \A n \in ByUser(input, input[x].user) : x < n /\ n <= j => ~Starts(input, IdleMs, n)
    BY <1>4 DEF Members, ByUser, StartsOf
  <2>2. ASSUME NEW m, between(m)
        PROVE  m \in ByUser(input, input[x].user) /\ x < m /\ m <= j
    BY <2>1, <2>2, <1>1 DEF ByUser
  <2>3. QED  BY <1>3, <2>1, <2>2
<1>5. ASSUME SameSession(i, j)
      PROVE  \E x \in StartsOf(input, IdleMs) :
                i \in Members(input, IdleMs, x) /\ j \in Members(input, IdleMs, x)
  <2>1. PICK x \in StartsOf(input, IdleMs) : i \in Members(input, IdleMs, x)
    BY <1>1, SomeSession
  <2>2. /\ x \in Nat /\ x <= i /\ input[i].user = input[x].user
        /\ \A n \in ByUser(input, input[x].user) : x < n /\ n <= i => ~Starts(input, IdleMs, n)
    BY <2>1 DEF Members, ByUser, StartsOf
  <2>3. input[j].user = input[x].user /\ x <= j
    BY <1>3, <1>5, <2>2
  <2>4. ASSUME NEW n \in ByUser(input, input[x].user), x < n, n <= j
        PROVE  ~Starts(input, IdleMs, n)
    <3>1. n \in 1..Len(input) /\ input[n].user = u
      BY <2>2 DEF ByUser
    <3>2. n <= i \/ between(n)
      BY <2>4, <3>1
    <3>3. QED  BY <1>3, <1>5, <2>2, <2>4, <3>2
  <2>5. j \in Members(input, IdleMs, x)
    BY <2>3, <2>4 DEF Members, ByUser
  <2>6. QED  BY <2>1, <2>5
<1>6. QED  BY <1>4, <1>5

\* The right answer is the candidate's but for its changes, unless its idle time or
\* its order is another.
LEMMA RightIsRanked ==
    ASSUME CandidateTypeOK, Heard, NEW gone \in Seq(Session), Outcome(gone),
           candidate \notin {"m03", "m04", "m12"}
    PROVE  /\ Right = Ranked /\ Idle = IdleMs
           /\ out = Right <=> \A k \in 1..Len(gone) : Changed(RecordOf(gone[k])) = RecordOf(gone[k])
<1>1. Idle = IdleMs
  BY DEF Idle
<1>2. Right = Ranked
  BY <1>1, RankedIs DEF Right
<1>3. /\ IsList(out, Len(gone)) /\ IsList(Ranked, Len(gone))
      /\ \A k \in 1..Len(gone) : out[k] = Changed(RecordOf(gone[k])) /\ Ranked[k] = RecordOf(gone[k])
  BY DEF Outcome
<1>4. out = Ranked <=> \A k \in 1..Len(gone) : out[k] = Ranked[k]
  BY <1>3, EqualLists
<1>5. QED  BY <1>1, <1>2, <1>3, <1>4

\* The candidates that are right.
LEMMA NeverWrong ==
    ASSUME CandidateTypeOK, Heard, NEW gone \in Seq(Session), Outcome(gone),
           candidate \in {"reference", "m01", "m02", "m09"}
    PROVE  out # Right <=> Provoked
<1>1. \A r : Changed(r) = r
  BY DEF Changed
<1>2. out = Right
  BY <1>1, RightIsRanked
<1>3. ~Provoked
  BY DEF Provoked
<1>4. QED  BY <1>2, <1>3

LEMMA WrongWithFloats ==
    ASSUME CandidateTypeOK, Heard, NEW gone \in Seq(Session), Outcome(gone), candidate = "m06"
    PROVE  out # Right <=> Provoked
<1>1. ASSUME NEW k \in 1..Len(gone)
      PROVE  Changed(RecordOf(gone[k])) # RecordOf(gone[k])
  <2>1. gone[k] \in Sess
    BY DEF Outcome
  <2>2. RecordOf(gone[k]).bytes \in Nat
    BY <2>1, SessFields DEF RecordOf
  <2>3. Changed(RecordOf(gone[k])).bytes = Float(RecordOf(gone[k]).bytes)
    BY DEF Changed, RecordOf
  <2>4. Float(RecordOf(gone[k]).bytes) # RecordOf(gone[k]).bytes
    BY <2>2 DEF Float
  <2>5. QED  BY <2>3, <2>4
<1>2. out = Right <=> Len(gone) = 0
  <2>1. Len(gone) \in Nat
    BY DEF Outcome
  <2>2. Len(gone) # 0 <=> 1 \in 1..Len(gone)
    BY <2>1
  <2>3. QED  BY <1>1, <2>2, RightIsRanked
<1>3. Len(gone) = 0 <=> Right = <<>>
  <2>1. Right = Ranked /\ IsList(Ranked, Len(gone)) /\ Len(gone) \in Nat
    BY RightIsRanked DEF Outcome
  <2>2. Len(Right) = Len(gone)
    BY <2>1, FunctionIsList
  <2>3. Len(gone) = 0 => Right = <<>>
    <3>1. IsList(<<>>, 0)
      BY DEF IsList
    <3>2. QED  BY <2>1, <3>1 DEF IsList
  <2>4. QED  BY <2>2, <2>3
<1>4. Provoked <=> input # <<>>
  BY DEF Provoked
<1>5. QED  BY <1>2, <1>3, <1>4, SomeRecord

\* m05 counts a session's events as its paths.
LEMMA WrongWithPaths ==
    ASSUME CandidateTypeOK, Heard, NEW gone \in Seq(Session), Outcome(gone), candidate = "m05"
    PROVE  out # Right <=> Provoked
<1>1. IdleMs \in Nat /\ IdleMs \in Int /\ input \in Seq(Event) /\ Stream(input)
  BY IdleFacts DEF Heard
<1>2. Sess = OracleSessions(input, IdleMs)
  BY RightIsRanked DEF Sess
<1>3. \A k \in 1..Len(gone) :
         Changed(RecordOf(gone[k])) = RecordOf(gone[k])
           <=> Cardinality(gone[k].paths) = gone[k].n_events
  BY DEF Changed, RecordOf
<1>4. out # Right <=> \E s \in Sess : Cardinality(s.paths) # s.n_events
  <2>1. \A s : s \in Sess <=> \E k \in 1..Len(gone) : s = gone[k]
    BY DEF Outcome, Lists
  <2>2. out # Right <=> \E k \in 1..Len(gone) : Cardinality(gone[k].paths) # gone[k].n_events
    BY <1>3, RightIsRanked
  <2>3. QED  BY <2>1, <2>2
<1> DEFINE repeats(x) == \E i, j \in Members(input, IdleMs, x) : i # j /\ input[i].path = input[j].path
<1>5. out # Right <=> \E x \in StartsOf(input, IdleMs) : repeats(x)
  <2>1. \A x \in StartsOf(input, IdleMs) : x \in 1..Len(input)
    BY DEF StartsOf
  <2>2. \A x \in 1..Len(input) : repeats(x) <=>
            Cardinality(SessionAt(input, IdleMs, x).paths) # SessionAt(input, IdleMs, x).n_events
    BY <1>1, PathsRepeat
  <2>3. \A s : s \in Sess <=> \E x \in StartsOf(input, IdleMs) : s = SessionAt(input, IdleMs, x)
    BY <1>2 DEF OracleSessions, StartsOf
  <2> HIDE DEF repeats
  <2>4. QED  BY <1>4, <2>1, <2>2, <2>3
<1>6. \A x \in StartsOf(input, IdleMs) : repeats(x) <=>
         \E i, j \in Members(input, IdleMs, x) : i < j /\ input[i].path = input[j].path
  <2> TAKE x \in StartsOf(input, IdleMs)
  <2>1. \A i \in Members(input, IdleMs, x) : i \in Nat
    BY DEF Members, ByUser
  <2>2. \A i, j \in Members(input, IdleMs, x) : i # j <=> i < j \/ j < i
    BY <2>1
  <2>3. QED  BY <2>2
<1>7. \A x \in StartsOf(input, IdleMs) : \A i \in Members(input, IdleMs, x) : i \in 1..Len(input)
  BY DEF Members, ByUser
<1>8. out # Right <=> \E i, j \in 1..Len(input) :
                         /\ i < j /\ input[i].path = input[j].path
                         /\ \E x \in StartsOf(input, IdleMs) : /\ i \in Members(input, IdleMs, x)
                                                               /\ j \in Members(input, IdleMs, x)
  <2> HIDE DEF repeats
  <2> QED  BY <1>5, <1>6, <1>7
<1>9. out # Right <=> \E i, j \in 1..Len(input) : i < j /\ SameSession(i, j) /\ input[i].path = input[j].path
  BY <1>8, SameSessionIs
<1>10. QED  BY <1>9 DEF Provoked

\* m03 and m12 are wrong when their key inverts two records of the right answer.
LEMMA WrongOrder ==
    ASSUME CandidateTypeOK, Heard, NEW gone \in Seq(Session), Outcome(gone),
           candidate \in {"m03", "m12"}
    PROVE  out # Right <=>
             \E i, j \in 1..Len(Right) : i < j /\ Sooner(input, Right[j], Right[i])
<1> DEFINE n == Len(gone)
           before == {p \in Records \X Records : Sooner(input, p[1], p[2])}
<1>1. Idle = IdleMs /\ Records = OracleRecords(input, IdleMs)
  BY DEF Idle, Records
<1>2. /\ n \in Nat /\ n = Cardinality(Records)
      /\ IsList(out, n) /\ IsList(Ranked, n)
      /\ \A k \in 1..n : /\ gone[k] \in Sess /\ out[k] = RecordOf(gone[k])
                         /\ Ranked[k] = RecordOf(gone[k])
      /\ Lists(gone, Sess) /\ Ordered(input, gone)
  <2>1. \A r : Changed(r) = r
    BY DEF Changed
  <2>2. QED  BY <2>1 DEF Outcome
<1>3. /\ IsList(Right, n) /\ Len(Right) = n
      /\ \A k \in 1..n : Right[k] \in Records
      /\ Distinct(Right, n)
      /\ \A r \in Records : \E k \in 1..n : Right[k] = r
  <2> HIDE DEF n
  <2> QED  BY <1>1, <1>2, RightIs
<1>4. \A i, j \in 1..n : i < j => Sooner(input, out[i], out[j])
  BY <1>2 DEF Ordered
<1>5. \A k \in 1..n : out[k] \in Records
  BY <1>2 DEF Records, OracleRecords, Sess
<1>6. \A r \in Records : \E k \in 1..n : r = out[k]
  <2> SUFFICES ASSUME NEW s \in Sess
               PROVE  \E k \in 1..n : RecordOf(s) = out[k]
    BY DEF Records, OracleRecords, Sess
  <2>1. PICK k \in 1..n : s = gone[k]
    BY <1>2 DEF Lists
  <2>2. QED  BY <1>2, <2>1
<1> HIDE DEF n
<1>7. \A r, s \in Records : r # s => Sooner(input, r, s) \/ Sooner(input, s, r)
  <2> SUFFICES ASSUME NEW r \in Records, NEW s \in Records, r # s
               PROVE  Sooner(input, r, s) \/ Sooner(input, s, r)
    OBVIOUS
  <2>1. PICK i \in 1..n : r = out[i]
    BY <1>6
  <2>2. PICK j \in 1..n : s = out[j]
    BY <1>6
  <2>3. i < j \/ j < i
    BY <1>2, <2>1, <2>2
  <2>4. QED  BY <1>4, <2>1, <2>2, <2>3
<1>8. ASSUME out = Right, NEW i \in 1..n, NEW j \in 1..n, i < j, Sooner(input, Right[j], Right[i])
      PROVE  FALSE
  <2>1. Sooner(input, Right[i], Right[j])
    BY <1>4, <1>8
  <2>2. Right[i] \in Records /\ Right[j] \in Records
    BY <1>3
  <2>3. QED  BY <1>8, <2>1, <2>2, SoonerOnce
<1>9. ASSUME \A i, j \in 1..n : i < j => ~Sooner(input, Right[j], Right[i])
      PROVE  out = Right
  <2>1. \A i, j \in 1..n : i < j => Sooner(input, Right[i], Right[j])
    <3> TAKE i \in 1..n, j \in 1..n
    <3> HAVE i < j
    <3>1. Right[i] # Right[j]
      BY <1>2, <1>3 DEF Distinct
    <3>2. QED  BY <1>3, <1>7, <1>9, <3>1
  <2>2. \A r, s \in Records : <<r, s>> \in before <=> Sooner(input, r, s)
    OBVIOUS
  <2>3. Ranked = InOrder(Records, before)
    BY DEF Ranked
  <2> HIDE DEF before
  <2>4. \A r, s \in Records : <<r, s>> \in before => <<s, r>> \notin before
    BY <2>2, SoonerOnce
  <2>5. Precede(Right, n, Records, before)
    BY <1>3, <2>1, <2>2, <2>4 DEF Precede
  <2>6. IsFiniteSet(Records)
    BY IdleFacts, SessionsFinite DEF Records
  <2>7. Leads(Right, n, Records, before)
    BY <1>2, <2>5, PrecedeLeads
  <2>8. \A k \in 1..n : InOrder(Records, before)[k] = Right[k]
    BY <1>2, <2>6, <2>7, InOrderBegins
  <2>9. \A k \in 1..n : out[k] = Right[k]
    BY <1>2, <2>3, <2>8
  <2>10. QED  BY <1>2, <1>3, <2>9, EqualLists
<1>10. QED  BY <1>3, <1>8, <1>9

LEMMA WrongWithOrder ==
    ASSUME CandidateTypeOK, Heard, NEW gone \in Seq(Session), Outcome(gone),
           candidate \in {"m03", "m12"}
    PROVE  out # Right <=> Provoked
<1>1. CASE candidate = "m03"
  <2>1. \A r, s : Sooner(input, r, s) <=> StartsFirst(r, s)
    BY <1>1 DEF Sooner
  <2>2. QED  BY <1>1, <2>1, WrongOrder DEF Provoked
<1>2. CASE candidate = "m12"
  <2>1. \A r, s : Sooner(input, r, s) <=> ClosesFirst(r, s)
    BY <1>2 DEF Sooner, ClosesFirst, Close
  <2>2. QED  BY <1>2, <2>1, WrongOrder DEF Provoked
<1>3. QED  BY <1>1, <1>2

\* m04 ends more sessions, unless no gap is exactly the idle time.
LEMMA WrongWithIdle ==
    ASSUME CandidateTypeOK, Heard, NEW gone \in Seq(Session), Outcome(gone), candidate = "m04"
    PROVE  /\ out # Right <=> Provoked
           /\ Len(out) >= Len(Right)
<1>1. /\ IdleMs \in Nat /\ IdleMs > 0 /\ IdleMs \in Int /\ IdleMs - 1 \in Int
      /\ input \in Seq(Event) /\ Stream(input)
  BY IdleFacts DEF Heard
<1>2. Idle = IdleMs - 1 /\ Records = OracleRecords(input, IdleMs - 1)
  BY DEF Idle, Records
<1>3. Ranked = Oracle(input, IdleMs - 1)
  BY <1>2, RankedIs
<1>4. out = Ranked
  <2>1. \A r : Changed(r) = r
    BY DEF Changed
  <2>2. /\ IsList(out, Len(gone)) /\ IsList(Ranked, Len(gone))
        /\ \A k \in 1..Len(gone) : out[k] = Ranked[k]
    BY <2>1 DEF Outcome
  <2>3. QED  BY <2>2, EqualLists
<1> DEFINE more == \E j \in 1..Len(input) :
                      Starts(input, IdleMs - 1, j) /\ ~Starts(input, IdleMs, j)
           n == Cardinality(OracleRecords(input, IdleMs))
<1>5. Len(out) = Cardinality(OracleRecords(input, IdleMs - 1))
  BY <1>2 DEF Outcome
<1>6. Len(Right) = n
  BY RightIs
<1>7. Len(Right) <= Len(out) /\ (more <=> Len(Right) # Len(out))
  <2>1. /\ n <= Cardinality(OracleRecords(input, IdleMs - 1))
        /\ more <=> n # Cardinality(OracleRecords(input, IdleMs - 1))
    BY <1>1, ShorterCounts
  <2> HIDE DEF more, n
  <2>2. QED  BY <1>5, <1>6, <2>1
<1>8. ~more => out = Right
  <2>1. ASSUME ~more
        PROVE  \A j \in 1..Len(input) : Starts(input, IdleMs - 1, j) <=> Starts(input, IdleMs, j)
    BY <1>1, <2>1, ShorterStarts
  <2>2. ASSUME ~more
        PROVE  Oracle(input, IdleMs - 1) = Oracle(input, IdleMs)
    BY <1>1, <2>1, <2>2, SameStarts
  <2>3. QED  BY <1>3, <1>4, <2>2 DEF Right
<1>9. more <=> \E i, j \in 1..Len(input) :
                  /\ i < j /\ input[i].user = input[j].user
                  /\ input[j].ts - input[i].ts = IdleMs
                  /\ \A m \in (i + 1)..(j - 1) : input[m].user # input[i].user
  <2>1. \A j \in 1..Len(input) :
           Starts(input, IdleMs - 1, j) /\ ~Starts(input, IdleMs, j) <=>
             \E i \in 1..Len(input) :
                /\ i < j /\ input[i].user = input[j].user /\ input[j].ts - input[i].ts = IdleMs
                /\ \A m \in (i + 1)..(j - 1) : input[m].user # input[i].user
    BY <1>1, ShorterStarts
  <2>2. QED  BY <2>1
<1>10. more <=> Provoked
  BY <1>9 DEF Provoked
<1> HIDE DEF more, n
<1>11. Len(out) \in Nat
  BY DEF Outcome
<1>12. QED  BY <1>6, <1>7, <1>8, <1>10, <1>11, RightIs DEF n

\* Every line of a candidate that reads its input is a record, and it writes no
\* fewer than it should.
LEMMA NoLineMissing ==
    ASSUME CandidateTypeOK, Heard, NEW gone \in Seq(Session), Outcome(gone)
    PROVE  Len(out) >= Len(Right) /\ NoRecord \notin ToSet(out)
<1>1. Len(out) = Len(gone) /\ Len(gone) \in Nat /\ Len(gone) = Cardinality(Records)
  BY DEF Outcome
<1>2. Len(out) >= Len(Right)
  <2>1. CASE candidate = "m04"
    BY <2>1, WrongWithIdle
  <2>2. CASE candidate # "m04"
    <3>1. Records = OracleRecords(input, IdleMs)
      BY <2>2 DEF Records, Idle
    <3>2. Len(Right) = Cardinality(OracleRecords(input, IdleMs))
      BY RightIs
    <3>3. QED  BY <1>1, <3>1, <3>2
  <2>3. QED  BY <2>1, <2>2
<1>3. ASSUME NEW k \in 1..Len(gone)
      PROVE  out[k] # NoRecord
  <2>1. gone[k] \in Sess /\ out[k] = Written(gone[k])
    BY DEF Outcome
  <2>2. gone[k].n_events \in Nat \ {0}
    BY <2>1, SessFields
  <2>3. Written(gone[k]).events = gone[k].n_events /\ NoRecord.events = 0
    BY WrittenFields DEF NoRecord
  <2>4. QED  BY <2>1, <2>2, <2>3
<1>4. DOMAIN out = 1..Len(gone)
  BY DEF Outcome, IsList
<1>5. NoRecord \notin ToSet(out)
  BY <1>3, <1>4 DEF ToSet
<1>6. QED  BY <1>2, <1>5

\* The silent candidates are wrong at their first line.
LEMMA WrongInSilence ==
    ASSUME CandidateTypeOK, Heard, Mute, done, candidate \in Silent
    PROVE  /\ out # Right <=> Provoked
           /\ Right # <<>> => out = <<>> \/ out[1] = NoRecord
<1>1. CASE candidate = "m08"
  <2>1. out = <<NoRecord, NoRecord>>
    BY <1>1 DEF Mute
  <2>2. out # Right
    <3>1. ASSUME out = Right
          PROVE  FALSE
      <4> DEFINE n == Cardinality(OracleRecords(input, IdleMs))
      <4>1. Len(Right) = n /\ \A k \in 1..n : Right[k] # NoRecord
        BY RightIs
      <4>2. Len(Right) = 2 /\ Right[1] = NoRecord
        BY <2>1, <3>1
      <4> HIDE DEF n
      <4>3. QED  BY <4>1, <4>2
    <3>2. QED  BY <3>1
  <2>3. Provoked
    BY <1>1 DEF Provoked
  <2>4. QED  BY <2>1, <2>2, <2>3
<1>2. CASE candidate \in {"m07", "m11"}
  <2>1. out = <<>>
    BY <1>2 DEF Mute
  <2>2. Provoked <=> input # <<>>
    BY <1>2 DEF Provoked
  <2>3. QED  BY <2>1, <2>2, SomeRecord
<1>3. QED  BY <1>1, <1>2 DEF Silent

LEMMA AccountFails ==
    ASSUME CandidateTypeOK, Account
    PROVE  FailsAsDeclared
<1>1. Heard
  BY DEF Account
<1>2. ASSUME done, candidate \in Silent
      PROVE  /\ out # Right <=> Provoked
             /\ Right # <<>> => out = <<>> \/ out[1] = NoRecord
  <2>1. Mute
    BY <1>2 DEF Account
  <2>2. QED  BY <1>1, <1>2, <2>1, WrongInSilence
<1>3. ASSUME done, candidate \notin Silent
      PROVE  /\ out # Right <=> Provoked
             /\ Len(out) >= Len(Right) /\ NoRecord \notin ToSet(out)
  <2>1. PICK gone \in Seq(Session) : Outcome(gone)
    BY <1>3, DoneOutcome
  <2>2. Len(out) >= Len(Right) /\ NoRecord \notin ToSet(out)
    BY <1>1, <2>1, NoLineMissing
  <2>3. candidate \in {"reference", "m01", "m02", "m09"} \cup {"m06"} \cup {"m05"}
                        \cup {"m03", "m12"} \cup {"m04"}
    BY <1>3 DEF CandidateTypeOK, Streaming, Hoarding, Silent
  <2>4. CASE candidate \in {"reference", "m01", "m02", "m09"}
    BY <1>1, <2>1, <2>2, <2>4, NeverWrong
  <2>5. CASE candidate = "m06"
    BY <1>1, <2>1, <2>2, <2>5, WrongWithFloats
  <2>6. CASE candidate = "m05"
    BY <1>1, <2>1, <2>2, <2>6, WrongWithPaths
  <2>7. CASE candidate \in {"m03", "m12"}
    BY <1>1, <2>1, <2>2, <2>7, WrongWithOrder
  <2>8. CASE candidate = "m04"
    BY <1>1, <2>1, <2>2, <2>8, WrongWithIdle
  <2>9. QED  BY <2>3, <2>4, <2>5, <2>6, <2>7, <2>8
<1>4. QED  BY <1>2, <1>3 DEF FailsAsDeclared

-----------------------------------------------------------------------------
(* The theorems *)

\* m02's docstring: its output is byte-identical to the reference's.  All it
\* reads, holds open and writes, in every step, is what the reference does.
THEOREM M02IsTheReference == CandidateSpec /\ Alike => Spec
<1>1. CandidateInit => Init
  BY DEF CandidateInit
<1>2. QED  BY <1>1, AlikeInit, AlikeStep, StepIsReference, PTL DEF CandidateSpec, Spec

\* Whatever its candidate does, the variables keep their types: of a line that is
\* no record, of m06's floats and of every session kept for the end.
THEOREM CandidatesTypeCorrect == CandidateSpec => []CandidateTypeOK
<1>1. TypeInv => CandidateTypeOK
  BY DEF TypeInv
<1>2. QED  BY <1>1, TypeInit, TypeStep, PTL DEF CandidateSpec

\* With IdleMs = 0 there is no gap for m04 to be off by: it ends a session at its
\* own event.
OffByOne == candidate = "m04" => IdleMs > 0

LEMMA AccountInvariance == CandidateSpec /\ OffByOne => [](CandidateTypeOK /\ Account)
<1>1. CandidateInit /\ OffByOne => Account
  BY AccountInit DEF OffByOne
<1>2. TypeInv => CandidateTypeOK
  BY DEF TypeInv
<1>3. QED  BY <1>1, <1>2, TypeInit, TypeStep, AccountStep, PTL DEF CandidateSpec

\* The reference, m01, m02 and m09 answer what the oracle of tests/test_reference.py
\* expects, and the others what their docstrings say, line by line as they close
\* sessions or at the end, and lose none of them.
THEOREM CandidatesAgree == CandidateSpec /\ OffByOne => []AgreesWithOracle
BY AccountInvariance, AccountAgrees, PTL

\* The ceiling separates the candidates: m01, m02, m03 and m09 hold something of
\* every user they have met, the others of the users of the last IdleMs only.
THEOREM MemoryIsAsDeclared == CandidateSpec /\ OffByOne => []HeldAsDeclared
BY AccountInvariance, AccountHolds, PTL

\* Every row of the matrix can be lost: a candidate is wrong on exactly the inputs
\* that provoke it, whatever they are, and fails at the line or lines declared.
THEOREM CandidatesFail == CandidateSpec /\ OffByOne => []FailsAsDeclared
BY AccountInvariance, AccountFails, PTL

=============================================================================
