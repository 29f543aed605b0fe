-------------------------- MODULE SessionizerProofs -------------------------
(***************************************************************************)
(* Proofs about Sessionizer for every set of users, paths, sizes and gaps, *)
(* every idle_ms and inputs of every length.                               *)
(***************************************************************************)
EXTENDS Sessionizer, Lemmas

-----------------------------------------------------------------------------
(* The inductive invariant *)

\* Insertion order is ascending last_ts (the comment in sessionize).
OpenSorted ==
    \A i, j \in 1..Len(open_s) : i < j => open_s[i].last_ts <= open_s[j].last_ts

\* The keys of the OrderedDict are distinct.
OpenDistinct ==
    \A i, j \in 1..Len(open_s) : open_s[i].user = open_s[j].user => i = j

\* An open session ends at most IdleMs behind the watermark; none is left open
\* at the end of the stream.
OpenWindow ==
    \A i \in 1..Len(open_s) :
        /\ ~done
        /\ open_s[i].start_ts <= open_s[i].last_ts
        /\ open_s[i].last_ts <= watermark
        /\ watermark <= open_s[i].last_ts + IdleMs

\* A written session is out of reach of the watermark until the end of stream.
OutClosed ==
    \A i \in 1..Len(out) :
        /\ out[i].start_ts <= out[i].end_ts
        /\ ~done => out[i].end_ts + IdleMs < watermark

\* The last event of every open session has been read.
Witnessed ==
    \A j \in 1..Len(open_s) : \E n \in 1..Len(input) :
        input[n].user = open_s[j].user /\ input[n].ts = open_s[j].last_ts

PathsFinite == \A j \in 1..Len(open_s) : IsFiniteSet(open_s[j].paths)

IInv ==
    /\ TypeOK
    /\ PathsFinite
    /\ OpenSorted
    /\ OpenDistinct
    /\ OpenWindow
    /\ OutClosed
    /\ OutputOrdered
    /\ SessionsSeparated
    /\ EventsCovered
    /\ Witnessed

-----------------------------------------------------------------------------
(* The operations on one session *)

LEMMA NewSessionType ==
    ASSUME NEW e \in Event
    PROVE  /\ NewSession(e) \in Session
           /\ IsFiniteSet(NewSession(e).paths)
<1>1. NewSession(e) \in Session
  BY SessionAssumption DEF NewSession, Session, Event
<1>2. NewSession(e).paths = {e.path}
  BY DEF NewSession
<1>3. QED  BY <1>1, <1>2, FS_Singleton

LEMMA ExtendedType ==
    ASSUME NEW e \in Event, NEW s \in Session, IsFiniteSet(s.paths)
    PROVE  /\ Extended(s, e) \in Session
           /\ IsFiniteSet(Extended(s, e).paths)
           /\ Extended(s, e).user = s.user
           /\ Extended(s, e).start_ts = s.start_ts
           /\ Extended(s, e).last_ts = e.ts
<1>1. /\ e.ts \in Nat
      /\ e.bytes \in Nat
      /\ e.path \in Paths
  BY SessionAssumption DEF Event
<1>2. /\ s.user \in Users
      /\ s.start_ts \in Nat
      /\ s.n_events \in Nat
      /\ s.total_bytes \in Nat
      /\ s.paths \subseteq Paths
  BY DEF Session
<1>3. /\ s.n_events + 1 \in Nat
      /\ s.total_bytes + e.bytes \in Nat
      /\ s.paths \cup {e.path} \in SUBSET Paths
  BY <1>1, <1>2
<1>4. Extended(s, e) \in Session
  BY <1>1, <1>2, <1>3 DEF Extended, Session
<1>5. QED  BY <1>4, FS_AddElement DEF Extended

LEMMA EmitType ==
    ASSUME NEW s \in Session, IsFiniteSet(s.paths)
    PROVE  /\ Emit(s) \in Record
           /\ Emit(s).user = s.user
           /\ Emit(s).start_ts = s.start_ts
           /\ Emit(s).end_ts = s.last_ts
<1>1. Cardinality(s.paths) \in Nat
  BY FS_CardinalityType
<1>2. QED  BY <1>1 DEF Emit, Session, Record

-----------------------------------------------------------------------------
(* One flush *)

\* The bounds of the fields that the invariants compare.
LEMMA OpenFields ==
    ASSUME TypeOK, NEW i \in 1..Len(open_s)
    PROVE  /\ open_s[i] \in Session
           /\ open_s[i].user \in Nat
           /\ open_s[i].user \in Users
           /\ open_s[i].start_ts \in Nat
           /\ open_s[i].last_ts \in Nat
<1>1. open_s[i] \in Session
  BY ElementOfSeq DEF TypeOK
<1>2. QED  BY <1>1, SessionAssumption DEF Session

LEMMA OutFields ==
    ASSUME TypeOK, NEW i \in 1..Len(out)
    PROVE  /\ out[i] \in Record
           /\ out[i].user \in Nat
           /\ out[i].start_ts \in Nat
           /\ out[i].end_ts \in Nat
<1>1. out[i] \in Record
  BY ElementOfSeq DEF TypeOK
<1>2. QED  BY <1>1, SessionAssumption DEF Record

\* Claim 2 of the docstring: what the loop pops, up to the first session that
\* is not expired, is every expired session.
LEMMA ReadyIsExpired ==
    ASSUME IInv, NEW w \in Nat, NEW k \in 0..Len(open_s), PopsReady(w, k)
    PROVE  \A i \in 1..Len(open_s) : i <= k <=> Expired(open_s[i], w)
<1> SUFFICES ASSUME NEW i \in 1..Len(open_s)
             PROVE  i <= k <=> Expired(open_s[i], w)
  OBVIOUS
<1>0. Len(open_s) \in Nat /\ IdleMs \in Nat /\ w # Infinity
  BY SessionAssumption DEF IInv, TypeOK, Infinity
<1>1. CASE i <= k
  BY <1>1 DEF PopsReady
<1>2. CASE i > k
  <2>1. k + 1 \in 1..Len(open_s) /\ k < Len(open_s)
    BY <1>0, <1>2
  <2>2. ~ (open_s[k + 1].last_ts + IdleMs < w)
    BY <2>1 DEF PopsReady, Expired
  <2>3. open_s[k + 1].last_ts <= open_s[i].last_ts
    <3>1. CASE i = k + 1
      BY <3>1, <2>1, OpenFields DEF IInv
    <3>2. CASE i > k + 1
      BY <3>2, <2>1 DEF IInv, OpenSorted
    <3>3. QED  BY <3>1, <3>2, <1>2
  <2>4. open_s[k + 1].last_ts \in Nat /\ open_s[i].last_ts \in Nat
    BY <2>1, OpenFields DEF IInv
  <2>5. ~ (open_s[i].last_ts + IdleMs < w)
    <3>1. IdleMs \in Nat /\ w \in Nat
      BY <1>0
    <3>2. PICK x, y : x = open_s[k + 1].last_ts /\ y = open_s[i].last_ts
      OBVIOUS
    <3>3. x \in Nat /\ y \in Nat /\ x <= y /\ ~(x + IdleMs < w)
      BY ONLY <2>2, <2>3, <2>4, <3>2
    <3>4. ~(y + IdleMs < w)
      BY ONLY <3>1, <3>3
    <3>5. QED  BY ONLY <3>2, <3>4
  <2>6. QED  BY <2>5, <1>0, <1>2 DEF Expired
<1>3. QED  BY <1>1, <1>2

\* Naming the concatenation keeps it opaque where its elements are all that
\* matters.
Joins(c, a, b) == c = a \o b

LEMMA JoinElements ==
    ASSUME NEW S, NEW a \in Seq(S), NEW b \in Seq(S), NEW c, Joins(c, a, b)
    PROVE  /\ c \in Seq(S)
           /\ Len(a) \in Nat
           /\ Len(b) \in Nat
           /\ Len(c) = Len(a) + Len(b)
           /\ \A i \in 1..Len(a) : c[i] = a[i]
           /\ \A i \in 1..Len(b) : c[Len(a) + i] = b[i]
BY DEF Joins

\* The records a flush appends.
LEMMA FlushOut ==
    ASSUME IInv, NEW k \in 0..Len(open_s), NEW p \in Bijection(1..k, 1..k),
           WritesReady(k, p)
    PROVE  /\ out' \in Seq(Record)
           /\ Len(out) \in Nat
           /\ Len(out') = Len(out) + k
           /\ \A i \in 1..Len(out) : out'[i] = out[i]
           /\ \A i \in 1..k : /\ p[i] \in 1..k
                              /\ p[i] \in 1..Len(open_s)
                              /\ out'[Len(out) + i] = Emit(open_s[p[i]])
<1> DEFINE batch == [i \in 1..k |-> Emit(open_s[p[i]])]
<1>1. ASSUME NEW i \in 1..k
      PROVE  /\ p[i] \in 1..k
             /\ p[i] \in 1..Len(open_s)
             /\ Emit(open_s[p[i]]) \in Record
  <2>1. p[i] \in 1..k
    BY DEF Bijection, Injection
  <2>2. p[i] \in 1..Len(open_s)
    BY <2>1 DEF IInv, TypeOK
  <2>3. QED  BY <2>1, <2>2, OpenFields, EmitType DEF IInv, PathsFinite
<1>2. batch \in Seq(Record) /\ Len(batch) = k
  <2>1. batch \in [1..k -> Record]
    BY <1>1
  <2>2. QED  BY <2>1, k \in Nat
<1>3. out \in Seq(Record) /\ Joins(out', out, batch)
  BY DEF IInv, TypeOK, WritesReady, Joins
<1>4. \A i \in 1..k : batch[i] = Emit(open_s[p[i]])
  OBVIOUS
<1> HIDE DEF batch
<1>5. PICK s \in Seq(Record) : /\ Len(s) = k
                               /\ Joins(out', out, s)
                               /\ \A i \in 1..k : s[i] = Emit(open_s[p[i]])
  BY <1>2, <1>3, <1>4
<1>6. /\ out' \in Seq(Record)
      /\ Len(out) \in Nat
      /\ Len(out') = Len(out) + Len(s)
      /\ \A i \in 1..Len(out) : out'[i] = out[i]
      /\ \A i \in 1..Len(s) : out'[Len(out) + i] = s[i]
  BY <1>3, <1>5, JoinElements
<1>7. QED  BY <1>1, <1>5, <1>6

LEMMA EndsEarlier ==
    ASSUME NEW a \in Nat, NEW b \in Nat, NEW w \in Nat, NEW d \in Nat,
           a + d < w, w <= b + d
    PROVE  a < b
OBVIOUS

LEMMA StaysEarlier ==
    ASSUME NEW a \in Nat, NEW d \in Nat, NEW v \in Nat, NEW w \in Nat,
           a + d < v, v <= w
    PROVE  a + d < w
OBVIOUS

\* The output stays globally ordered when a batch of sessions that end after
\* everything written is appended, and the batch is strictly ordered because
\* its users differ.
LEMMA FlushOrdered ==
    ASSUME IInv, NEW k \in 0..Len(open_s), NEW p \in Bijection(1..k, 1..k),
           WritesReady(k, p), ~done
    PROVE  OutputOrdered'
<1> SUFFICES ASSUME NEW i \in 1..Len(out'), NEW j \in 1..Len(out'), i < j
             PROVE  Before(out'[i], out'[j])
  BY DEF OutputOrdered
<1>f. /\ Len(out') = Len(out) + k
      /\ \A n \in 1..Len(out) : out'[n] = out[n]
      /\ \A n \in 1..k : /\ p[n] \in 1..Len(open_s)
                         /\ out'[Len(out) + n] = Emit(open_s[p[n]])
  BY FlushOut
<1>0. /\ Len(out) \in Nat /\ IdleMs \in Nat /\ watermark \in Nat
      /\ i \in Nat /\ 1 <= i /\ j \in Nat /\ i < j /\ j <= Len(out) + k
      /\ k \in Nat
  BY <1>f, SessionAssumption DEF IInv, TypeOK
<1>1. CASE j <= Len(out)
  <2>1. i \in 1..Len(out) /\ j \in 1..Len(out)
    BY <1>0, <1>1
  <2>2. QED  BY <2>1, <1>f DEF IInv, OutputOrdered
<1>2. CASE i <= Len(out) /\ j > Len(out)
  <2>1. i \in 1..Len(out) /\ j - Len(out) \in 1..k /\ j = Len(out) + (j - Len(out))
    BY <1>0, <1>2, <1>f
  <2>2. PICK x \in 1..Len(open_s) : out'[j] = Emit(open_s[x])
    BY <2>1, <1>f
  <2>3. out'[i].end_ts = out[i].end_ts /\ out'[j].end_ts = open_s[x].last_ts
    BY <2>1, <2>2, <1>f DEF Emit
  <2>4. /\ out[i].end_ts + IdleMs < watermark
        /\ watermark <= open_s[x].last_ts + IdleMs
    BY <2>1 DEF IInv, OutClosed, OpenWindow
  <2>5. open_s[x].last_ts \in Nat /\ out[i].end_ts \in Nat
    BY <2>1, OpenFields, OutFields DEF IInv
  <2>6. out[i].end_ts < open_s[x].last_ts
    BY <2>4, <2>5, <1>0, EndsEarlier
  <2>7. QED  BY <2>3, <2>6 DEF Before
<1>3. CASE i > Len(out)
  <2>1. PICK a \in 1..k, b \in 1..k : a < b /\ i = Len(out) + a /\ j = Len(out) + b
    <3>1. i - Len(out) \in 1..k /\ j - Len(out) \in 1..k
      BY <1>0, <1>3
    <3>2. /\ i - Len(out) < j - Len(out)
          /\ i = Len(out) + (i - Len(out))
          /\ j = Len(out) + (j - Len(out))
      BY <1>0
    <3>3. QED  BY <3>1, <3>2
  <2>2. /\ out'[i] = Emit(open_s[p[a]])
        /\ out'[j] = Emit(open_s[p[b]])
        /\ p[a] \in 1..Len(open_s)
        /\ p[b] \in 1..Len(open_s)
    BY <2>1, <1>f
  <2>3. ~Before(out'[j], out'[i])
    BY <2>1, <2>2 DEF WritesReady
  <2>4. p[a] # p[b]
    <3>1. a # b
      BY <2>1
    <3>2. IsInjective(p) /\ DOMAIN p = 1..k
      BY DEF Bijection, Injection
    <3>3. QED  BY <3>1, <3>2, <2>1 DEF IsInjective
  <2>5. open_s[p[a]].user # open_s[p[b]].user
    BY <2>2, <2>4 DEF IInv, OpenDistinct
  <2>6. /\ out'[i].user = open_s[p[a]].user
        /\ out'[j].user = open_s[p[b]].user
        /\ out'[i].end_ts = open_s[p[a]].last_ts
        /\ out'[j].end_ts = open_s[p[b]].last_ts
    BY <2>2 DEF Emit
  <2>7. /\ open_s[p[a]].user \in Nat
        /\ open_s[p[b]].user \in Nat
        /\ open_s[p[a]].last_ts \in Nat
        /\ open_s[p[b]].last_ts \in Nat
    BY <2>2, OpenFields DEF IInv
  <2>8. /\ out'[i].user \in Nat
        /\ out'[j].user \in Nat
        /\ out'[i].end_ts \in Nat
        /\ out'[j].end_ts \in Nat
        /\ out'[i].user # out'[j].user
    BY <2>5, <2>6, <2>7
  <2>9. QED  BY <2>3, <2>8 DEF Before
<1>4. QED  BY <1>0, <1>1, <1>2, <1>3

\* A record of the new output is an old one or reports one of the k sessions
\* popped, and each of the k is reported.
LEMMA FlushRecords ==
    ASSUME IInv, NEW k \in 0..Len(open_s), NEW p \in Bijection(1..k, 1..k),
           WritesReady(k, p)
    PROVE  /\ \A i \in 1..Len(out') :
                 \/ i \in 1..Len(out) /\ out'[i] = out[i]
                 \/ i > Len(out) /\ \E x \in 1..k : x \in 1..Len(open_s) /\ out'[i] = Emit(open_s[x])
           /\ \A i \in 1..Len(out) : i \in 1..Len(out') /\ out'[i] = out[i]
           /\ \A x \in 1..k : \E i \in 1..Len(out') : out'[i] = Emit(open_s[x])
<1>0. /\ Len(out) \in Nat
      /\ Len(out') = Len(out) + k
      /\ \A n \in 1..Len(out) : out'[n] = out[n]
      /\ \A n \in 1..k : /\ p[n] \in 1..k
                         /\ p[n] \in 1..Len(open_s)
                         /\ out'[Len(out) + n] = Emit(open_s[p[n]])
  BY FlushOut
<1>1. ASSUME NEW i \in 1..Len(out'), i \notin 1..Len(out)
      PROVE  i > Len(out) /\ \E x \in 1..k : x \in 1..Len(open_s) /\ out'[i] = Emit(open_s[x])
  <2>1. i - Len(out) \in 1..k /\ i > Len(out) /\ i = Len(out) + (i - Len(out))
    BY <1>0, <1>1
  <2>2. PICK n \in 1..k : i = Len(out) + n
    BY <2>1
  <2>3. /\ p[n] \in 1..k
        /\ p[n] \in 1..Len(open_s)
        /\ out'[i] = Emit(open_s[p[n]])
    BY <1>0, <2>2
  <2>4. QED  BY <2>1, <2>3
<1>2. ASSUME NEW x \in 1..k
      PROVE  \E i \in 1..Len(out') : out'[i] = Emit(open_s[x])
  <2>1. PICK n \in 1..k : p[n] = x
    BY DEF Bijection, Surjection
  <2>2. Len(out) + n \in 1..Len(out')
    BY <1>0
  <2>3. QED  BY <1>0, <2>1, <2>2
<1>3. \A i \in 1..Len(out) : i \in 1..Len(out')
  BY <1>0
<1>4. QED  BY <1>0, <1>1, <1>2, <1>3

\* Flushing keeps the sessions of one user apart: the batch holds at most one
\* session of each user, and none of a user whose session stays open.
LEMMA FlushSeparated ==
    ASSUME IInv, NEW k \in 0..Len(open_s), NEW p \in Bijection(1..k, 1..k),
           WritesReady(k, p)
    PROVE  /\ \A i, j \in 1..Len(out') :
                 i < j /\ out'[i].user = out'[j].user =>
                     out'[i].end_ts + IdleMs < out'[j].start_ts
           /\ \A i \in 1..Len(out'), j \in (k + 1)..Len(open_s) :
                 out'[i].user = open_s[j].user =>
                     out'[i].end_ts + IdleMs < open_s[j].start_ts
<1>1. ASSUME NEW i \in 1..Len(out'), NEW j \in 1..Len(out'),
             i < j, out'[i].user = out'[j].user
      PROVE  out'[i].end_ts + IdleMs < out'[j].start_ts
  <2>1. CASE j \in 1..Len(out)
    <3>1. i \in 1..Len(out)
      BY <1>1, <2>1
    <3>2. out'[i] = out[i] /\ out'[j] = out[j]
      BY <2>1, <3>1, FlushRecords
    <3>3. QED  BY <1>1, <2>1, <3>1, <3>2 DEF IInv, SessionsSeparated
  <2>2. CASE j \notin 1..Len(out)
    <3>1. PICK y \in 1..k : y \in 1..Len(open_s) /\ out'[j] = Emit(open_s[y])
      BY <2>2, FlushRecords
    <3>2. CASE i \in 1..Len(out)
      <4>1. out'[i] = out[i]
        BY <3>2, FlushRecords
      <4>2. out'[j].user = open_s[y].user /\ out'[j].start_ts = open_s[y].start_ts
        BY <3>1 DEF Emit
      <4>3. QED  BY <1>1, <3>1, <3>2, <4>1, <4>2 DEF IInv, SessionsSeparated
    <3>3. CASE i \notin 1..Len(out)
      <4>2. PICK a \in 1..k, b \in 1..k :
                /\ a # b
                /\ p[a] \in 1..Len(open_s) /\ p[b] \in 1..Len(open_s)
                /\ out'[i] = Emit(open_s[p[a]]) /\ out'[j] = Emit(open_s[p[b]])
        <5>1. /\ Len(out) \in Nat
              /\ Len(out') = Len(out) + k
              /\ \A n \in 1..k : /\ p[n] \in 1..Len(open_s)
                                 /\ out'[Len(out) + n] = Emit(open_s[p[n]])
          BY FlushOut
        <5>2. /\ i - Len(out) \in 1..k
              /\ j - Len(out) \in 1..k
              /\ i - Len(out) # j - Len(out)
              /\ i = Len(out) + (i - Len(out))
              /\ j = Len(out) + (j - Len(out))
          BY <1>1, <2>2, <3>3, <5>1
        <5>3. PICK a \in 1..k, b \in 1..k : a # b /\ i = Len(out) + a /\ j = Len(out) + b
          BY <5>2
        <5>4. QED  BY <5>1, <5>3
      <4>3. p[a] # p[b]
        BY <4>2 DEF Bijection, Injection, IsInjective
      <4>4. open_s[p[a]].user = open_s[p[b]].user
        BY <1>1, <4>2 DEF Emit
      <4>5. QED  BY <4>2, <4>3, <4>4 DEF IInv, OpenDistinct
    <3>4. QED  BY <3>2, <3>3
  <2>3. QED  BY <2>1, <2>2
<1>2. ASSUME NEW i \in 1..Len(out'), NEW j \in (k + 1)..Len(open_s),
             out'[i].user = open_s[j].user
      PROVE  out'[i].end_ts + IdleMs < open_s[j].start_ts
  <2>0. j \in 1..Len(open_s)
    OBVIOUS
  <2>1. CASE i \in 1..Len(out)
    BY <1>2, <2>0, <2>1, FlushRecords DEF IInv, SessionsSeparated
  <2>2. CASE i \notin 1..Len(out)
    <3>1. PICK x \in 1..k : x \in 1..Len(open_s) /\ out'[i] = Emit(open_s[x])
      BY <2>2, FlushRecords
    <3>2. x # j
      OBVIOUS
    <3>3. open_s[x].user = open_s[j].user
      BY <1>2, <3>1 DEF Emit
    <3>4. QED  BY <2>0, <3>1, <3>2, <3>3 DEF IInv, OpenDistinct
  <2>3. QED  BY <2>1, <2>2
<1>3. QED  BY <1>1, <1>2

-----------------------------------------------------------------------------
(* One event *)

\* What an event leaves open: the sessions of other users that survive the
\* flush, in their old order (f maps new positions to old ones), and then the
\* session of the event's user, new or extended.
Advanced(k, e, f) ==
    LET n == Len(open_s')
    IN  /\ open_s' \in Seq(Session)
        /\ n \in Nat \ {0}
        /\ f \in [1..(n - 1) -> (k + 1)..Len(open_s)]
        /\ \A i, j \in 1..(n - 1) : i < j => f[i] < f[j]
        /\ \A i \in 1..(n - 1) : open_s'[i] = open_s[f[i]] /\ open_s'[i].user # e.user
        /\ \A j \in (k + 1)..Len(open_s) :
              open_s[j].user # e.user => \E i \in 1..(n - 1) : f[i] = j
        /\ \/ /\ \A j \in (k + 1)..Len(open_s) : open_s[j].user # e.user
              /\ open_s'[n] = NewSession(e)
           \/ \E j \in (k + 1)..Len(open_s) :
                 open_s[j].user = e.user /\ open_s'[n] = Extended(open_s[j], e)

LEMMA RemainingProperties ==
    ASSUME TypeOK, NEW k \in 0..Len(open_s)
    PROVE  /\ Remaining(k) \in Seq(Session)
           /\ Len(Remaining(k)) = Len(open_s) - k
           /\ Len(open_s) \in Nat
           /\ \A i \in 1..(Len(open_s) - k) : Remaining(k)[i] = open_s[k + i]
           /\ \A j \in (k + 1)..Len(open_s) :
                 j - k \in 1..(Len(open_s) - k) /\ Remaining(k)[j - k] = open_s[j]
<1>0. open_s \in Seq(Session) /\ Len(open_s) \in Nat
  BY DEF TypeOK
<1>1. CASE k = Len(open_s)
  <2>1. Remaining(k) = <<>>
    BY <1>0, <1>1 DEF Remaining
  <2>2. QED  BY <1>0, <1>1, <2>1
<1>2. CASE k < Len(open_s)
  <2>1. k + 1 \in 1..(Len(open_s) + 1) /\ Len(open_s) \in k..Len(open_s)
    BY <1>0
  <2>2. /\ Remaining(k) \in Seq(Session)
        /\ Len(Remaining(k)) = Len(open_s) - k
        /\ \A i \in 1..(Len(open_s) - k) : Remaining(k)[i] = open_s[k + i]
    BY <1>0, <1>2, SubSeqProperties DEF Remaining
  <2>3. QED  BY <1>0, <2>2
<1>3. QED  BY <1>0, <1>1, <1>2

LEMMA OpenAdvances ==
    ASSUME IInv, NEW k \in 0..Len(open_s), NEW e \in Event,
           StartSession(Remaining(k), e) \/ ExtendSession(Remaining(k), e)
    PROVE  \E f : Advanced(k, e, f)
<1> DEFINE q == Remaining(k)
           m == Len(open_s) - k
<1>1. /\ q \in Seq(Session)
      /\ Len(q) = m
      /\ m \in Nat
      /\ k \in Nat
      /\ Len(open_s) = k + m
      /\ \A i \in 1..m : q[i] = open_s[k + i]
      /\ \A j \in (k + 1)..Len(open_s) : j - k \in 1..m /\ q[j - k] = open_s[j]
  <2>1. TypeOK
    BY DEF IInv
  <2>2. QED  BY <2>1, RemainingProperties
<1> HIDE DEF q, m
<1>2. CASE StartSession(q, e)
  <2> DEFINE f == [i \in 1..m |-> k + i]
  <2>1. open_s' = Append(q, NewSession(e)) /\ \A i \in 1..m : q[i].user # e.user
    BY <1>1, <1>2 DEF StartSession, Found
  <2>2. /\ open_s' \in Seq(Session)
        /\ Len(open_s') = m + 1
        /\ \A i \in 1..m : open_s'[i] = q[i]
        /\ open_s'[m + 1] = NewSession(e)
    BY <1>1, <2>1, NewSessionType, AppendProperties
  <2>3. \A i \in 1..m : f[i] = k + i /\ k + i \in (k + 1)..Len(open_s)
    BY <1>1
  <2>4. \A j \in (k + 1)..Len(open_s) : j - k \in 1..m /\ f[j - k] = j
    BY <1>1
  <2>5. \A j \in (k + 1)..Len(open_s) : open_s[j].user # e.user
    BY <1>1, <2>1
  <2>6. /\ Len(open_s') - 1 = m
        /\ Len(open_s') \in Nat \ {0}
        /\ f \in [1..m -> (k + 1)..Len(open_s)]
        /\ \A i, j \in 1..m : i < j => f[i] < f[j]
        /\ \A i \in 1..m : open_s'[i] = open_s[f[i]] /\ open_s'[i].user # e.user
    BY <1>1, <2>1, <2>2, <2>3
  <2> HIDE DEF f
  <2>7. Advanced(k, e, f)
    BY <2>2, <2>4, <2>5, <2>6 DEF Advanced
  <2>8. QED  BY <2>7
<1>3. CASE ExtendSession(q, e)
  <2>1. PICK x \in 1..m : /\ q[x].user = e.user
                          /\ open_s' = Append(RemoveAt(q, x), Extended(q[x], e))
    BY <1>1, <1>3 DEF ExtendSession, Found
  <2> DEFINE f == [i \in 1..(m - 1) |-> IF i < x THEN k + i ELSE k + i + 1]
             r == RemoveAt(q, x)
  <2>2. /\ k + x \in (k + 1)..Len(open_s)
        /\ k + x \in 1..Len(open_s)
        /\ q[x] = open_s[k + x]
        /\ q[x] \in Session
    BY <1>1, ElementOfSeq
  <2>3. Extended(q[x], e) \in Session
    BY <2>2, ExtendedType DEF IInv, PathsFinite
  <2>4. /\ r \in Seq(Session)
        /\ Len(r) = m - 1
        /\ \A j \in 1..(m - 1) : r[j] = IF j < x THEN q[j] ELSE q[j + 1]
    BY <1>1, RemoveAtProperties
  <2>5. /\ open_s' \in Seq(Session)
        /\ Len(open_s') = m
        /\ \A i \in 1..(m - 1) : open_s'[i] = r[i]
        /\ open_s'[m] = Extended(q[x], e)
    <3> HIDE DEF r
    <3>1. m \in Nat \ {0}
      BY <1>1
    <3>2. open_s' = Append(r, Extended(q[x], e))
      BY <2>1 DEF r
    <3>3. QED  BY <2>3, <2>4, <3>1, <3>2, AppendProperties
  <2>6. \A i \in 1..(m - 1) : /\ f[i] \in (k + 1)..Len(open_s)
                              /\ f[i] # k + x
                              /\ f[i] \in 1..Len(open_s)
                              /\ r[i] = open_s[f[i]]
    <3> SUFFICES ASSUME NEW i \in 1..(m - 1)
                 PROVE  /\ f[i] \in (k + 1)..Len(open_s)
                        /\ f[i] # k + x
                        /\ f[i] \in 1..Len(open_s)
                        /\ r[i] = open_s[f[i]]
      OBVIOUS
    <3> HIDE DEF r
    <3>1. CASE i < x
      <4>1. i \in 1..m /\ f[i] = k + i
        BY <1>1, <3>1
      <4>2. r[i] = q[i]
        BY <2>4, <3>1
      <4>3. QED  BY <1>1, <3>1, <4>1, <4>2
    <3>2. CASE ~(i < x)
      <4>1. i + 1 \in 1..m /\ f[i] = k + (i + 1)
        BY <1>1, <3>2
      <4>2. r[i] = q[i + 1]
        BY <2>4, <3>2
      <4>3. QED  BY <1>1, <3>2, <4>1, <4>2
    <3>3. QED  BY <3>1, <3>2
  <2>7. \A i, j \in 1..(m - 1) : i < j => f[i] < f[j]
    BY <1>1
  <2>8. \A j \in (k + 1)..Len(open_s) : j # k + x => \E i \in 1..(m - 1) : f[i] = j
    <3> SUFFICES ASSUME NEW j \in (k + 1)..Len(open_s), j # k + x
                 PROVE  \E i \in 1..(m - 1) : f[i] = j
      OBVIOUS
    <3>1. CASE j < k + x
      <4>1. j - k \in 1..(m - 1) /\ j - k < x
        BY <1>1, <3>1
      <4>2. f[j - k] = j
        BY <1>1, <4>1
      <4>3. QED  BY <4>1, <4>2
    <3>2. CASE j > k + x
      <4>1. j - k - 1 \in 1..(m - 1) /\ ~(j - k - 1 < x)
        BY <1>1, <3>2
      <4>2. f[j - k - 1] = j
        BY <1>1, <4>1
      <4>3. QED  BY <4>1, <4>2
    <3>3. QED  BY <1>1, <3>1, <3>2
  <2>9. f \in [1..(m - 1) -> (k + 1)..Len(open_s)]
    <3>1. \A i \in 1..(m - 1) : f[i] \in (k + 1)..Len(open_s)
      BY <2>6
    <3>2. QED  BY <3>1
  <2> HIDE DEF f, r
  <2>10. \A i \in 1..(m - 1) : open_s'[i] = open_s[f[i]] /\ open_s'[i].user # e.user
    BY <2>1, <2>2, <2>5, <2>6 DEF IInv, OpenDistinct
  <2>11. Len(open_s') \in Nat \ {0}
    BY <1>1, <2>5
  <2>12. \A j \in (k + 1)..Len(open_s) : open_s[j].user # e.user => j # k + x
    BY <2>1, <2>2
  <2>13. \E j \in (k + 1)..Len(open_s) :
            open_s[j].user = e.user /\ open_s'[m] = Extended(open_s[j], e)
    BY <2>1, <2>2, <2>5
  <2>14. \A j \in (k + 1)..Len(open_s) :
            open_s[j].user # e.user => \E i \in 1..(m - 1) : f[i] = j
    BY <2>8, <2>12
  <2>15. Advanced(k, e, f)
    BY <2>5, <2>7, <2>9, <2>10, <2>11, <2>13, <2>14 DEF Advanced
  <2>16. QED  BY <2>15
<1>4. QED  BY <1>2, <1>3 DEF q

LEMMA ReadEventPreserves ==
    ASSUME IInv, NEW gap \in Gaps, NEW u \in Users, NEW b \in Sizes, NEW pa \in Paths,
           ReadEvent(gap, u, b, pa)
    PROVE  IInv'
<1> DEFINE e == [ts |-> watermark + gap, user |-> u, bytes |-> b, path |-> pa]
           n == Len(open_s')
           x == open_s'[n]
<1>0. /\ IdleMs \in Nat
      /\ watermark \in Nat
      /\ gap \in Nat
      /\ b \in Nat
      /\ Len(open_s) \in Nat
      /\ Len(input) \in Nat
      /\ Len(out) \in Nat
  BY SessionAssumption DEF IInv, TypeOK
<1>1. /\ e \in Event
      /\ e.user = u
      /\ e.ts \in Nat
      /\ watermark <= e.ts
  BY <1>0 DEF Event
<1> HIDE DEF e
<1>2. /\ ~done
      /\ done' = FALSE
      /\ input' = Append(input, e)
      /\ watermark' = e.ts
  BY DEF ReadEvent, e, IInv, TypeOK
<1>3. PICK k \in 0..Len(open_s) :
          /\ Flush(e.ts, k)
          /\ StartSession(Remaining(k), e) \/ ExtendSession(Remaining(k), e)
  BY DEF ReadEvent, e
<1>4. PICK p \in Bijection(1..k, 1..k) : WritesReady(k, p)
  BY <1>3 DEF Flush
<1>5. PICK f : Advanced(k, e, f)
  BY <1>1, <1>3, OpenAdvances
<1>6. \A i \in 1..Len(open_s) : i <= k <=> Expired(open_s[i], e.ts)
  BY <1>1, <1>3, ReadyIsExpired DEF Flush
\* The sessions of the other users.
<1>7. \A i \in 1..(n - 1) :
          /\ f[i] \in (k + 1)..Len(open_s)
          /\ f[i] \in 1..Len(open_s)
          /\ open_s'[i] = open_s[f[i]]
          /\ open_s'[i].user # u
          /\ open_s[f[i]].last_ts <= e.ts
          /\ e.ts <= open_s[f[i]].last_ts + IdleMs
  <2> SUFFICES ASSUME NEW i \in 1..(n - 1)
               PROVE  /\ f[i] \in (k + 1)..Len(open_s)
                      /\ f[i] \in 1..Len(open_s)
                      /\ open_s'[i] = open_s[f[i]]
                      /\ open_s'[i].user # u
                      /\ open_s[f[i]].last_ts <= e.ts
                      /\ e.ts <= open_s[f[i]].last_ts + IdleMs
    OBVIOUS
  <2>1. /\ f[i] \in (k + 1)..Len(open_s)
        /\ open_s'[i] = open_s[f[i]]
        /\ open_s'[i].user # u
    BY <1>1, <1>5 DEF Advanced
  <2>2. f[i] \in 1..Len(open_s) /\ ~(f[i] <= k)
    BY <1>0, <2>1
  <2>3. ~(open_s[f[i]].last_ts + IdleMs < e.ts)
    BY <1>6, <2>2 DEF Expired
  <2>4. open_s[f[i]].last_ts \in Nat /\ open_s[f[i]].last_ts <= watermark
    BY <2>2, OpenFields DEF IInv, OpenWindow
  <2>5. /\ open_s[f[i]].last_ts <= e.ts
        /\ e.ts <= open_s[f[i]].last_ts + IdleMs
    <3> DEFINE a == open_s[f[i]].last_ts
    <3>1. a \in Nat /\ a <= watermark /\ ~(a + IdleMs < e.ts)
      BY <2>3, <2>4
    <3> HIDE DEF a
    <3>2. a <= e.ts /\ e.ts <= a + IdleMs
      BY <1>0, <1>1, <3>1
    <3>3. QED  BY <3>2 DEF a
  <2>6. QED  BY <2>1, <2>2, <2>5
\* The session of the event.
<1>8. /\ n \in Nat \ {0}
      /\ x \in Session
      /\ IsFiniteSet(x.paths)
      /\ x.user = u
      /\ x.last_ts = e.ts
      /\ x.start_ts \in Nat
      /\ x.start_ts <= e.ts
      /\ \/ x.start_ts = e.ts /\ \A j \in (k + 1)..Len(open_s) : open_s[j].user # u
         \/ \E j \in (k + 1)..Len(open_s) :
               /\ open_s[j].user = u
               /\ x.start_ts = open_s[j].start_ts
  <2>1. n \in Nat \ {0}
    BY <1>5 DEF Advanced
  <2>2. CASE /\ \A j \in (k + 1)..Len(open_s) : open_s[j].user # u
             /\ x = NewSession(e)
    BY <1>1, <2>1, <2>2, NewSessionType DEF NewSession
  <2>3. ASSUME NEW j \in (k + 1)..Len(open_s), open_s[j].user = u, x = Extended(open_s[j], e)
        PROVE  /\ x \in Session
               /\ IsFiniteSet(x.paths)
               /\ x.user = u
               /\ x.last_ts = e.ts
               /\ x.start_ts = open_s[j].start_ts
               /\ x.start_ts \in Nat
               /\ x.start_ts <= e.ts
    <3>1. j \in 1..Len(open_s)
      OBVIOUS
    <3>2. /\ open_s[j] \in Session
          /\ IsFiniteSet(open_s[j].paths)
          /\ open_s[j].start_ts \in Nat
          /\ open_s[j].last_ts \in Nat
          /\ open_s[j].start_ts <= open_s[j].last_ts
          /\ open_s[j].last_ts <= watermark
      BY <3>1, OpenFields DEF IInv, OpenWindow, PathsFinite
    <3>3. open_s[j].start_ts <= e.ts
      BY <1>0, <1>1, <3>2
    <3>4. QED  BY <1>1, <2>3, <3>2, <3>3, ExtendedType
  <2>4. QED  BY <1>1, <1>5, <2>1, <2>2, <2>3 DEF Advanced
<1>9. \A i \in 1..n : i = n \/ i \in 1..(n - 1)
  BY <1>8
<1>10. /\ input' \in Seq(Event)
       /\ Len(input') = Len(input) + 1
       /\ input'[Len(input) + 1] = e
       /\ \A i \in 1..Len(input) : input'[i] = input[i]
  BY <1>1, <1>2, AppendProperties DEF IInv, TypeOK
\* Parts of the invariant.
<1>11. TypeOK'
  BY <1>1, <1>2, <1>4, <1>5, <1>10, FlushOut DEF Advanced, TypeOK
<1>12. PathsFinite'
  <2> SUFFICES ASSUME NEW i \in 1..n
               PROVE  IsFiniteSet(open_s'[i].paths)
    BY DEF PathsFinite
  <2>1. CASE i = n
    BY <2>1, <1>8
  <2>2. CASE i \in 1..(n - 1)
    BY <2>2, <1>7 DEF IInv, PathsFinite
  <2>3. QED  BY <1>9, <2>1, <2>2
<1>13. OpenSorted'
  <2> SUFFICES ASSUME NEW i \in 1..n, NEW j \in 1..n, i < j
               PROVE  open_s'[i].last_ts <= open_s'[j].last_ts
    BY DEF OpenSorted
  <2>1. i \in 1..(n - 1)
    BY <1>8
  <2>2. CASE j = n
    BY <1>7, <1>8, <2>1, <2>2
  <2>3. CASE j \in 1..(n - 1)
    <3>1. f[i] < f[j]
      BY <1>5, <2>1, <2>3 DEF Advanced
    <3>2. QED  BY <1>7, <2>1, <2>3, <3>1 DEF IInv, OpenSorted
  <2>4. QED  BY <1>9, <2>2, <2>3
<1>14. OpenDistinct'
  <2> SUFFICES ASSUME NEW i \in 1..n, NEW j \in 1..n, i # j
               PROVE  open_s'[i].user # open_s'[j].user
    BY DEF OpenDistinct
  <2>1. CASE i = n \/ j = n
    BY <1>7, <1>8, <1>9, <2>1
  <2>2. CASE i \in 1..(n - 1) /\ j \in 1..(n - 1)
    <3>1. f[i] # f[j]
      <4>1. i \in Nat /\ j \in Nat
        BY <2>2
      <4>2. (i < j \/ j < i) /\ f[i] \in Nat /\ f[j] \in Nat
        BY <1>0, <1>7, <2>2, <4>1
      <4>3. (i < j => f[i] < f[j]) /\ (j < i => f[j] < f[i])
        BY <1>5, <2>2 DEF Advanced
      <4>4. QED  BY <4>2, <4>3
    <3>2. QED  BY <1>7, <2>2, <3>1 DEF IInv, OpenDistinct
  <2>3. QED  BY <1>9, <2>1, <2>2
<1>15. OpenWindow'
  <2> SUFFICES ASSUME NEW i \in 1..n
               PROVE  /\ open_s'[i].start_ts <= open_s'[i].last_ts
                      /\ open_s'[i].last_ts <= e.ts
                      /\ e.ts <= open_s'[i].last_ts + IdleMs
    BY <1>2 DEF OpenWindow
  <2>1. CASE i = n
    BY <1>0, <1>1, <1>8, <2>1
  <2>2. CASE i \in 1..(n - 1)
    BY <1>7, <2>2 DEF IInv, OpenWindow
  <2>3. QED  BY <1>9, <2>1, <2>2
<1>16. OutClosed' /\ \A i \in 1..Len(out') : out'[i].end_ts + IdleMs < e.ts
  <2> SUFFICES ASSUME NEW i \in 1..Len(out')
               PROVE  /\ out'[i].start_ts <= out'[i].end_ts
                      /\ out'[i].end_ts + IdleMs < e.ts
    BY <1>2 DEF OutClosed
  <2>1. CASE i \in 1..Len(out) /\ out'[i] = out[i]
    <3>1. /\ out[i].start_ts <= out[i].end_ts
          /\ out[i].end_ts + IdleMs < watermark
          /\ out[i].end_ts \in Nat
      BY <1>2, <2>1, OutFields DEF IInv, OutClosed
    <3>2. out[i].end_ts + IdleMs < e.ts
      BY <1>0, <1>1, <3>1, StaysEarlier
    <3>3. QED  BY <2>1, <3>1, <3>2
  <2>2. ASSUME NEW j \in 1..k, j \in 1..Len(open_s), out'[i] = Emit(open_s[j])
        PROVE  /\ out'[i].start_ts <= out'[i].end_ts
               /\ out'[i].end_ts + IdleMs < e.ts
    <3>1. open_s[j].last_ts + IdleMs < e.ts
      <4>1. e.ts # Infinity /\ j <= k
        BY <1>1 DEF Infinity
      <4>2. QED  BY <1>6, <2>2, <4>1 DEF Expired
    <3>2. open_s[j].start_ts <= open_s[j].last_ts
      BY <2>2 DEF IInv, OpenWindow
    <3>3. QED  BY <2>2, <3>1, <3>2 DEF Emit
  <2>3. QED  BY <1>4, <2>1, <2>2, FlushRecords
<1>17. OutputOrdered'
  BY <1>2, <1>4, FlushOrdered
<1>18. SessionsSeparated'
  <2>1. ASSUME NEW i \in 1..Len(out'), NEW j \in 1..n, out'[i].user = open_s'[j].user
        PROVE  out'[i].end_ts + IdleMs < open_s'[j].start_ts
    <3>1. CASE j \in 1..(n - 1)
      BY <1>4, <1>7, <2>1, <3>1, FlushSeparated
    <3>2. CASE j = n
      BY <1>4, <1>8, <1>16, <2>1, <3>2, FlushSeparated
    <3>3. QED  BY <1>9, <3>1, <3>2
  <2>2. QED  BY <1>4, <2>1, FlushSeparated DEF SessionsSeparated
<1>19. EventsCovered'
  <2> SUFFICES ASSUME NEW m \in 1..Len(input')
               PROVE  \/ Reported(m)'
                      \/ \E j \in 1..n : /\ open_s'[j].user = input'[m].user
                                         /\ open_s'[j].start_ts <= input'[m].ts
                                         /\ input'[m].ts <= open_s'[j].last_ts
    BY DEF EventsCovered
  <2>1. CASE m = Len(input) + 1
    <3>1. input'[m].user = u /\ input'[m].ts = e.ts
      BY <1>1, <1>10, <2>1
    <3>2. x.last_ts = e.ts /\ e.ts <= e.ts /\ n \in 1..n
      BY <1>1, <1>8
    <3>3. QED  BY <1>8, <3>1, <3>2
  <2>2. CASE m \in 1..Len(input) /\ Reported(m)
    BY <1>4, <1>10, <2>2, FlushRecords DEF Reported
  <2>3. ASSUME m \in 1..Len(input), NEW j \in 1..Len(open_s),
               open_s[j].user = input[m].user,
               open_s[j].start_ts <= input[m].ts,
               input[m].ts <= open_s[j].last_ts
        PROVE  \/ Reported(m)'
               \/ \E i \in 1..n : /\ open_s'[i].user = input'[m].user
                                  /\ open_s'[i].start_ts <= input'[m].ts
                                  /\ input'[m].ts <= open_s'[i].last_ts
    <3>0. input'[m] = input[m]
      BY <1>10, <2>3
    <3>1. CASE j <= k
      <4>1. j \in 1..k
        BY <3>1
      <4>2. PICK i \in 1..Len(out') : out'[i] = Emit(open_s[j])
        BY <1>4, <4>1, FlushRecords
      <4>3. Reported(m)'
        BY <2>3, <3>0, <4>2 DEF Reported, Emit
      <4>4. QED  BY <4>3
    <3>2. CASE j > k /\ open_s[j].user # u
      <4>1. j \in (k + 1)..Len(open_s)
        BY <3>2
      <4>2. PICK i \in 1..(n - 1) : f[i] = j
        BY <1>1, <1>5, <3>2, <4>1 DEF Advanced
      <4>3. i \in 1..n /\ open_s'[i] = open_s[j]
        <5>1. n \in Nat
          BY <1>8
        <5>2. i \in 1..n
          BY ONLY <5>1
        <5>3. open_s'[i] = open_s[f[i]]
          BY ONLY <1>7
        <5>4. QED  BY ONLY <4>2, <5>2, <5>3
      <4>4. QED  BY <2>3, <3>0, <4>3
    <3>3. CASE j > k /\ open_s[j].user = u
      <4>1. j \in (k + 1)..Len(open_s)
        BY <3>3
      <4>2. x.start_ts = open_s[j].start_ts
        BY <1>8, <3>3, <4>1 DEF IInv, OpenDistinct
      <4>3. input[m].ts <= x.last_ts
        <5>1. input[m] \in Event
          BY <2>3, ElementOfSeq DEF IInv, TypeOK
        <5>2. open_s[j].last_ts <= watermark /\ open_s[j].last_ts \in Nat /\ input[m].ts \in Nat
          BY <5>1, OpenFields DEF IInv, OpenWindow, Event
        <5>3. input[m].ts <= e.ts
          <6>1. watermark \in Nat /\ e.ts \in Nat /\ watermark <= e.ts
            BY <1>0, <1>1
          <6>2. input[m].ts <= open_s[j].last_ts
            BY <2>3
          <6>3. QED  BY ONLY <5>2, <6>1, <6>2
        <5>4. QED  BY <1>8, <5>3
      <4>4. n \in 1..n
        BY <1>8
      <4>5. QED  BY <1>8, <2>3, <3>0, <3>3, <4>2, <4>3, <4>4
    <3>4. QED  BY <1>0, <3>1, <3>2, <3>3
  <2>4. m = Len(input) + 1 \/ m \in 1..Len(input)
    BY <1>0, <1>10
  <2>5. QED  BY <2>1, <2>2, <2>3, <2>4 DEF IInv, EventsCovered
<1>20. Witnessed'
  <2> SUFFICES ASSUME NEW j \in 1..n
               PROVE  \E m \in 1..Len(input') :
                          /\ input'[m].user = open_s'[j].user
                          /\ input'[m].ts = open_s'[j].last_ts
    BY DEF Witnessed
  <2>1. CASE j = n
    <3>1. Len(input) + 1 \in 1..Len(input')
      BY <1>0, <1>10
    <3>2. QED  BY <1>1, <1>8, <1>10, <2>1, <3>1
  <2>2. CASE j \in 1..(n - 1)
    <3>1. PICK m \in 1..Len(input) : /\ input[m].user = open_s[f[j]].user
                                     /\ input[m].ts = open_s[f[j]].last_ts
      BY <1>7, <2>2 DEF IInv, Witnessed
    <3>2. m \in 1..Len(input') /\ input'[m] = input[m]
      BY <1>0, <1>10
    <3>3. QED  BY <1>7, <2>2, <3>1, <3>2
  <2>3. QED  BY <1>9, <2>1, <2>2
<1>21. QED  BY <1>11, <1>12, <1>13, <1>14, <1>15, <1>16, <1>17, <1>18, <1>19, <1>20 DEF IInv

-----------------------------------------------------------------------------
(* The end of the stream *)

LEMMA FinishPreserves ==
    ASSUME IInv, Finish
    PROVE  IInv'
<1>1. PICK k \in 0..Len(open_s) :
          /\ PopsReady(Infinity, k)
          /\ \E p \in Bijection(1..k, 1..k) : WritesReady(k, p)
          /\ open_s' = Remaining(k)
  BY DEF Finish, Flush
<1>2. PICK p \in Bijection(1..k, 1..k) : WritesReady(k, p)
  BY <1>1
<1>3. ~done /\ done' = TRUE /\ input' = input /\ watermark' = watermark
  BY DEF Finish
<1>4. k = Len(open_s) /\ open_s' = <<>>
  <2>1. Len(open_s) \in Nat
    BY DEF IInv, TypeOK
  <2>2. k = Len(open_s)
    BY <1>1, <2>1 DEF PopsReady, Expired
  <2>3. Len(Remaining(k)) = 0
    BY <2>1, <2>2, RemainingProperties DEF IInv
  <2>4. Remaining(k) \in Seq(Session)
    BY RemainingProperties DEF IInv
  <2>5. QED  BY <1>1, <2>2, <2>3, <2>4
<1>5. TypeOK'
  BY <1>2, <1>3, <1>4, FlushOut DEF IInv, TypeOK
<1>6. Len(open_s') = 0
  BY <1>4
<1>7. PathsFinite' /\ OpenSorted' /\ OpenDistinct' /\ OpenWindow' /\ Witnessed'
  BY <1>6 DEF PathsFinite, OpenSorted, OpenDistinct, OpenWindow, Witnessed
<1>8. OutClosed'
  <2> SUFFICES ASSUME NEW i \in 1..Len(out')
               PROVE  out'[i].start_ts <= out'[i].end_ts
    BY <1>3 DEF OutClosed
  <2>1. CASE i \in 1..Len(out) /\ out'[i] = out[i]
    BY <2>1 DEF IInv, OutClosed
  <2>2. ASSUME NEW j \in 1..k, j \in 1..Len(open_s), out'[i] = Emit(open_s[j])
        PROVE  out'[i].start_ts <= out'[i].end_ts
    BY <2>2 DEF IInv, OpenWindow, Emit
  <2>3. QED  BY <1>2, <2>1, <2>2, FlushRecords
<1>9. OutputOrdered'
  BY <1>2, <1>3, FlushOrdered
<1>10. SessionsSeparated'
  BY <1>2, <1>6, FlushSeparated DEF SessionsSeparated
<1>11. EventsCovered'
  <2> SUFFICES ASSUME NEW m \in 1..Len(input)
               PROVE  Reported(m)'
    BY <1>3 DEF EventsCovered
  <2>1. CASE Reported(m)
    BY <1>2, <1>3, <2>1, FlushRecords DEF Reported
  <2>2. ASSUME NEW j \in 1..Len(open_s),
               open_s[j].user = input[m].user,
               open_s[j].start_ts <= input[m].ts,
               input[m].ts <= open_s[j].last_ts
        PROVE  Reported(m)'
    <3>1. j \in 1..k
      BY <1>4
    <3>2. PICK i \in 1..Len(out') : out'[i] = Emit(open_s[j])
      BY <1>2, <3>1, FlushRecords
    <3>3. QED  BY <1>3, <2>2, <3>2 DEF Reported, Emit
  <2>3. QED  BY <2>1, <2>2 DEF IInv, EventsCovered
<1>12. QED  BY <1>5, <1>7, <1>8, <1>9, <1>10, <1>11 DEF IInv

-----------------------------------------------------------------------------
(* Safety *)

LEMMA InitEstablishes == Init => IInv
<1> SUFFICES ASSUME Init  PROVE IInv
  OBVIOUS
<1>1. TypeOK
  BY EmptySeq DEF Init, TypeOK
<1>2. Len(open_s) = 0 /\ Len(out) = 0 /\ Len(input) = 0
  BY DEF Init
<1>3. QED  BY <1>1, <1>2 DEF IInv, PathsFinite, OpenSorted, OpenDistinct,
              OpenWindow, OutClosed, OutputOrdered, SessionsSeparated, EventsCovered, Witnessed

LEMMA StutterPreserves ==
    ASSUME IInv, UNCHANGED vars
    PROVE  IInv'
<1>1. input' = input /\ watermark' = watermark /\ open_s' = open_s /\ out' = out /\ done' = done
  BY DEF vars
<1>2. \A m : Reported(m)' <=> Reported(m)
  BY <1>1 DEF Reported
<1>3. QED  BY <1>1, <1>2 DEF IInv, TypeOK, PathsFinite, OpenSorted, OpenDistinct,
              OpenWindow, OutClosed, OutputOrdered, SessionsSeparated, EventsCovered, Witnessed

LEMMA StepPreserves ==
    ASSUME IInv, [Next]_vars
    PROVE  IInv'
<1>1. ASSUME NEW gap \in Gaps, NEW u \in Users, NEW b \in Sizes, NEW p \in Paths,
             ReadEvent(gap, u, b, p)
      PROVE  IInv'
  BY <1>1, ReadEventPreserves
<1>2. CASE Finish
  BY <1>2, FinishPreserves
<1>3. CASE Terminated
  BY <1>3, StutterPreserves DEF Terminated
<1>4. CASE UNCHANGED vars
  BY <1>4, StutterPreserves
<1>5. QED  BY <1>1, <1>2, <1>3, <1>4 DEF Next

\* The inductive invariant of the streaming sessionizer.
THEOREM Invariance == Spec => []IInv
BY InitEstablishes, StepPreserves, PTL DEF Spec

\* Type correctness: in particular every record counts a finite set of paths.
THEOREM TypeCorrect == Spec => []TypeOK
<1>1. IInv => TypeOK
  BY DEF IInv
<1>2. QED  BY <1>1, Invariance, PTL

\* The output is one strictly increasing sequence in (end_ts, user), over all
\* batches: sorting each batch, as flush does, sorts the whole output.
THEOREM OutputIsOrdered == Spec => []OutputOrdered
<1>1. IInv => OutputOrdered
  BY DEF IInv
<1>2. QED  BY <1>1, Invariance, PTL

\* No session is cut while it could still be extended, and none swallows an
\* idle gap longer than idle_ms between two sessions of a user.
THEOREM SessionsAreSeparated == Spec => []SessionsSeparated
<1>1. IInv => SessionsSeparated
  BY DEF IInv
<1>2. QED  BY <1>1, Invariance, PTL

\* Every event read is covered by a session of its user, open or written, and
\* at the end of the stream by a record.
THEOREM EventsAreCovered == Spec => []EventsCovered
<1>1. IInv => EventsCovered
  BY DEF IInv
<1>2. QED  BY <1>1, Invariance, PTL

\* Every open session is of a recent event, and every recent event's is open.
LEMMA LiveSessions == IInv => OpenExactlyLive
<1> SUFFICES ASSUME IInv, ~done
             PROVE  /\ {open_s[i].user : i \in 1..Len(open_s)}
                         = {input[n].user : n \in {m \in 1..Len(input) :
                                                    input[m].ts + IdleMs >= watermark}}
                    /\ OpenDistinct
  BY DEF OpenExactlyLive, OpenDistinct
<1>0. IdleMs \in Nat /\ watermark \in Nat
  BY SessionAssumption DEF IInv, TypeOK
<1>1. ASSUME NEW i \in 1..Len(open_s)
      PROVE  \E m \in 1..Len(input) : /\ input[m].ts + IdleMs >= watermark
                                      /\ input[m].user = open_s[i].user
  <2>1. PICK m \in 1..Len(input) : /\ input[m].user = open_s[i].user
                                   /\ input[m].ts = open_s[i].last_ts
    BY DEF IInv, Witnessed
  <2>2. watermark <= open_s[i].last_ts + IdleMs /\ open_s[i].last_ts \in Nat
    BY OpenFields DEF IInv, OpenWindow
  <2>3. input[m].ts + IdleMs >= watermark
    BY <1>0, <2>1, <2>2
  <2>4. QED  BY <2>1, <2>3
<1>2. ASSUME NEW m \in 1..Len(input), input[m].ts + IdleMs >= watermark
      PROVE  \E i \in 1..Len(open_s) : open_s[i].user = input[m].user
  <2>0. input[m].ts \in Nat
    <3>1. input[m] \in Event
      BY ElementOfSeq DEF IInv, TypeOK
    <3>2. QED  BY <3>1 DEF Event
  <2>1. ~Reported(m)
    <3> SUFFICES ASSUME NEW i \in 1..Len(out), input[m].ts <= out[i].end_ts
                 PROVE  FALSE
      BY DEF Reported
    <3>1. out[i].end_ts + IdleMs < watermark /\ out[i].end_ts \in Nat
      BY OutFields DEF IInv, OutClosed
    <3>2. out[i].end_ts < input[m].ts
      BY <1>0, <1>2, <2>0, <3>1, EndsEarlier
    <3>3. QED  BY <2>0, <3>1, <3>2
  <2>2. QED  BY <2>1 DEF IInv, EventsCovered
<1>3. ASSUME NEW v
      PROVE  v \in {open_s[i].user : i \in 1..Len(open_s)}
               <=> v \in {input[n].user : n \in {m \in 1..Len(input) :
                                                  input[m].ts + IdleMs >= watermark}}
  <2> DEFINE recent == {m \in 1..Len(input) : input[m].ts + IdleMs >= watermark}
  <2>1. ASSUME NEW i \in 1..Len(open_s)
        PROVE  \E n \in recent : input[n].user = open_s[i].user
    BY <1>1, Zenon
  <2>2. ASSUME NEW n \in recent
        PROVE  \E i \in 1..Len(open_s) : open_s[i].user = input[n].user
    BY <1>2, Zenon
  <2> HIDE DEF recent
  <2>3. v \in {open_s[i].user : i \in 1..Len(open_s)} <=> v \in {input[n].user : n \in recent}
    BY <2>1, <2>2
  <2>4. QED  BY <2>3 DEF recent
<1>4. QED  BY <1>3 DEF IInv

\* The memory bound: what is held is one session for each user with an event in
\* the last idle_ms, and nothing that grows with the stream.
THEOREM MemoryIsTheLiveSessions == Spec => []OpenExactlyLive
BY LiveSessions, Invariance, PTL

-----------------------------------------------------------------------------
(* Refinement *)

\* A flush of the k first sessions is the abstract closing of their set.
LEMMA FlushCloses ==
    ASSUME IInv, NEW k \in 0..Len(open_s), NEW p \in Bijection(1..k, 1..k),
           WritesReady(k, p), ~done
    PROVE  Abstract!Closes({open_s[i] : i \in 1..k})
<1> DEFINE closing == {open_s[i] : i \in 1..k}
           new == (Len(out) + 1)..Len(out')
<1>1. /\ out' \in Seq(Record)
      /\ Len(out) \in Nat
      /\ Len(out') = Len(out) + k
      /\ \A i \in 1..Len(out) : out'[i] = out[i]
      /\ \A i \in 1..k : p[i] \in 1..k /\ out'[Len(out) + i] = Emit(open_s[p[i]])
  BY FlushOut
<1>2. \A i \in new : i \in 1..Len(out') /\ i - Len(out) \in 1..k /\ i = Len(out) + (i - Len(out))
  BY <1>1
<1>3. \A i \in new : \E x \in 1..k : out'[i] = Emit(open_s[x])
  <2> SUFFICES ASSUME NEW i \in new
               PROVE  \E x \in 1..k : out'[i] = Emit(open_s[x])
    OBVIOUS
  <2>1. PICK a \in 1..k : i = Len(out) + a
    BY <1>2
  <2>2. QED  BY <1>1, <2>1
<1>4. \A x \in 1..k : \E i \in new : out'[i] = Emit(open_s[x])
  <2> SUFFICES ASSUME NEW x \in 1..k
               PROVE  \E i \in new : out'[i] = Emit(open_s[x])
    OBVIOUS
  <2>1. PICK i \in 1..k : p[i] = x
    BY DEF Bijection, Surjection
  <2>2. Len(out) + i \in new
    BY <1>1
  <2>3. QED  BY <1>1, <2>1, <2>2
<1>5. {out'[i] : i \in new} = {Emit(s) : s \in closing}
  <2>1. \A i \in new : out'[i] \in {Emit(s) : s \in closing}
    BY <1>3
  <2>2. \A s \in closing : Emit(s) \in {out'[i] : i \in new}
    BY <1>4
  <2> HIDE DEF new, closing
  <2>3. QED  BY <2>1, <2>2
<1>6. \A i, j \in new : i < j => Before(out'[i], out'[j])
  BY <1>2, FlushOrdered DEF OutputOrdered
<1>7. Len(out) <= Len(out')
  BY <1>1
<1>8. /\ Abstract!Record = Record
      /\ \A s : Abstract!Emit(s) = Emit(s)
      /\ \A r1, r2 : Abstract!Before(r1, r2) <=> Before(r1, r2)
  <2>1. Abstract!Record = Record
    BY DEF Abstract!Record, Record
  <2>2. \A s : Abstract!Emit(s) = Emit(s)
    <3>1. \A S : Abstract!Cardinality(S) = Cardinality(S)
      BY Zenon DEF Abstract!Cardinality, Cardinality
    <3>2. QED  BY <3>1 DEF Abstract!Emit, Emit
  <2>3. \A r1, r2 : Abstract!Before(r1, r2) <=> Before(r1, r2)
    BY DEF Abstract!Before, Before
  <2>4. QED  BY <2>1, <2>2, <2>3
<1>9. {out'[i] : i \in new} = {Abstract!Emit(s) : s \in closing}
  BY <1>5, <1>8
<1>10. QED
  BY <1>1, <1>6, <1>7, <1>8, <1>9 DEF Abstract!Closes

LEMMA ReadEventRefines ==
    ASSUME IInv, NEW gap \in Gaps, NEW u \in Users, NEW b \in Sizes, NEW pa \in Paths,
           ReadEvent(gap, u, b, pa)
    PROVE  Abstract!SRead(gap, u, b, pa)
<1> DEFINE e == [ts |-> watermark + gap, user |-> u, bytes |-> b, path |-> pa]
           live == {open_s[i] : i \in 1..Len(open_s)}
           n == Len(open_s')
<1>0. Len(open_s) \in Nat /\ gap \in Nat /\ watermark \in Nat
  BY SessionAssumption DEF IInv, TypeOK
<1>1. e \in Event /\ e.user = u /\ e.ts = watermark + gap /\ e.ts \in Nat
  BY <1>0, SessionAssumption DEF Event
<1>2. PICK k \in 0..Len(open_s) :
          /\ Flush(e.ts, k)
          /\ StartSession(Remaining(k), e) \/ ExtendSession(Remaining(k), e)
  BY DEF ReadEvent
<1> HIDE DEF e
<1>3. ~done /\ done' = done /\ watermark' = e.ts
  BY DEF ReadEvent, e
<1>4. PICK p \in Bijection(1..k, 1..k) : WritesReady(k, p)
  BY <1>2 DEF Flush
<1>5. PICK f : Advanced(k, e, f)
  BY <1>1, <1>2, OpenAdvances
<1>6. \A i \in 1..Len(open_s) : i <= k <=> Expired(open_s[i], e.ts)
  BY <1>1, <1>2, ReadyIsExpired DEF Flush
<1> DEFINE closing == {s \in live : Expired(s, e.ts)}
           rest == live \ closing
           own == {s \in rest : s.user = u}
<1>7. closing = {open_s[i] : i \in 1..k}
  <2>1. \A i \in 1..k : i \in 1..Len(open_s) /\ i <= k
    BY <1>0
  <2>2. \A i \in 1..Len(open_s) : i <= k => i \in 1..k
    OBVIOUS
  <2>3. QED  BY <1>6, <2>1, <2>2
<1>8. rest = {open_s[i] : i \in (k + 1)..Len(open_s)}
  <2>1. \A i \in (k + 1)..Len(open_s) : i \in 1..Len(open_s) /\ ~(i <= k)
    BY <1>0
  <2>2. \A i \in 1..Len(open_s) : ~(i <= k) => i \in (k + 1)..Len(open_s)
    BY <1>0
  <2>3. QED  BY <1>6, <2>1, <2>2
<1>9. Abstract!Closes(closing)
  BY <1>3, <1>4, <1>7, FlushCloses
<1> DEFINE others == {open_s'[i] : i \in 1..(n - 1)}
<1>10. others = {s \in rest : s.user # u}
  <2>1. \A i \in 1..(n - 1) : /\ f[i] \in (k + 1)..Len(open_s)
                              /\ open_s'[i] = open_s[f[i]]
                              /\ open_s'[i].user # u
    BY <1>1, <1>5 DEF Advanced
  <2>2. \A j \in (k + 1)..Len(open_s) :
            open_s[j].user # u => \E i \in 1..(n - 1) : f[i] = j
    BY <1>1, <1>5 DEF Advanced
  <2>3. ASSUME NEW s \in others
        PROVE  s \in rest /\ s.user # u
    BY <1>8, <2>1, <2>3
  <2>4. ASSUME NEW s \in rest, s.user # u
        PROVE  s \in others
    <3>1. PICK j \in (k + 1)..Len(open_s) : s = open_s[j]
      BY <1>8
    <3>2. PICK i \in 1..(n - 1) : f[i] = j
      BY <2>2, <2>4, <3>1
    <3>3. s = open_s'[i]
      BY <2>1, <3>1, <3>2
    <3>4. QED  BY <3>3
  <2> HIDE DEF rest, others
  <2>5. QED  BY <2>3, <2>4
<1>11. {open_s'[i] : i \in 1..n} = others \cup {open_s'[n]}
  <2>1. n \in Nat \ {0}
    BY <1>5 DEF Advanced
  <2>2. \A i : i \in 1..n <=> i \in 1..(n - 1) \/ i = n
    BY <2>1
  <2>3. QED  BY <2>2
<1> DEFINE live2 == {open_s'[i] : i \in 1..n}
<1> HIDE DEF others, rest, closing, n, live2
<1>12. \/ own = {} /\ live2 = rest \cup {NewSession(e)}
       \/ \E s \in own : live2 = (rest \ {s}) \cup {Extended(s, e)}
  <2>1. CASE /\ \A j \in (k + 1)..Len(open_s) : open_s[j].user # u
             /\ open_s'[n] = NewSession(e)
    <3>1. own = {} /\ others = rest
      BY <1>8, <1>10, <2>1
    <3>2. QED  BY <1>11, <2>1, <3>1 DEF live2
  <2>2. ASSUME NEW j \in (k + 1)..Len(open_s), open_s[j].user = u,
               open_s'[n] = Extended(open_s[j], e)
        PROVE  \E s \in own : live2 = (rest \ {s}) \cup {Extended(s, e)}
    <3>1. open_s[j] \in own
      BY <1>8, <2>2
    <3>2. others = rest \ {open_s[j]}
      <4>1. \A i \in (k + 1)..Len(open_s) : open_s[i].user = u => open_s[i] = open_s[j]
        <5>1. \A i \in (k + 1)..Len(open_s) : i \in 1..Len(open_s)
          OBVIOUS
        <5>2. QED  BY <2>2, <5>1 DEF IInv, OpenDistinct
      <4>2. QED  BY <1>8, <1>10, <2>2, <4>1
    <3>3. QED  BY <1>11, <2>2, <3>1, <3>2 DEF live2
  <2>3. QED  BY <1>1, <1>5, <2>1, <2>2 DEF Advanced, n
<1>13. QED
  BY <1>3, <1>9, <1>12
     DEF Abstract!SRead, Abstract!Expired, Abstract!NewSession, Abstract!Extended,
         Abstract!Infinity, Infinity, Expired, NewSession, Extended, closing, rest, live2, n, e

LEMMA FinishRefines ==
    ASSUME IInv, Finish
    PROVE  Abstract!SFinish
<1>0. Len(open_s) \in Nat /\ TypeOK
  BY DEF IInv, TypeOK
<1>1. PICK k \in 0..Len(open_s) :
          /\ PopsReady(Infinity, k)
          /\ \E p \in Bijection(1..k, 1..k) : WritesReady(k, p)
          /\ open_s' = Remaining(k)
  BY DEF Finish, Flush
<1>2. PICK p \in Bijection(1..k, 1..k) : WritesReady(k, p)
  BY <1>1
<1>3. k = Len(open_s)
  BY <1>0, <1>1 DEF PopsReady, Expired
<1>4. {open_s'[i] : i \in 1..Len(open_s')} = {}
  <2>1. Len(open_s') = 0
    BY <1>0, <1>1, <1>3, RemainingProperties
  <2>2. QED  BY <2>1
<1>5. ~done /\ done' = TRUE /\ watermark' = watermark
  BY DEF Finish
<1>6. Abstract!Closes({open_s[i] : i \in 1..Len(open_s)})
  BY <1>2, <1>3, <1>5, FlushCloses
<1>7. QED  BY <1>4, <1>5, <1>6 DEF Abstract!SFinish

\* The streaming sessionizer implements the abstract one.
THEOREM Refinement == Spec => RefinesSessionSpec
<1>1. Init => Abstract!SInit
  BY DEF Init, Abstract!SInit
<1>2. IInv /\ [Next]_vars => [Abstract!SNext]_(Abstract!sVars)
  <2> SUFFICES ASSUME IInv, [Next]_vars
               PROVE  Abstract!SNext \/ UNCHANGED Abstract!sVars
    OBVIOUS
  <2>1. ASSUME NEW gap \in Gaps, NEW u \in Users, NEW b \in Sizes, NEW p \in Paths,
               ReadEvent(gap, u, b, p)
        PROVE  Abstract!SNext
    BY <2>1, ReadEventRefines DEF Abstract!SNext
  <2>2. CASE Finish
    BY <2>2, FinishRefines DEF Abstract!SNext
  <2>3. CASE UNCHANGED vars
    BY <2>3 DEF vars, Abstract!sVars
  <2>4. QED  BY <2>1, <2>2, <2>3 DEF Next, Terminated
<1>3. QED  BY <1>1, <1>2, Invariance, PTL DEF Spec, RefinesSessionSpec, Abstract!SSpec

=============================================================================
