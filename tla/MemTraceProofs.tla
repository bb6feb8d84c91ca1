--------------------------- MODULE MemTraceProofs ---------------------------
(***************************************************************************)
(* Proofs about MemTrace, for every number of threads, records and         *)
(* operations: no record is in two places, no sender waits for the queue,  *)
(* and each thread's operations are printed in their order.                *)
(***************************************************************************)
EXTENDS MemTrace, FiniteSetTheorems, TLAPS

-----------------------------------------------------------------------------
(* The inductive invariant.                                                *)

\* A record outside the pool is in one of three places: none is lost.
Accounted ==
  \A b \in mpool \ free :
    \/ b = trace_data
    \/ \E i \in 1 .. Len(MsgBox) : MsgBox[i] = b
    \/ \E t \in Senders : filling[t] = b

\* What such a record says of its thread: an operation the thread has done,
\* and one that is not printed yet.
Reported ==
  \A b \in mpool \ free :
    /\ content[b] \in Senders \X (0 .. MaxOps)
    /\ content[b][2] <= ops[content[b][1]]
    /\ printed[content[b][1]] < content[b][2]

\* A record being filled tells of its thread's last operation.
Newest ==
  \A t \in Senders : filling[t] # NULL => content[filling[t]] = <<t, ops[t]>>

\* The operation that b tells of came first, if it is the same thread's.
Earlier(b, c) == content[b][1] = content[c][1] => content[b][2] < content[c][2]

\* The records on their way are in the order of each thread's operations.
Ordered ==
  /\ \A i, j \in 1 .. Len(MsgBox) : i < j => Earlier(MsgBox[i], MsgBox[j])
  /\ \A i \in 1 .. Len(MsgBox) :
       /\ trace_data # NULL => Earlier(trace_data, MsgBox[i])
       /\ \A t \in Senders : filling[t] # NULL => Earlier(MsgBox[i], filling[t])
  /\ \A t \in Senders :
       trace_data # NULL /\ filling[t] # NULL => Earlier(trace_data, filling[t])

PrintedBound == \A t \in Senders : printed[t] <= ops[t]

Inv ==
  /\ MemTypeOK
  /\ OnePlace
  /\ Accounted
  /\ Reported
  /\ Newest
  /\ Ordered
  /\ PrintedBound

-----------------------------------------------------------------------------
(* The queue.                                                              *)

\* Putting a record leaves those before it in their positions.
LEMMA PutEffect ==
  ASSUME MsgBox \in Seq(mpool), NEW b \in mpool, MsgBox' = Append(MsgBox, b)
  PROVE  /\ MsgBox' \in Seq(mpool)
         /\ Len(MsgBox) \in Nat
         /\ Len(MsgBox') = Len(MsgBox) + 1
         /\ DOMAIN MsgBox = 1 .. Len(MsgBox)
         /\ DOMAIN MsgBox' = 1 .. Len(MsgBox')
         /\ \A i \in 1 .. Len(MsgBox) : MsgBox'[i] = MsgBox[i] /\ MsgBox[i] \in mpool
         /\ MsgBox'[Len(MsgBox')] = b
OBVIOUS

\* Getting one moves the others up by a position.
LEMMA GetEffect ==
  ASSUME MsgBox \in Seq(mpool), MsgBox # <<>>, MsgBox' = Tail(MsgBox)
  PROVE  /\ MsgBox' \in Seq(mpool)
         /\ Len(MsgBox) \in Nat /\ Len(MsgBox') \in Nat
         /\ Len(MsgBox) = Len(MsgBox') + 1
         /\ DOMAIN MsgBox = 1 .. Len(MsgBox)
         /\ DOMAIN MsgBox' = 1 .. Len(MsgBox')
         /\ \A i \in 1 .. Len(MsgBox') : MsgBox'[i] = MsgBox[i + 1]
         /\ \A i \in 1 .. Len(MsgBox) : MsgBox[i] \in mpool
         /\ Head(MsgBox) = MsgBox[1]
OBVIOUS

\* The positions of the queue.
LEMMA Positions ==
  ASSUME MsgBox \in Seq(mpool)
  PROVE  /\ Len(MsgBox) \in Nat
         /\ DOMAIN MsgBox = 1 .. Len(MsgBox)
         /\ \A i \in 1 .. Len(MsgBox) : MsgBox[i] \in mpool
OBVIOUS

-----------------------------------------------------------------------------
(* The invariant is inductive.                                             *)

LEMMA InitInv == ASSUME Init PROVE Inv
<1>1. MemTypeOK
  BY MaxOpsAssumption DEF Init, MemTypeOK
<1>2. OnePlace
  BY PoolAssumption DEF Init, OnePlace
<1>3. Accounted /\ Reported /\ Newest
  BY DEF Init, Accounted, Reported, Newest
<1>4. Ordered
  BY DEF Init, Ordered
<1>5. PrintedBound
  BY DEF Init, PrintedBound
<1>6. QED
  BY <1>1, <1>2, <1>3, <1>4, <1>5 DEF Inv

\* A thread takes a free record and fills it.
LEMMA TakeInv ==
  ASSUME Inv, NEW t \in Senders, MayAllocate(t), NEW b \in free, Take(t, b),
         ops' = [ops EXCEPT ![t] = @ + 1],
         UNCHANGED <<MsgBox, trace_data, printed>>
  PROVE  Inv'
<1>1. /\ b \in mpool /\ b # NULL /\ b # trace_data
      /\ filling[t] = NULL /\ ops[t] \in Nat /\ ops[t] < MaxOps
      /\ filling' = [filling EXCEPT ![t] = b]
      /\ content' = [content EXCEPT ![b] = <<t, ops[t] + 1>>]
      /\ free' = free \ {b} /\ free' \subseteq free
  BY PoolAssumption DEF Inv, MemTypeOK, OnePlace, MayAllocate, Take
<1>2. /\ DOMAIN MsgBox = 1 .. Len(MsgBox) /\ Len(MsgBox) \in Nat
      /\ \A i \in 1 .. Len(MsgBox) : MsgBox[i] \in mpool \ free /\ MsgBox[i] # b
  BY Positions DEF Inv, MemTypeOK, OnePlace
<1>3. /\ \A u \in Senders : u # t => filling'[u] = filling[u]
      /\ filling'[t] = b
      /\ \A u \in Senders : filling[u] # NULL => filling[u] \in mpool \ free
  BY <1>1 DEF Inv, MemTypeOK, OnePlace
<1>4. /\ content'[b] = <<t, ops[t] + 1>>
      /\ \A c \in mpool : c # b => content'[c] = content[c]
  BY <1>1 DEF Inv, MemTypeOK
<1>5. /\ ops'[t] = ops[t] + 1
      /\ \A u \in Senders : ops[u] \in 0 .. MaxOps /\ ops'[u] \in 0 .. MaxOps
      /\ \A u \in Senders : u # t => ops'[u] = ops[u]
  BY <1>1, MaxOpsAssumption DEF Inv, MemTypeOK
<1>6. trace_data # NULL => trace_data \in mpool \ free
  BY DEF Inv, MemTypeOK, OnePlace
<1>7. MemTypeOK'
  <2>1. /\ free' \subseteq mpool /\ MsgBox' \in Seq(mpool)
        /\ filling' \in [Senders -> mpool \cup {NULL}]
        /\ trace_data' \in mpool \cup {NULL}
        /\ printed' \in [Senders -> 0 .. MaxOps]
    BY <1>1 DEF Inv, MemTypeOK
  <2>2. <<t, ops[t] + 1>> \in Record
    BY <1>1 DEF Record
  <2>3. content' \in [mpool -> Record \cup {NULL}]
    BY <1>1, <2>2 DEF Inv, MemTypeOK
  <2>4. ops' \in [Senders -> 0 .. MaxOps]
    BY <1>1, MaxOpsAssumption DEF Inv, MemTypeOK
  <2>5. QED
    BY <2>1, <2>3, <2>4 DEF MemTypeOK
<1>8. OnePlace'
  BY <1>1, <1>2, <1>3 DEF Inv, OnePlace
<1>9. Accounted'
  <2>1. ASSUME NEW c \in mpool \ free', c # b
        PROVE  \/ c = trace_data
               \/ \E i \in 1 .. Len(MsgBox) : MsgBox[i] = c
               \/ \E u \in Senders : filling'[u] = c
    <3>1. c \in mpool \ free /\ c # NULL
      BY <2>1, <1>1, PoolAssumption
    <3>2. CASE \E u \in Senders : filling[u] = c
      <4>1. PICK u \in Senders : filling[u] = c
        BY <3>2
      <4>2. filling'[u] = c
        BY <4>1, <3>1, <1>1, <1>3
      <4>3. QED
        BY <4>2
    <3>3. QED
      BY <3>1, <3>2 DEF Inv, Accounted
  <2>2. QED
    BY <2>1, <1>3 DEF Accounted
<1>10. Reported'
  <2>1. ASSUME NEW c \in mpool \ free'
        PROVE  /\ content'[c] \in Senders \X (0 .. MaxOps)
               /\ content'[c][2] <= ops'[content'[c][1]]
               /\ printed'[content'[c][1]] < content'[c][2]
    <3>1. CASE c = b
      BY <3>1, <1>1, <1>4, <1>5, MaxOpsAssumption
         DEF Inv, MemTypeOK, PrintedBound
    <3>2. CASE c # b
      <4>1. c \in mpool \ free /\ content'[c] = content[c]
        BY <3>2, <1>1, <1>4
      <4>2. /\ content[c] \in Senders \X (0 .. MaxOps)
            /\ content[c][2] <= ops[content[c][1]]
            /\ printed[content[c][1]] < content[c][2]
        BY <4>1 DEF Inv, Reported
      <4>3. /\ content[c][1] \in Senders /\ content[c][2] \in 0 .. MaxOps
        BY <4>2
      <4>4. ops[content[c][1]] <= ops'[content[c][1]]
        BY <4>3, <1>5
      <4>5. content[c][2] <= ops'[content[c][1]]
        BY <4>2, <4>3, <4>4, <1>5
      <4>6. QED
        BY <4>1, <4>2, <4>5
    <3>3. QED
      BY <3>1, <3>2
  <2>2. QED
    BY <2>1 DEF Reported
<1>11. Newest'
  <2>1. ASSUME NEW u \in Senders, filling'[u] # NULL
        PROVE  content'[filling'[u]] = <<u, ops'[u]>>
    <3>1. CASE u = t
      BY <3>1, <1>1, <1>3, <1>4, <1>5
    <3>2. CASE u # t
      <4>1. filling[u] \in mpool \ free /\ filling[u] # b
        BY <3>2, <2>1, <1>3
      <4>2. content[filling[u]] = <<u, ops[u]>>
        BY <3>2, <2>1, <1>3 DEF Inv, Newest
      <4>3. content'[filling[u]] = content[filling[u]] /\ ops'[u] = ops[u]
        BY <3>2, <4>1, <1>4, <1>5
      <4>4. filling'[u] = filling[u]
        BY <3>2, <1>3
      <4>5. QED
        BY <4>2, <4>3, <4>4
    <3>3. QED
      BY <3>1, <3>2
  <2>2. QED
    BY <2>1 DEF Newest
<1>12. Ordered'
  <2>1. \A c \in mpool \ free : Earlier(c, b)'
    <3>1. ASSUME NEW c \in mpool \ free, content[c][1] = t
          PROVE  content[c][2] < ops[t] + 1
      <4>1. /\ content[c] \in Senders \X (0 .. MaxOps)
            /\ content[c][2] <= ops[t]
        BY <3>1 DEF Inv, Reported
      <4>2. content[c][2] \in Nat
        BY <4>1, MaxOpsAssumption
      <4>3. QED
        BY <4>1, <4>2, <1>1
    <3>2. \A c \in mpool \ free : content'[c] = content[c]
      BY <1>4
    <3>3. QED
      BY <3>1, <3>2, <1>4 DEF Earlier
  <2>2. \A c, d \in mpool \ free : Earlier(c, d) => Earlier(c, d)'
    BY <1>4 DEF Earlier
  <2>3. \A i, j \in 1 .. Len(MsgBox) : i < j => Earlier(MsgBox[i], MsgBox[j])'
    BY <1>2, <2>2 DEF Inv, Ordered
  <2>4. \A i \in 1 .. Len(MsgBox) :
          trace_data # NULL => Earlier(trace_data, MsgBox[i])'
    BY <1>2, <1>6, <2>2 DEF Inv, Ordered
  <2>5. \A i \in 1 .. Len(MsgBox) : \A u \in Senders :
          filling'[u] # NULL => Earlier(MsgBox[i], filling[u])'
    BY <1>2, <1>3, <2>1, <2>2 DEF Inv, Ordered
  <2>6. \A u \in Senders :
          trace_data # NULL /\ filling'[u] # NULL => Earlier(trace_data, filling[u])'
    BY <1>3, <1>6, <2>1, <2>2 DEF Inv, Ordered
  <2>7. QED
    BY <2>3, <2>4, <2>5, <2>6 DEF Ordered
<1>13. PrintedBound'
  BY <1>1, <1>5 DEF Inv, MemTypeOK, PrintedBound
<1>14. QED
  BY <1>7, <1>8, <1>9, <1>10, <1>11, <1>12, <1>13 DEF Inv

\* Without a free record the operation only counts.
LEMMA UnreportedInv ==
  ASSUME Inv, NEW t \in Senders, MayAllocate(t),
         ops' = [ops EXCEPT ![t] = @ + 1],
         UNCHANGED <<free, MsgBox, filling, trace_data, content, printed>>
  PROVE  Inv'
<1>1. /\ filling[t] = NULL /\ ops' \in [Senders -> 0 .. MaxOps]
      /\ ops'[t] = ops[t] + 1
      /\ \A u \in Senders : ops[u] \in 0 .. MaxOps /\ ops[u] <= ops'[u]
      /\ \A u \in Senders : u # t => ops'[u] = ops[u]
  BY MaxOpsAssumption DEF Inv, MemTypeOK, MayAllocate
<1>2. MemTypeOK'
  BY <1>1 DEF Inv, MemTypeOK
<1>3. OnePlace' /\ Accounted'
  BY DEF Inv, OnePlace, Accounted
<1>4. Reported'
  <2>1. ASSUME NEW c \in mpool \ free
        PROVE  content[c][2] <= ops'[content[c][1]]
    <3>1. /\ content[c] \in Senders \X (0 .. MaxOps)
          /\ content[c][2] <= ops[content[c][1]]
      BY DEF Inv, Reported
    <3>2. content[c][1] \in Senders /\ content[c][2] \in Nat
      BY <3>1, MaxOpsAssumption
    <3>3. ops[content[c][1]] \in Nat /\ ops'[content[c][1]] \in Nat
      BY <3>2, <1>1, MaxOpsAssumption
    <3>4. QED
      BY <3>1, <3>2, <3>3, <1>1
  <2>2. QED
    BY <2>1 DEF Inv, Reported
<1>5. Newest'
  BY <1>1 DEF Inv, Newest
<1>6. Ordered'
  BY DEF Inv, Ordered, Earlier
<1>7. PrintedBound'
  BY <1>1, MaxOpsAssumption DEF Inv, MemTypeOK, PrintedBound
<1>8. QED
  BY <1>2, <1>3, <1>4, <1>5, <1>6, <1>7 DEF Inv

\* A record is put; it was this thread's, and is now the last of the queue.
LEMMA PutInv ==
  ASSUME Inv, NEW t \in Senders, Put(t)
  PROVE  Inv'
<1> DEFINE b == filling[t]
<1>1. /\ b \in mpool /\ b # NULL /\ b \notin free /\ b # trace_data
      /\ MsgBox' = Append(MsgBox, b)
      /\ filling' = [filling EXCEPT ![t] = NULL]
      /\ UNCHANGED <<free, trace_data, content, ops, printed>>
  BY DEF Inv, MemTypeOK, OnePlace, Put
<1>2. /\ MsgBox' \in Seq(mpool)
      /\ Len(MsgBox) \in Nat
      /\ Len(MsgBox') = Len(MsgBox) + 1
      /\ DOMAIN MsgBox = 1 .. Len(MsgBox)
      /\ DOMAIN MsgBox' = 1 .. Len(MsgBox')
      /\ \A i \in 1 .. Len(MsgBox) : MsgBox'[i] = MsgBox[i] /\ MsgBox[i] \in mpool
      /\ MsgBox'[Len(MsgBox')] = b
  BY <1>1, PutEffect DEF Inv, MemTypeOK
<1>3. /\ \A u \in Senders : u # t => filling'[u] = filling[u] /\ filling[u] # b
      /\ filling'[t] = NULL
      /\ \A i \in 1 .. Len(MsgBox) : MsgBox[i] # b
  <2>1. \A u \in Senders : u # t => filling'[u] = filling[u]
    BY <1>1 DEF Inv, MemTypeOK
  <2>2. filling'[t] = NULL
    BY <1>1 DEF Inv, MemTypeOK
  <2>3. \A u \in Senders : u # t => filling[u] # b
    BY <1>1 DEF Inv, OnePlace
  <2>4. \A i \in 1 .. Len(MsgBox) : MsgBox[i] # b
    BY <1>1, <1>2 DEF Inv, OnePlace
  <2>5. QED
    BY <2>1, <2>2, <2>3, <2>4
<1> HIDE DEF b
<1>4. MemTypeOK'
  BY <1>1, <1>2 DEF Inv, MemTypeOK
<1>5. OnePlace'
  <2>1. \A u, v \in Senders :
          filling'[u] # NULL /\ filling'[u] = filling'[v] => u = v
    BY <1>3 DEF Inv, OnePlace
  <2>2. \A i, j \in DOMAIN MsgBox' : MsgBox'[i] = MsgBox'[j] => i = j
    BY <1>2, <1>3 DEF Inv, OnePlace
  <2>3. \A i \in DOMAIN MsgBox' : MsgBox'[i] \notin free \cup {trace_data}
    BY <1>1, <1>2 DEF Inv, OnePlace
  <2>4. ASSUME NEW u \in Senders, filling'[u] # NULL
        PROVE  filling'[u] \notin
                 free \cup {MsgBox'[i] : i \in DOMAIN MsgBox'} \cup {trace_data}
    <3>1. u # t /\ filling'[u] = filling[u] /\ filling[u] # b
      BY <2>4, <1>3
    <3>2. filling[u] \notin
            free \cup {MsgBox[i] : i \in DOMAIN MsgBox} \cup {trace_data}
      BY <2>4, <3>1 DEF Inv, OnePlace
    <3>3. \A i \in DOMAIN MsgBox' : MsgBox'[i] # filling[u]
      BY <3>1, <3>2, <1>2
    <3>4. QED
      BY <3>1, <3>2, <3>3
  <2>5. trace_data \notin free
    BY DEF Inv, OnePlace
  <2>6. QED
    BY <2>1, <2>2, <2>3, <2>4, <2>5, <1>1 DEF OnePlace
<1>6. Accounted'
  <2>1. ASSUME NEW c \in mpool \ free
        PROVE  \/ c = trace_data
               \/ \E i \in 1 .. Len(MsgBox') : MsgBox'[i] = c
               \/ \E u \in Senders : filling'[u] = c
    <3>1. CASE c = trace_data
      BY <3>1
    <3>2. CASE \E i \in 1 .. Len(MsgBox) : MsgBox[i] = c
      BY <3>2, <1>2
    <3>3. CASE c = b
      BY <3>3, <1>2
    <3>4. CASE c # b /\ \E u \in Senders : filling[u] = c
      BY <3>4, <1>3 DEF b
    <3>5. QED
      BY <3>1, <3>2, <3>3, <3>4 DEF Inv, Accounted
  <2>2. QED
    BY <2>1, <1>1 DEF Accounted
<1>7. Reported'
  BY <1>1 DEF Inv, Reported
<1>8. Newest'
  <2>1. ASSUME NEW u \in Senders, filling'[u] # NULL
        PROVE  content[filling'[u]] = <<u, ops[u]>>
    <3>1. u # t /\ filling'[u] = filling[u]
      BY <2>1, <1>3
    <3>2. QED
      BY <2>1, <3>1 DEF Inv, Newest
  <2>2. QED
    BY <2>1, <1>1 DEF Newest
<1>9. Ordered'
  <2>1. \A c, d \in mpool : Earlier(c, d) => Earlier(c, d)'
    BY <1>1 DEF Earlier
  <2>2. /\ \A i \in 1 .. Len(MsgBox) : Earlier(MsgBox[i], b)
        /\ trace_data # NULL => Earlier(trace_data, b)
    BY <1>1 DEF Inv, Ordered, b
  <2>3. \A i, j \in 1 .. Len(MsgBox') : i < j => Earlier(MsgBox'[i], MsgBox'[j])
    <3>1. ASSUME NEW i \in 1 .. Len(MsgBox'), NEW j \in 1 .. Len(MsgBox'), i < j
          PROVE  Earlier(MsgBox'[i], MsgBox'[j])
      <4>1. i \in 1 .. Len(MsgBox) /\ MsgBox'[i] = MsgBox[i]
        BY <3>1, <1>2
      <4>2. CASE j \in 1 .. Len(MsgBox)
        BY <4>1, <4>2, <3>1, <1>2 DEF Inv, Ordered
      <4>3. CASE j = Len(MsgBox')
        BY <4>1, <4>3, <1>2, <2>2
      <4>4. QED
        BY <4>2, <4>3, <3>1, <1>2
    <3>2. QED
      BY <3>1
  <2>4. \A i \in 1 .. Len(MsgBox') :
          trace_data # NULL => Earlier(trace_data, MsgBox'[i])
    <3>1. ASSUME NEW i \in 1 .. Len(MsgBox'), trace_data # NULL
          PROVE  Earlier(trace_data, MsgBox'[i])
      <4>1. CASE i \in 1 .. Len(MsgBox)
        BY <3>1, <4>1, <1>2 DEF Inv, Ordered
      <4>2. CASE i = Len(MsgBox')
        BY <3>1, <4>2, <1>2, <2>2
      <4>3. QED
        BY <4>1, <4>2, <1>2
    <3>2. QED
      BY <3>1
  <2>5. ASSUME NEW u \in Senders, filling'[u] # NULL
        PROVE  /\ \A i \in 1 .. Len(MsgBox') : Earlier(MsgBox'[i], filling'[u])
               /\ trace_data # NULL => Earlier(trace_data, filling'[u])
    <3>1. u # t /\ filling'[u] = filling[u] /\ filling[u] # NULL
      BY <2>5, <1>3
    <3>2. content[b] = <<t, ops[t]>> /\ content[filling[u]] = <<u, ops[u]>>
      BY <3>1, <1>1 DEF Inv, Newest, b
    <3>3. Earlier(b, filling[u])
      BY <3>1, <3>2 DEF Earlier
    <3>4. \A i \in 1 .. Len(MsgBox) : Earlier(MsgBox[i], filling[u])
      BY <3>1 DEF Inv, Ordered
    <3>5. trace_data # NULL => Earlier(trace_data, filling[u])
      BY <3>1 DEF Inv, Ordered
    <3>6. QED
      BY <3>1, <3>3, <3>4, <3>5, <1>2
  <2>6. content' = content /\ trace_data' = trace_data
    BY <1>1
  <2>7. QED
    BY <2>3, <2>4, <2>5, <2>6 DEF Ordered, Earlier
<1>10. PrintedBound'
  BY <1>1 DEF Inv, PrintedBound
<1>11. QED
  BY <1>4, <1>5, <1>6, <1>7, <1>8, <1>9, <1>10 DEF Inv

\* The record that was put first is printed next.
LEMMA GetInv ==
  ASSUME Inv, Get
  PROVE  Inv'
<1>1. /\ trace_data = NULL /\ MsgBox # <<>>
      /\ MsgBox' = Tail(MsgBox)
      /\ UNCHANGED <<free, filling, content, ops, printed>>
  BY DEF Get
<1>2. /\ MsgBox' \in Seq(mpool)
      /\ Len(MsgBox) \in Nat /\ Len(MsgBox') \in Nat
      /\ Len(MsgBox) = Len(MsgBox') + 1
      /\ DOMAIN MsgBox = 1 .. Len(MsgBox)
      /\ DOMAIN MsgBox' = 1 .. Len(MsgBox')
      /\ \A i \in 1 .. Len(MsgBox') : MsgBox'[i] = MsgBox[i + 1]
      /\ \A i \in 1 .. Len(MsgBox) : MsgBox[i] \in mpool
      /\ trace_data' = MsgBox[1]
  BY <1>1, GetEffect DEF Inv, MemTypeOK, Get
<1>3. 1 \in 1 .. Len(MsgBox)
      /\ \A i \in 1 .. Len(MsgBox') : i + 1 \in 1 .. Len(MsgBox) /\ 1 < i + 1
  BY <1>2
<1>4. trace_data' \in mpool /\ trace_data' # NULL
  BY <1>2, <1>3, PoolAssumption
<1>5. MemTypeOK'
  BY <1>1, <1>2, <1>4 DEF Inv, MemTypeOK
<1>6. OnePlace'
  <2>1. \A i \in 1 .. Len(MsgBox') : MsgBox'[i] \notin free \cup {trace_data'}
    <3>1. ASSUME NEW i \in 1 .. Len(MsgBox')
          PROVE  MsgBox'[i] \notin free \cup {trace_data'}
      <4>1. MsgBox[i + 1] # MsgBox[1]
        BY <1>2, <1>3 DEF Inv, OnePlace
      <4>2. MsgBox[i + 1] \notin free
        BY <1>2, <1>3 DEF Inv, OnePlace
      <4>3. QED
        BY <4>1, <4>2, <1>2
    <3>2. QED
      BY <3>1
  <2>2. \A i, j \in 1 .. Len(MsgBox') : MsgBox'[i] = MsgBox'[j] => i = j
    <3>1. ASSUME NEW i \in 1 .. Len(MsgBox'), NEW j \in 1 .. Len(MsgBox'),
                 MsgBox[i + 1] = MsgBox[j + 1]
          PROVE  i = j
      <4>1. i + 1 = j + 1
        BY <3>1, <1>2, <1>3 DEF Inv, OnePlace
      <4>2. QED
        BY <4>1, <1>2
    <3>2. QED
      BY <3>1, <1>2
  <2>3. ASSUME NEW t \in Senders, filling[t] # NULL
        PROVE  filling[t] \notin
                 free \cup {MsgBox'[i] : i \in DOMAIN MsgBox'} \cup {trace_data'}
    <3>1. /\ filling[t] \notin free
          /\ \A i \in 1 .. Len(MsgBox) : filling[t] # MsgBox[i]
      BY <2>3, <1>2 DEF Inv, OnePlace
    <3>2. \A i \in DOMAIN MsgBox' : filling[t] # MsgBox'[i]
      BY <3>1, <1>2, <1>3
    <3>3. filling[t] # trace_data'
      BY <3>1, <1>2, <1>3
    <3>4. QED
      BY <3>1, <3>2, <3>3
  <2>4. trace_data' \notin free
    BY <1>2, <1>3 DEF Inv, OnePlace
  <2>5. \A t, u \in Senders : filling[t] # NULL /\ filling[t] = filling[u] => t = u
    BY DEF Inv, OnePlace
  <2>6. QED
    BY <2>1, <2>2, <2>3, <2>4, <2>5, <1>1, <1>2 DEF OnePlace
<1>7. Accounted'
  <2>1. ASSUME NEW c \in mpool \ free
        PROVE  \/ c = trace_data'
               \/ \E i \in 1 .. Len(MsgBox') : MsgBox'[i] = c
               \/ \E t \in Senders : filling[t] = c
    <3>1. CASE \E i \in 1 .. Len(MsgBox) : MsgBox[i] = c
      <4>1. PICK i \in 1 .. Len(MsgBox) : MsgBox[i] = c
        BY <3>1
      <4>2. CASE i = 1
        BY <4>1, <4>2, <1>2
      <4>3. CASE i # 1
        <5>1. i - 1 \in 1 .. Len(MsgBox') /\ (i - 1) + 1 = i
          BY <4>3, <1>2
        <5>2. MsgBox'[i - 1] = c
          BY <5>1, <4>1, <1>2
        <5>3. QED
          BY <5>1, <5>2
      <4>4. QED
        BY <4>2, <4>3
    <3>2. c # trace_data
      BY <1>1, PoolAssumption
    <3>3. QED
      BY <3>1, <3>2 DEF Inv, Accounted
  <2>2. QED
    BY <2>1, <1>1 DEF Accounted
<1>8. Reported'
  BY <1>1 DEF Inv, Reported
<1>9. Newest'
  BY <1>1 DEF Inv, Newest
<1>10. Ordered'
  <2>1. \A i, j \in 1 .. Len(MsgBox') : i < j => Earlier(MsgBox'[i], MsgBox'[j])
    <3>1. ASSUME NEW i \in 1 .. Len(MsgBox'), NEW j \in 1 .. Len(MsgBox'), i < j
          PROVE  Earlier(MsgBox'[i], MsgBox'[j])
      <4>1. i + 1 < j + 1
        BY <3>1, <1>2
      <4>2. Earlier(MsgBox[i + 1], MsgBox[j + 1])
        BY <4>1, <1>3 DEF Inv, Ordered
      <4>3. QED
        BY <4>2, <1>2
    <3>2. QED
      BY <3>1
  <2>2. \A i \in 1 .. Len(MsgBox') : Earlier(trace_data', MsgBox'[i])
    <3>1. ASSUME NEW i \in 1 .. Len(MsgBox')
          PROVE  Earlier(trace_data', MsgBox'[i])
      <4>1. Earlier(MsgBox[1], MsgBox[i + 1])
        BY <1>3 DEF Inv, Ordered
      <4>2. QED
        BY <4>1, <1>2
    <3>2. QED
      BY <3>1
  <2>3. ASSUME NEW t \in Senders, filling[t] # NULL
        PROVE  /\ \A i \in 1 .. Len(MsgBox') : Earlier(MsgBox'[i], filling[t])
               /\ Earlier(trace_data', filling[t])
    <3>1. \A i \in 1 .. Len(MsgBox) : Earlier(MsgBox[i], filling[t])
      BY <2>3 DEF Inv, Ordered
    <3>2. QED
      BY <3>1, <1>2, <1>3
  <2>4. QED
    BY <2>1, <2>2, <2>3, <1>1 DEF Ordered, Earlier
<1>11. PrintedBound'
  BY <1>1 DEF Inv, PrintedBound
<1>12. QED
  BY <1>5, <1>6, <1>7, <1>8, <1>9, <1>10, <1>11 DEF Inv

\* A record is printed and freed; those behind it tell of later operations.
LEMMA ReceiveInv ==
  ASSUME Inv, Receive
  PROVE  Inv' /\ PrintsLater
<1> DEFINE b == trace_data
           s == content[b][1]
           n == content[b][2]
<1>1. /\ b \in mpool \ free /\ b # NULL
      /\ printed' = [printed EXCEPT ![s] = n]
      /\ free' = free \cup {b}
      /\ trace_data' = NULL
      /\ UNCHANGED <<MsgBox, filling, content, ops>>
  BY DEF Inv, MemTypeOK, OnePlace, Receive
<1>2. /\ content[b] \in Senders \X (0 .. MaxOps)
      /\ n <= ops[s] /\ printed[s] < n
  BY <1>1 DEF Inv, Reported
<1>3. s \in Senders /\ n \in 0 .. MaxOps
  BY <1>2
<1> HIDE DEF b, s, n
<1>4. /\ DOMAIN MsgBox = 1 .. Len(MsgBox)
      /\ \A i \in 1 .. Len(MsgBox) : MsgBox[i] # b
      /\ \A t \in Senders : filling[t] # NULL => filling[t] # b
  BY Positions, <1>1 DEF Inv, MemTypeOK, OnePlace, b
<1>5. /\ printed'[s] = n
      /\ \A t \in Senders : t # s => printed'[t] = printed[t]
  BY <1>1, <1>3 DEF Inv, MemTypeOK
<1>6. MemTypeOK'
  BY <1>1, <1>3 DEF Inv, MemTypeOK
<1>7. OnePlace'
  BY <1>1, <1>4, PoolAssumption, Positions DEF Inv, MemTypeOK, OnePlace
<1>8. Accounted'
  BY <1>1 DEF Inv, Accounted, b
<1>9. Reported'
  <2>1. ASSUME NEW c \in mpool \ free, c # b
        PROVE  /\ content[c] \in Senders \X (0 .. MaxOps)
               /\ content[c][2] <= ops[content[c][1]]
               /\ printed'[content[c][1]] < content[c][2]
    <3>1. /\ content[c] \in Senders \X (0 .. MaxOps)
          /\ content[c][2] <= ops[content[c][1]]
          /\ printed[content[c][1]] < content[c][2]
      BY DEF Inv, Reported
    <3>2. Earlier(b, c)
      <4>1. c # NULL
        BY PoolAssumption
      <4>2. \/ \E i \in 1 .. Len(MsgBox) : MsgBox[i] = c
            \/ \E t \in Senders : filling[t] = c
        BY <2>1 DEF Inv, Accounted, b
      <4>3. QED
        BY <4>1, <4>2, <1>1 DEF Inv, Ordered, b
    <3>3. CASE content[c][1] = s
      BY <3>1, <3>2, <3>3, <1>5 DEF Earlier, s, n
    <3>4. CASE content[c][1] # s
      <4>1. content[c][1] \in Senders
        BY <3>1
      <4>2. QED
        BY <3>1, <3>4, <4>1, <1>5
    <3>5. QED
      BY <3>1, <3>3, <3>4
  <2>2. QED
    BY <2>1, <1>1 DEF Reported
<1>10. Newest'
  BY <1>1 DEF Inv, Newest
<1>11. Ordered'
  BY <1>1 DEF Inv, Ordered, Earlier
<1>12. PrintedBound'
  BY <1>1, <1>2, <1>5 DEF Inv, PrintedBound, s, n
<1>13. Inv'
  BY <1>6, <1>7, <1>8, <1>9, <1>10, <1>11, <1>12 DEF Inv
<1>14. PrintsLater
  <2>1. printed[s] \in Nat /\ n \in Nat /\ printed[s] < n
    BY <1>2, <1>3, MaxOpsAssumption DEF Inv, MemTypeOK, s, n
  <2>2. QED
    BY <2>1, <1>5 DEF PrintsLater, s, b
<1>15. QED
  BY <1>13, <1>14

-----------------------------------------------------------------------------
(* Theorems.                                                               *)

LEMMA NextInv ==
  ASSUME Inv, [Next]_vars
  PROVE  /\ Inv'
         /\ trace_data # NULL /\ trace_data' = NULL => PrintsLater
<1>1. ASSUME NEW t \in Senders, Allocate(t)
      PROVE  Inv' /\ trace_data' = trace_data
  <2>1. /\ MayAllocate(t) /\ ops' = [ops EXCEPT ![t] = @ + 1]
        /\ UNCHANGED <<MsgBox, trace_data, printed>>
    BY <1>1 DEF Allocate
  <2>2. CASE free # {}
    <3>1. PICK b \in free : Take(t, b)
      BY <1>1, <2>2 DEF Allocate
    <3>2. QED
      BY <2>1, <3>1, TakeInv
  <2>3. CASE free = {}
    <3>1. UNCHANGED <<free, filling, content>>
      BY <1>1, <2>3 DEF Allocate
    <3>2. QED
      BY <2>1, <3>1, UnreportedInv
  <2>4. QED
    BY <2>2, <2>3
<1>2. ASSUME NEW t \in Senders, Put(t)
      PROVE  Inv' /\ trace_data' = trace_data
  BY <1>2, PutInv DEF Put
<1>3. CASE Get
  BY <1>3, GetInv DEF Get
<1>4. CASE Receive
  BY <1>4, ReceiveInv
<1>5. CASE UNCHANGED vars
  <2>1. UNCHANGED <<free, MsgBox, filling, trace_data, content, ops, printed>>
    BY <1>5 DEF vars
  <2>2. QED
    BY <2>1 DEF Inv, MemTypeOK, OnePlace, Accounted, Reported, Newest, Ordered,
                Earlier, PrintedBound
<1>6. QED
  BY <1>1, <1>2, <1>3, <1>4, <1>5 DEF Next

THEOREM MemInvariance == SafeSpec => []Inv
<1>1. Init => Inv
  BY InitInv
<1>2. Inv /\ [Next]_vars => Inv'
  BY NextInv
<1>3. QED
  BY <1>1, <1>2, PTL DEF SafeSpec

\* The variables keep to their values: what is printed was reported.
THEOREM MemTypeCorrect == SafeSpec => []MemTypeOK
<1>1. Inv => MemTypeOK
  BY DEF Inv
<1>2. QED
  BY <1>1, MemInvariance, PTL

\* No record is in two places: what one thread fills no other one uses,
\* and recv_thread prints none that is free or queued again.
THEOREM RecordsNotShared == SafeSpec => []OnePlace
<1>1. Inv => OnePlace
  BY DEF Inv
<1>2. QED
  BY <1>1, MemInvariance, PTL

\* A pool no larger than the queue makes osWaitForever harmless: whoever holds
\* a record finds a place for it, since the queue holds other records only.
LEMMA PlaceLeft == Inv => NeverWaits
<1> SUFFICES ASSUME Inv, NEW t \in Senders, filling[t] # NULL
             PROVE  Len(MsgBox) < QueueSize
  BY DEF NeverWaits
<1> DEFINE others == mpool \ {filling[t]}
           where == [i \in 1 .. Len(MsgBox) |-> MsgBox[i]]
<1>1. filling[t] \in mpool
  BY DEF Inv, MemTypeOK
<1>2. /\ IsFiniteSet(others)
      /\ Cardinality(others) = Cardinality(mpool) - 1
  BY <1>1, PoolAssumption, FS_RemoveElement
<1>3. Cardinality(mpool) \in Nat
  BY PoolAssumption, FS_CardinalityType
<1>4. /\ Len(MsgBox) \in Nat
      /\ DOMAIN MsgBox = 1 .. Len(MsgBox)
      /\ \A i \in 1 .. Len(MsgBox) : MsgBox[i] \in mpool
  BY Positions DEF Inv, MemTypeOK
<1>5. where \in [1 .. Len(MsgBox) -> others]
  BY <1>4 DEF Inv, OnePlace
<1>6. \A i, j \in 1 .. Len(MsgBox) : where[i] = where[j] => i = j
  BY <1>4 DEF Inv, OnePlace
<1>7. /\ IsFiniteSet(1 .. Len(MsgBox))
      /\ Cardinality(1 .. Len(MsgBox)) = Len(MsgBox)
  <2>1. 1 \in Int /\ Len(MsgBox) \in Int
    BY <1>4
  <2>2. QED
    BY <2>1, <1>4, FS_Interval
<1>8. Len(MsgBox) <= Cardinality(others)
  <2> HIDE DEF others, where
  <2>1. ~ (Cardinality(others) < Cardinality(1 .. Len(MsgBox)))
    BY <1>2, <1>5, <1>6, <1>7, FS_PigeonHole
  <2>2. QED
    BY <2>1, <1>2, <1>3, <1>4, <1>7
<1>9. QED
  BY <1>2, <1>3, <1>4, <1>8, PoolAssumption

\* "Waiting is not a option": no report waits for the queue, however many
\* threads allocate and however they interleave.
THEOREM ReportsNeverWait == SafeSpec => []NeverWaits
<1>1. QED
  BY PlaceLeft, MemInvariance, PTL

\* Each thread's operations are printed in their order and none twice: what is
\* printed comes after everything printed of the same thread before.
THEOREM PrintedInOrder == SafeSpec => InOrder
<1>1. Inv /\ [Next]_vars =>
        [trace_data # NULL /\ trace_data' = NULL => PrintsLater]_vars
  BY NextInv
<1>2. QED
  BY <1>1, MemInvariance, PTL DEF SafeSpec, InOrder

=============================================================================
