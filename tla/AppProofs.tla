----------------------------- MODULE AppProofs -----------------------------
(***************************************************************************)
(* The application, for any timeouts, files, sizes and numbers of calls:   *)
(* the callback of the scheduler is owed at most once, UIManager keeps its *)
(* two maps in agreement, a mapped buffer is bytes that no draw in flight  *)
(* reads, a valid result owns a shader or program that exists and only     *)
(* failed calls leave one without an owner, and the profiler's window      *)
(* shows the frames that lie in its range.                                 *)
(***************************************************************************)
EXTENDS App, GLBuffer, GLShader, ProfilerView, TLAPS

(* OnceForAStart needs to know that no call from outside is owed while the *)
(* callback runs: its return would overwrite one.  The callback runs when  *)
(* some call of it has not returned.                                       *)
OwedInv ==
    /\ OnceForAStart
    /\ depth \in Nat /\ (depth > 0 <=> pc = "callback")
    /\ depth > 0 => owed # "outside"

(* The client's calls keep it wherever they are made.                      *)
LEMMA ClientKeeps ==
    ASSUME OwedInv, ClientCalls
    PROVE  OwedInv'
<1>1. CASE UNCHANGED schedulerVars
  BY <1>1 DEF OwedInv, OnceForAStart, ClientCalls, loopVars, schedulerVars
<1>2. CASE SchedulerStop
  BY <1>2 DEF OwedInv, OnceForAStart, ClientCalls, loopVars, SchedulerStop
<1>3. ASSUME NEW s \in Timeouts,
             SchedulerStart(s)
      PROVE  OwedInv'
  BY <1>3 DEF OwedInv, OnceForAStart, ClientCalls, loopVars, SchedulerStart
<1>4. CASE pc = "callback" /\ CallbackBegins
  BY <1>4 DEF OwedInv, OnceForAStart, ClientCalls, loopVars, CallbackBegins
<1> QED BY <1>1, <1>2, <1>3, <1>4 DEF ClientCalls

(* A scheduler_update outside the callback calls it once for a start and   *)
(* never after a stop, whenever the client starts and stops the schedule,  *)
(* inside the callback or outside, however often it updates the schedule   *)
(* inside the callback, and however the loop goes.                         *)
THEOREM CallbackOnce == Spec => []OnceForAStart
<1>1. Init => OwedInv
  BY DEF Init, SchedulerInit, OwedInv, OnceForAStart
<1>2. OwedInv /\ [Next]_vars => OwedInv'
  <2> SUFFICES ASSUME OwedInv, [Next]_vars PROVE OwedInv' OBVIOUS
  <2> USE DEF OwedInv, OnceForAStart, Goto, partVars, schedulerVars
  <2>1. CASE StartFails \/ Start \/ EnterLoop \/ KeyEventReturns \/ BeginFrame
    BY <2>1 DEF StartFails, Start, EnterLoop, KeyEventReturns, BeginFrame
  <2>2. CASE Sleep \/ UNCHANGED vars
    BY <2>2 DEF Sleep, vars, loopVars
  <2>3. CASE Update
    BY <2>3 DEF Update, NotDue, CallbackBegins, Due
  <2>4. CASE CallbackEnds
    BY <2>4 DEF CallbackEnds, CallbackReturns
  <2>5. CASE EndFrame \/ Destroy
    BY <2>5 DEF EndFrame, Destroy
  <2>6. ASSUME NEW kind \in {"quit", "key", "hide", "show", "other"}, Event(kind)
        PROVE  OwedInv'
    BY <2>6 DEF Event
  <2>7. CASE TimePasses
    BY <2>7 DEF TimePasses, Tick, loopVars
  <2> HIDE DEF OwedInv, OnceForAStart
  <2> QED BY <2>1, <2>2, <2>3, <2>4, <2>5, <2>6, <2>7, ClientKeeps DEF Next, Loop
<1>3. OwedInv => OnceForAStart
  BY DEF OwedInv
<1> QED BY <1>1, <1>2, <1>3, PTL DEF Spec

-----------------------------------------------------------------------------
(* IndexAgrees with the types, and with the bound that keeps the ids in    *)
(* order when the next one is appended.                                    *)
IndexInv ==
    /\ currentId \in Nat \ {0}
    /\ fileMessages \in [File -> Seq(Nat)]
    /\ \A f \in File : \A i \in 1..Len(fileMessages[f]) : fileMessages[f][i] < currentId
    /\ IndexAgrees

(* What RemoveMessage and ClearFileMessages leave of the index: each file  *)
(* keeps its ids or loses all of them.                                     *)
LEMMA RemovedShrinks ==
    ASSUME NEW id, fileMessages \in [File -> Seq(Nat)]
    PROVE  /\ Removed(id) \in [File -> Seq(Nat)]
           /\ \A f \in File : Removed(id)[f] \in {fileMessages[f], <<>>}
<1>1. <<>> \in Seq(Nat)
  OBVIOUS
<1>2. CASE id \in DOMAIN taskMessages /\ taskMessages[id] # NoFile
  <2> DEFINE g == taskMessages[id]
  <2>1. Removed(id) = [fileMessages EXCEPT ![g] = <<>>]
    BY <1>2 DEF Removed
  <2>2. \A f \in File : Removed(id)[f] = IF f = g THEN <<>> ELSE fileMessages[f]
    BY <2>1
  <2>3. Removed(id) \in [File -> Seq(Nat)]
    BY <1>1, <2>1, Zenon
  <2> QED BY <2>2, <2>3
<1>3. CASE ~(id \in DOMAIN taskMessages /\ taskMessages[id] # NoFile)
  <2>1. Removed(id) = fileMessages
    BY <1>3 DEF Removed
  <2> QED BY <2>1
<1> QED BY <1>2, <1>3

(* Losing ids keeps the agreement.                                         *)
LEMMA ShrinkKeeps ==
    ASSUME IndexInv, UNCHANGED <<currentId, taskMessages>>,
           fileMessages' \in [File -> Seq(Nat)],
           \A f \in File : fileMessages'[f] \in {fileMessages[f], <<>>}
    PROVE  IndexInv'
BY DEF IndexInv, IndexAgrees

(* Appending the next id, with a message that is kept, does too.           *)
LEMMA AddKeeps ==
    ASSUME NEW file \in File \cup {NoFile}, NEW isTask \in BOOLEAN,
           IndexInv, AddMessage(file, isTask)
    PROVE  IndexInv'
<1> USE FileAssumption
<1>1. currentId' \in Nat \ {0} /\ fileMessages' \in [File -> Seq(Nat)]
  BY DEF IndexInv, AddMessage
<1>2. ASSUME NEW f \in File, f # file
      PROVE  fileMessages'[f] = fileMessages[f]
  BY <1>2 DEF AddMessage
<1>3. ASSUME NEW f \in File, f = file
      PROVE  /\ fileMessages'[f] = Append(fileMessages[f], currentId)
             /\ currentId \in DOMAIN taskMessages' /\ taskMessages'[currentId] = f
  BY <1>3 DEF AddMessage, Keeps
<1>4. \A id \in DOMAIN taskMessages : id # currentId =>
          id \in DOMAIN taskMessages' /\ taskMessages'[id] = taskMessages[id]
  BY DEF AddMessage
<1>5. ASSUME NEW f \in File
      PROVE  /\ \A i \in 1..Len(fileMessages'[f]) :
                   /\ fileMessages'[f][i] < currentId'
                   /\ fileMessages'[f][i] \in DOMAIN taskMessages'
                   /\ taskMessages'[fileMessages'[f][i]] = f
             /\ \A i, j \in 1..Len(fileMessages'[f]) :
                   i < j => fileMessages'[f][i] < fileMessages'[f][j]
  <2> DEFINE ids == fileMessages[f]
             new == fileMessages'[f]
  <2>1. /\ ids \in Seq(Nat) /\ Len(ids) \in Nat
        /\ currentId \in Nat /\ currentId' = currentId + 1
    BY DEF IndexInv, AddMessage
  <2>2. /\ \A i \in 1..Len(ids) : ids[i] \in Nat /\ ids[i] < currentId
        /\ \A i, j \in 1..Len(ids) : i < j => ids[i] < ids[j]
    <3>1. \A i \in 1..Len(ids) : ids[i] \in Nat
      BY <2>1, SMT
    <3>2. /\ \A i \in 1..Len(ids) : ids[i] < currentId
          /\ \A i, j \in 1..Len(ids) : i < j => ids[i] < ids[j]
      BY Zenon DEF IndexInv, IndexAgrees
    <3> QED BY <3>1, <3>2, Zenon
  <2>3. \A i \in 1..Len(ids) : ids[i] \in DOMAIN taskMessages /\ taskMessages[ids[i]] = f
    BY Zenon DEF IndexInv, IndexAgrees
  <2>4. \A i \in 1..Len(ids) : ids[i] \in DOMAIN taskMessages' /\ taskMessages'[ids[i]] = f
    <3> TAKE i \in 1..Len(ids)
    <3>1. ids[i] # currentId
      BY <2>1, <2>2
    <3> QED BY <1>4, <2>3, <3>1
  <2>5. CASE f # file
    <3>1. new = ids
      BY <1>2, <2>5
    <3> HIDE DEF ids, new
    <3>2. \A i \in 1..Len(ids) : ids[i] < currentId'
      BY <2>1, <2>2
    <3> QED BY <2>2, <2>4, <3>1, <3>2, ZenonT(30) DEF new
  <2>6. CASE f = file
    <3>1. /\ new = Append(ids, currentId)
          /\ currentId \in DOMAIN taskMessages' /\ taskMessages'[currentId] = f
      BY <1>3, <2>6
    <3> HIDE DEF ids, new
    <3>2. /\ Len(new) = Len(ids) + 1 /\ new[Len(ids) + 1] = currentId
          /\ \A i \in 1..Len(ids) : new[i] = ids[i]
      BY <2>1, <3>1, SMT
    <3>3. \A i \in 1..Len(new) : i = Len(ids) + 1 \/ i \in 1..Len(ids)
      BY <2>1, <3>2
    <3>4. \A i \in 1..Len(new) : new[i] < currentId'
      BY <2>1, <2>2, <3>2, <3>3
    <3>5. \A i \in 1..Len(new) : new[i] \in DOMAIN taskMessages' /\ taskMessages'[new[i]] = f
      BY <2>4, <3>1, <3>2, <3>3
    <3>6. \A i, j \in 1..Len(new) : i < j => new[i] < new[j]
      <4> TAKE i, j \in 1..Len(new)
      <4> HAVE i < j
      <4>1. i \in 1..Len(ids)
        BY <2>1, <3>2
      <4> QED BY <2>2, <3>2, <3>3, <4>1
    <3> QED BY <3>4, <3>5, <3>6 DEF new
  <2> QED BY <2>5, <2>6
<1> QED BY <1>1, <1>5 DEF IndexInv, IndexAgrees

(* Every call of UIManager preserves the strengthened agreement.           *)
LEMMA IndexInductive == MessagesSpec => []IndexInv
<1>1. MessagesInit => IndexInv
  BY DEF MessagesInit, IndexInv, IndexAgrees
<1>2. IndexInv /\ [MessagesNext]_messageVars => IndexInv'
  <2> SUFFICES ASSUME IndexInv, [MessagesNext]_messageVars PROVE IndexInv' OBVIOUS
  <2>1. ASSUME NEW id, RemoveMessage(id) PROVE IndexInv'
    BY <2>1, RemovedShrinks, ShrinkKeeps DEF RemoveMessage, IndexInv
  <2>2. ASSUME NEW f \in File, ClearFileMessages(f) PROVE IndexInv'
    BY <2>2, RemovedShrinks, ShrinkKeeps DEF ClearFileMessages, IndexInv
  <2>3. CASE UNCHANGED messageVars
    BY <2>3 DEF messageVars, IndexInv, IndexAgrees
  <2> QED BY <2>1, <2>2, <2>3, AddKeeps DEF MessagesNext
<1> QED BY <1>1, <1>2, PTL DEF MessagesSpec

(* The two maps of UIManager agree after any sequence of AddMessage,       *)
(* RemoveMessage and ClearFileMessages, so the loop of ClearFileMessages   *)
(* ends.                                                                   *)
THEOREM Agreement == MessagesSpec => []IndexAgrees
<1>1. IndexInv => IndexAgrees
  BY DEF IndexInv
<1> QED BY <1>1, IndexInductive, PTL

(* ClearFileMessages empties the entry of its file and no other, and keeps *)
(* the messages themselves.  That the entry is emptied rests on the        *)
(* agreement: the first id listed for a file is one of a message about     *)
(* that file.                                                              *)
THEOREM ExactClear == MessagesSpec => ClearIsExact
<1> DEFINE Exact == \A f \in File : ClearFileMessages(f) =>
                      /\ fileMessages'[f] = <<>>
                      /\ taskMessages' = taskMessages
                      /\ \A g \in File \ {f} : fileMessages'[g] = fileMessages[g]
<1>1. ASSUME IndexInv, NEW f \in File, ClearFileMessages(f)
      PROVE  /\ fileMessages'[f] = <<>>
             /\ taskMessages' = taskMessages
             /\ \A g \in File \ {f} : fileMessages'[g] = fileMessages[g]
  <2>0. taskMessages' = taskMessages
    BY <1>1 DEF ClearFileMessages
  <2>1. CASE fileMessages[f] = <<>>
    BY <1>1, <2>0, <2>1 DEF ClearFileMessages
  <2>2. CASE fileMessages[f] # <<>>
    <3> DEFINE id == fileMessages[f][1]
    <3>1. 1 \in 1..Len(fileMessages[f])
      BY <1>1, <2>2 DEF IndexInv
    <3>2. id \in DOMAIN taskMessages /\ taskMessages[id] = f
      BY <1>1, <3>1 DEF IndexInv, IndexAgrees
    <3>3. fileMessages' = [fileMessages EXCEPT ![f] = <<>>]
      BY <1>1, <2>2, <3>2, FileAssumption DEF ClearFileMessages, Removed
    <3> QED BY <1>1, <2>0, <3>3 DEF IndexInv
  <2> QED BY <2>1, <2>2
<1>2. IndexInv => [Exact]_messageVars
  BY <1>1
<1> QED BY <1>2, IndexInductive, PTL DEF ClearIsExact

-----------------------------------------------------------------------------
(* Offsets are whole numbers of elements.                                  *)
Whole(n, t) == \E q \in Nat : n = q * t

(* MappedIsFree, with what the next Map relies on: the bytes in use lie    *)
(* before m_offset, which is where the mapped bytes end and is a multiple  *)
(* of the size of the elements.                                            *)
BufferInv ==
    /\ MappedIsFree
    /\ Whole(m_offset, typeSize)
    /\ m_mapped => m_offset = last /\ \A b \in inUse : b < first
    /\ ~m_mapped => \A b \in inUse : b < m_offset

(* Division undoes multiplication.                                         *)
LEMMA DivMul ==
    ASSUME NEW q \in Nat, NEW t \in Nat \ {0}
    PROVE  (q * t) \div t = q
OBVIOUS

(* A number that fits in the word is not wrapped.                          *)
LEMMA ModSmall ==
    ASSUME NEW n \in Nat, NEW w \in Nat \ {0}, n < w
    PROVE  n % w = n
OBVIOUS

(* The size of a number of elements.                                       *)
LEMMA MulType ==
    ASSUME NEW q \in Nat, NEW t \in Nat
    PROVE  q * t \in Nat
OBVIOUS

(* Elements behind elements.                                               *)
LEMMA MulSum ==
    ASSUME NEW q \in Nat, NEW n \in Nat, NEW t \in Nat
    PROVE  q * t + n * t = (q + n) * t
OBVIOUS

(* New storage or old, the buffer that EnsureSize leaves.                  *)
LEMMA EnsuredOK ==
    ASSUME BufferInv, ~m_mapped, NEW size \in Nat, 2 * size < Word
    PROVE  LET e == Ensured(size) IN
           /\ e.size \in Nat /\ 2 * e.size < Word /\ size <= e.size
           /\ e.offset \in 0..e.size /\ Whole(e.offset, typeSize)
           /\ e.inUse \subseteq Nat /\ \A b \in e.inUse : b < e.offset
<1>1. /\ m_size \in Nat /\ 2 * m_size < Word /\ m_offset \in 0..m_size /\ inUse \subseteq Nat
      /\ typeSize \in Nat /\ Whole(m_offset, typeSize) /\ \A b \in inUse : b < m_offset
  BY SizeAssumption DEF BufferInv, MappedIsFree, BufferTypeOK
<1>2. Whole(0, typeSize)
  BY <1>1 DEF Whole
<1>3. CASE size > m_size
  <2>1. Ensured(size) = [size |-> size, offset |-> 0, inUse |-> {}]
    BY <1>3 DEF Ensured
  <2> QED BY <1>2, <2>1
<1>4. CASE ~(size > m_size)
  <2>1. Ensured(size) = [size |-> m_size, offset |-> m_offset, inUse |-> inUse]
    BY <1>4 DEF Ensured
  <2>2. size <= m_size
    BY <1>1, <1>4
  <2>3. /\ Ensured(size).size = m_size /\ Ensured(size).offset = m_offset
        /\ Ensured(size).inUse = inUse
    BY <2>1
  <2> QED BY <1>1, <2>2, <2>3, Zenon
<1> QED BY <1>3, <1>4

(* EnsureSize keeps the invariant.                                         *)
LEMMA EnsureSizeKeeps ==
    ASSUME BufferInv, NEW size \in Sizes, EnsureSize(size)
    PROVE  BufferInv'
<1>1. size \in Nat /\ 2 * size < Word /\ BufferTypeOK /\ typeSize \in Nat
  BY SizeAssumption DEF BufferInv, MappedIsFree, BufferTypeOK
<1>2. UNCHANGED <<m_mapped, m_reset, typeSize>>
  BY DEF EnsureSize
<1>3. CASE size > m_size
  <2>1. Ensured(size) = [size |-> size, offset |-> 0, inUse |-> {}]
    BY <1>3 DEF Ensured
  <2>2. /\ m_size' = size /\ m_offset' = 0 /\ inUse' = {}
        /\ first' = 0 /\ last' = 0 /\ wanted' = 0
    BY <1>3, <2>1 DEF EnsureSize
  <2>3. Whole(m_offset', typeSize')
    <3>1. 0 = 0 * typeSize
      BY <1>1
    <3> QED BY <1>2, <2>2, <3>1, Zenon DEF Whole
  <2>4. 0 \in 0..size
    BY <1>1
  <2>5. BufferTypeOK'
    BY <1>1, <1>2, <2>2, <2>4, Zenon DEF BufferTypeOK
  <2>6. 0 = 0 + 0 /\ 0 <= size
    BY <1>1
  <2> QED BY <1>2, <2>2, <2>3, <2>5, <2>6, Zenon DEF BufferInv, MappedIsFree
<1>4. CASE ~(size > m_size)
  <2>1. Ensured(size) = [size |-> m_size, offset |-> m_offset, inUse |-> inUse]
    BY <1>4 DEF Ensured
  <2>2. UNCHANGED <<m_size, m_offset, inUse, first, last, wanted>>
    BY <1>4, <2>1 DEF EnsureSize
  <2> QED BY <1>2, <2>2 DEF BufferInv, MappedIsFree, BufferTypeOK, Whole
<1> QED BY <1>3, <1>4

(* So does Map, when the buffer is used with one element size.             *)
LEMMA MapKeeps ==
    ASSUME OneType, BufferInv, NEW num \in Nums, NEW type \in TypeSizes, Map(num, type)
    PROVE  BufferInv'
<1> DEFINE byteSize == num * type
           e == Ensured(byteSize)
           rewind == Rewinds(e, byteSize)
<1>1. /\ num \in Nat /\ type \in Nat \ {0} /\ Word \in Nat \ {0}
      /\ type = typeSize /\ ~m_mapped
  BY SizeAssumption DEF Map
<1>2. byteSize \in Nat /\ 2 * byteSize < Word
  BY <1>1, MulType, SizeAssumption
<1>3. byteSize % Word = byteSize
  <2> HIDE DEF byteSize
  <2>1. byteSize < Word
    BY <1>1, <1>2
  <2> QED BY <1>1, <1>2, <2>1, ModSmall
<1>4. /\ e.size \in Nat /\ 2 * e.size < Word /\ byteSize <= e.size
      /\ e.offset \in 0..e.size /\ Whole(e.offset, typeSize)
      /\ e.inUse \subseteq Nat /\ \A b \in e.inUse : b < e.offset
  BY <1>1, <1>2, EnsuredOK
<1>5. /\ m_mapped' = TRUE /\ m_size' = e.size /\ m_reset' = FALSE
      /\ m_offset' = IF rewind THEN byteSize ELSE (e.offset + byteSize) % Word
      /\ first' = (IF rewind THEN 0 ELSE ElementOffset(e, type)) * type
      /\ last' = first' + byteSize
      /\ wanted' = byteSize
      /\ inUse' = IF rewind THEN {} ELSE e.inUse
      /\ typeSize' = typeSize
  BY <1>3, Zenon DEF Map
<1>6. /\ first' \in Nat /\ m_offset' = first' + byteSize /\ m_offset' <= e.size
      /\ Whole(m_offset', typeSize') /\ inUse' \subseteq Nat /\ \A b \in inUse' : b < first'
  <2>1. CASE rewind
    <3>1. m_offset' = byteSize /\ first' = 0 * type /\ inUse' = {}
      BY <1>5, <2>1, Zenon
    <3>2. first' = 0
      BY <1>1, <3>1
    <3>3. Whole(m_offset', typeSize')
      BY <1>1, <1>5, <3>1, Zenon DEF Whole
    <3> HIDE DEF byteSize, e
    <3> QED BY <1>2, <1>4, <3>1, <3>2, <3>3
  <2>2. CASE ~rewind
    <3>1. PICK q \in Nat : e.offset = q * type
      BY <1>1, <1>4, Zenon DEF Whole
    <3>2. e.offset \div type = q
      BY <1>1, <3>1, DivMul
    <3>3. first' = e.offset /\ inUse' = e.inUse
      BY <1>5, <2>2, <3>1, <3>2, Zenon DEF ElementOffset
    <3>4. e.offset + byteSize = (q + num) * type
      BY <1>1, <3>1, MulSum
    <3>5. (e.offset + byteSize) % Word = e.offset + byteSize
      <4> HIDE DEF byteSize, e
      <4>1. e.offset + byteSize \in Nat /\ e.offset + byteSize < Word
        BY <1>1, <1>2, <1>4
      <4> QED BY <1>1, <4>1, ModSmall
    <3>6. m_offset' = e.offset + byteSize
      BY <1>5, <2>2, <3>5, Zenon
    <3>7. e.offset + byteSize <= e.size
      <4> HIDE DEF byteSize, e
      <4>1. ~(e.offset + byteSize > e.size)
        BY <2>2, <3>5, Zenon DEF Rewinds
      <4> QED BY <1>2, <1>4, <4>1
    <3>8. Whole(m_offset', typeSize')
      <4>1. q + num \in Nat /\ m_offset' = (q + num) * typeSize'
        BY <1>1, <1>5, <3>4, <3>6
      <4> QED BY <4>1, Zenon DEF Whole
    <3> HIDE DEF byteSize, e
    <3> QED BY <1>2, <1>4, <3>3, <3>6, <3>7, <3>8
  <2> QED BY <2>1, <2>2
<1> HIDE DEF byteSize, e, rewind
<1>7. BufferTypeOK'
  <2>1. typeSize' \in TypeSizes
    BY <1>5 DEF BufferInv, MappedIsFree, BufferTypeOK
  <2>2. /\ m_size' \in Nat /\ 2 * m_size' < Word /\ m_offset' \in 0..m_size'
        /\ last' \in Nat /\ wanted' \in Nat
    BY <1>2, <1>4, <1>5, <1>6
  <2>3. m_mapped' \in BOOLEAN /\ m_reset' \in BOOLEAN
    BY <1>5, Zenon
  <2> QED BY <1>6, <2>1, <2>2, <2>3, Zenon DEF BufferTypeOK
<1>8. MappedIsFree'
  BY <1>2, <1>4, <1>5, <1>6, <1>7 DEF MappedIsFree
<1> QED BY <1>5, <1>6, <1>8 DEF BufferInv

(* GLBuffer::Map: a mapping is bytes that are inside the storage, as many  *)
(* as were asked for and none of them still in use, for any sizes and      *)
(* numbers of elements of one type.                                        *)
THEOREM FreshBytes == OneType => (BufferSpec => []MappedIsFree)
<1> SUFFICES ASSUME OneType PROVE BufferSpec => []MappedIsFree
  OBVIOUS
<1>1. BufferInit => BufferInv
  <2> SUFFICES ASSUME BufferInit PROVE BufferInv
    OBVIOUS
  <2>1. BufferTypeOK
    <3>1. /\ m_size \in Nat /\ 2 * m_size < Word /\ m_offset \in 0..m_size
          /\ first \in Nat /\ last \in Nat /\ wanted \in Nat
      BY SizeAssumption DEF BufferInit
    <3> QED BY <3>1, Zenon DEF BufferInit, BufferTypeOK
  <2>2. typeSize \in Nat /\ m_offset = 0 /\ ~m_mapped /\ inUse = {}
    BY SizeAssumption DEF BufferInit
  <2>3. Whole(m_offset, typeSize)
    <3>1. 0 = 0 * typeSize
      BY <2>2
    <3> QED BY <2>2, <3>1 DEF Whole
  <2> QED BY <2>1, <2>2, <2>3 DEF BufferInv, MappedIsFree
<1>2. BufferInv /\ [BufferNext]_bufferVars => BufferInv'
  <2> SUFFICES ASSUME BufferInv, [BufferNext]_bufferVars PROVE BufferInv'
    OBVIOUS
  <2>1. CASE UnMap
    <3>1. /\ m_mapped /\ m_mapped' = FALSE /\ inUse' = inUse \cup first..(last - 1)
          /\ UNCHANGED <<m_size, m_offset, m_reset, first, last, wanted, typeSize>>
      BY <2>1 DEF UnMap
    <3>2. /\ BufferTypeOK /\ Whole(m_offset, typeSize) /\ m_offset = last
          /\ last = first + wanted /\ \A b \in inUse : b < first
      BY <3>1 DEF BufferInv, MappedIsFree
    <3>3. inUse' \subseteq Nat /\ \A b \in inUse' : b < m_offset
      BY <3>1, <3>2 DEF BufferTypeOK
    <3>4. BufferTypeOK'
      BY <3>1, <3>2, <3>3, Zenon DEF BufferTypeOK
    <3> QED BY <3>1, <3>2, <3>3, <3>4 DEF BufferInv, MappedIsFree
  <2>2. CASE UNCHANGED bufferVars
    BY <2>2 DEF bufferVars, BufferInv, MappedIsFree, BufferTypeOK, Whole
  <2> QED BY <2>1, <2>2, EnsureSizeKeeps, MapKeeps, Zenon DEF BufferNext
<1>3. BufferInv => MappedIsFree
  BY DEF BufferInv
<1> QED BY <1>1, <1>2, <1>3, PTL DEF BufferSpec

-----------------------------------------------------------------------------
(* The names that were handed out.                                         *)
Known == {n \in Nat : 0 < n /\ n < nextName}

Result == [kind : {"shader", "program"}, state : {"Valid", "Invalid"}, id : Nat]

(* Names are handed out once, and every result is one of these.            *)
NamesInv ==
    /\ nextName \in Nat \ {0}
    /\ shaders \subseteq Known /\ programs \subseteq Known /\ flagged \subseteq Known
    /\ stranded \subseteq shaders /\ stranded \cap flagged = {}
    /\ results \subseteq Result

(* A valid result names a live object that is still to be deleted.         *)
Held(r) ==
    r.state = "Valid" =>
        IF r.kind = "shader" THEN r.id \in shaders /\ r.id \notin flagged /\ r.id \notin stranded
        ELSE r.id \in programs

InUse(s) == \E p \in attached : p[2] = s

(* Each object has its owner: a result the caller holds, or a program that *)
(* a deleted shader is still attached to.                                  *)
OwnersInv ==
    /\ \A r \in results : Held(r)
    /\ \A p \in programs : Valid("program", p) \in results
    /\ \A s \in shaders : s \in stranded \/ Valid("shader", s) \in results
                            \/ (s \in flagged /\ InUse(s))
    /\ \A p \in attached : p[1] \in programs

ShaderInv == NamesInv /\ OwnersInv

(* A valid result is its kind and its name.                                *)
LEMMA ValidResult ==
    ASSUME NEW r \in Result, r.state = "Valid"
    PROVE  r = Valid(r.kind, r.id)
BY DEF Result, Valid

(* The fields of a valid result.                                           *)
LEMMA ValidIs ==
    \A kind, id : Valid(kind, id).kind = kind /\ Valid(kind, id).id = id
BY DEF Valid

(* What results there are.                                                 *)
LEMMA Results ==
    /\ \A id \in Nat : /\ Invalid(id) \in Result /\ Invalid(id).state = "Invalid"
                       /\ Invalid(id).kind = "shader"
    /\ \A id \in Nat, kind \in {"shader", "program"} :
          /\ Valid(kind, id) \in Result /\ Valid(kind, id).state = "Valid"
          /\ Valid(kind, id).kind = kind /\ Valid(kind, id).id = id
BY DEF Result, Valid, Invalid

(* What gl_compile_shader leaves.                                          *)
LEMMA CompiledIs ==
    ASSUME NEW id \in Nat
    PROVE  /\ Compiled(id, "compiled").live = {id}
           /\ Compiled(id, "compiled").result = Valid("shader", id)
           /\ Compiled(id, "unopened").live = {id}
           /\ Compiled(id, "unopened").result = Invalid(id)
           /\ Compiled(id, "rejected").live = {}
           /\ Compiled(id, "rejected").result = Invalid(0)
BY DEF Compiled

(* An invalid result may be added at any time.                             *)
LEMMA InvalidKeeps ==
    ASSUME ShaderInv, NEW id \in Nat, results' = results \cup {Invalid(id)},
           nextName' \in Nat, nextName <= nextName',
           UNCHANGED <<shaders, programs, flagged, attached, stranded>>
    PROVE  ShaderInv'
<1>1. Invalid(id) \in Result /\ Invalid(id).state # "Valid"
  BY Results
<1>2. UNCHANGED <<shaders, programs, flagged, attached, stranded>>
  OBVIOUS
<1>a. nextName' \in Nat \ {0} /\ Known \subseteq Known'
  BY DEF ShaderInv, NamesInv, Known
<1>3. NamesInv'
  BY <1>1, <1>2, <1>a, Zenon DEF ShaderInv, NamesInv
<1>4. OwnersInv'
  BY <1>1, <1>2, Zenon DEF ShaderInv, OwnersInv, Held, InUse
<1> QED BY <1>3, <1>4 DEF ShaderInv

(* A new name is none of the known ones.                                   *)
LEMMA NewName ==
    ASSUME ShaderInv, NEW k \in Nat, NEW n \in Nat, nextName <= k, k < n
    PROVE  /\ k \notin shaders /\ k \notin programs /\ k \notin flagged /\ k \notin stranded
           /\ k \in {m \in Nat : 0 < m /\ m < n}
           /\ Known \subseteq {m \in Nat : 0 < m /\ m < n}
<1>1. nextName \in Nat \ {0} /\ k \notin Known /\ k \in {m \in Nat : 0 < m /\ m < n}
  BY DEF ShaderInv, NamesInv, Known
<1>2. Known \subseteq {m \in Nat : 0 < m /\ m < n}
  BY <1>1 DEF Known
<1> QED BY <1>1, <1>2, Zenon DEF ShaderInv, NamesInv

(* gl_compile_shader keeps the invariant.                                  *)
LEMMA CompileKeeps ==
    ASSUME ShaderInv, NEW outcome \in Outcomes, CompileShader(outcome)
    PROVE  ShaderInv'
<1> DEFINE n == nextName
<1>1. /\ n \in Nat \ {0} /\ nextName' = n + 1
      /\ shaders' = shaders \cup Compiled(n, outcome).live
      /\ results' = results \cup {Compiled(n, outcome).result}
      /\ stranded' = IF outcome = "unopened" THEN stranded \cup {n} ELSE stranded
      /\ UNCHANGED <<programs, flagged, attached>>
  BY DEF CompileShader, ShaderInv, NamesInv
<1>2. /\ n \notin shaders /\ n \notin programs /\ n \notin flagged /\ n \notin stranded
      /\ n \in Known' /\ Known \subseteq Known' /\ nextName' \in Nat \ {0}
  <2>1. n \in Nat /\ n + 1 \in Nat /\ nextName <= n /\ n < n + 1
    BY <1>1
  <2> QED BY <1>1, <2>1, NewName DEF Known
<1> HIDE DEF n
<1>3. CASE outcome = "compiled"
  <2>1. /\ shaders' = shaders \cup {n} /\ results' = results \cup {Valid("shader", n)}
        /\ stranded' = stranded
    BY <1>1, <1>3, CompiledIs
  <2>2. /\ Valid("shader", n) \in Result /\ Valid("shader", n).kind = "shader"
        /\ Valid("shader", n).id = n
    BY <1>1, Results
  <2>3. NamesInv'
    BY <1>1, <1>2, <2>1, <2>2, Zenon DEF ShaderInv, NamesInv
  <2>4. OwnersInv'
    <3>1. \A r \in results : Held(r)'
      <4> TAKE r \in results
      <4>1. Held(r)
        BY DEF ShaderInv, OwnersInv
      <4> QED BY <1>1, <1>2, <2>1, <4>1 DEF Held
    <3>2. \A r \in results' : Held(r)'
      BY <1>1, <1>2, <2>1, <2>2, <3>1 DEF Held
    <3>3. \A p \in programs' : (Valid("program", p) \in results)'
      BY <1>1, <2>1, Zenon DEF ShaderInv, OwnersInv
    <3>4. \A s \in shaders' : (s \in stranded \/ Valid("shader", s) \in results
                                   \/ (s \in flagged /\ InUse(s)))'
      <4> SUFFICES ASSUME NEW s \in shaders'
                   PROVE  s \in stranded' \/ Valid("shader", s) \in results'
                            \/ (s \in flagged' /\ InUse(s)')
        OBVIOUS
      <4>1. InUse(s) => InUse(s)'
        BY <1>1, ZenonT(30) DEF InUse
      <4>2. CASE s \in shaders
        BY <1>1, <2>1, <4>1, <4>2 DEF ShaderInv, OwnersInv
      <4>3. CASE s = n
        BY <2>1, <4>3
      <4> QED BY <2>1, <4>2, <4>3
    <3>5. \A p \in attached' : p[1] \in programs'
      BY <1>1, ZenonT(30) DEF ShaderInv, OwnersInv
    <3> QED BY <3>2, <3>3, <3>4, <3>5, Zenon DEF OwnersInv
  <2> QED BY <2>3, <2>4 DEF ShaderInv
<1>4. CASE outcome = "unopened"
  <2>1. /\ shaders' = shaders \cup {n} /\ results' = results \cup {Invalid(n)}
        /\ stranded' = stranded \cup {n}
    BY <1>1, <1>4, CompiledIs
  <2>2. Invalid(n) \in Result /\ Invalid(n).state # "Valid"
    BY <1>1, Results
  <2>3. NamesInv'
    BY <1>1, <1>2, <2>1, <2>2, ZenonT(30) DEF ShaderInv, NamesInv
  <2>4. OwnersInv'
    <3>1. \A r \in results : Held(r)'
      <4> TAKE r \in results
      <4>1. Held(r)
        BY DEF ShaderInv, OwnersInv
      <4> QED BY <1>1, <1>2, <2>1, <4>1 DEF Held
    <3>2. \A r \in results' : Held(r)'
      BY <1>1, <1>2, <2>1, <2>2, <3>1 DEF Held
    <3>3. \A p \in programs' : (Valid("program", p) \in results)'
      BY <1>1, <2>1, Zenon DEF ShaderInv, OwnersInv
    <3>4. \A s \in shaders' : (s \in stranded \/ Valid("shader", s) \in results
                                   \/ (s \in flagged /\ InUse(s)))'
      <4> SUFFICES ASSUME NEW s \in shaders'
                   PROVE  s \in stranded' \/ Valid("shader", s) \in results'
                            \/ (s \in flagged' /\ InUse(s)')
        OBVIOUS
      <4>1. InUse(s) => InUse(s)'
        BY <1>1 DEF InUse
      <4>2. CASE s \in shaders
        BY <1>1, <2>1, <4>1, <4>2 DEF ShaderInv, OwnersInv
      <4>3. CASE s = n
        BY <2>1, <4>3
      <4> QED BY <2>1, <4>2, <4>3, ZenonT(30)
    <3>5. \A p \in attached' : p[1] \in programs'
      BY <1>1, Zenon DEF ShaderInv, OwnersInv
    <3> QED BY <3>2, <3>3, <3>4, <3>5, Zenon DEF OwnersInv
  <2> QED BY <2>3, <2>4 DEF ShaderInv
<1>5. CASE outcome = "rejected"
  <2>1. /\ shaders' = shaders /\ results' = results \cup {Invalid(0)}
        /\ stranded' = stranded
    BY <1>1, <1>5, CompiledIs
  <2>2. Invalid(0) \in Result /\ Invalid(0).state # "Valid"
    BY Results
  <2>3. NamesInv'
    BY <1>1, <1>2, <2>1, <2>2, Zenon DEF ShaderInv, NamesInv
  <2>4. OwnersInv'
    BY <1>1, <2>1, <2>2, Zenon DEF ShaderInv, OwnersInv, Held, InUse
  <2> QED BY <2>3, <2>4 DEF ShaderInv
<1> QED BY <1>3, <1>4, <1>5 DEF Outcomes

(* gl_link_shaders keeps the invariant.                                    *)
LEMMA LinkKeeps ==
    ASSUME ShaderInv, NEW pair, NEW linked, LinkShaders(pair, linked)
    PROVE  ShaderInv'
<1> DEFINE n == nextName
<1>1. n \in Nat \ {0}
  BY DEF ShaderInv, NamesInv
<1>a. CASE UNCHANGED shaderVars
  BY <1>a DEF shaderVars, ShaderInv, NamesInv, OwnersInv, Known, Held, InUse
<1>2. CASE linked /\ ~(\E r \in pair : r.state = "Invalid")
  <2>1. /\ nextName' = n + 1 /\ programs' = programs \cup {n}
        /\ attached' = attached \cup ({n} \X {r.id : r \in pair})
        /\ results' = results \cup {Valid("program", n)}
        /\ UNCHANGED <<shaders, flagged, stranded>>
    BY <1>2 DEF LinkShaders
  <2>2. /\ n \in Known' /\ Known \subseteq Known' /\ nextName' \in Nat \ {0}
    <3>1. n \in Nat /\ n + 1 \in Nat /\ nextName <= n /\ n < n + 1
      BY <1>1
    <3> QED BY <1>1, <2>1, <3>1, NewName DEF Known
  <2>3. /\ Valid("program", n) \in Result /\ Valid("program", n).kind = "program"
        /\ Valid("program", n).id = n
    BY <1>1, Results
  <2> HIDE DEF n
  <2>4. NamesInv'
    BY <2>1, <2>2, <2>3, Zenon DEF ShaderInv, NamesInv
  <2>5. \A r \in results' : Held(r)'
    <3>1. \A r \in results : Held(r)'
      <4> TAKE r \in results
      <4>1. Held(r)
        BY DEF ShaderInv, OwnersInv
      <4> QED BY <2>1, <4>1 DEF Held
    <3> QED BY <2>1, <2>3, <3>1 DEF Held
  <2>6. \A p \in programs' : (Valid("program", p) \in results)'
    BY <2>1, ZenonT(30) DEF ShaderInv, OwnersInv
  <2>7. \A s \in shaders' : (s \in stranded \/ Valid("shader", s) \in results
                                 \/ (s \in flagged /\ InUse(s)))'
    <3> SUFFICES ASSUME NEW s \in shaders
                 PROVE  s \in stranded' \/ Valid("shader", s) \in results'
                          \/ (s \in flagged' /\ InUse(s)')
      BY <2>1, ZenonT(30)
    <3>1. InUse(s) => InUse(s)'
      BY <2>1 DEF InUse
    <3> QED BY <2>1, <3>1, ZenonT(30) DEF ShaderInv, OwnersInv
  <2>8. \A p \in attached' : p[1] \in programs'
    BY <2>1 DEF ShaderInv, OwnersInv
  <2> QED BY <2>4, <2>5, <2>6, <2>7, <2>8, Zenon DEF ShaderInv, OwnersInv
<1>3. CASE ~linked /\ ~(\E r \in pair : r.state = "Invalid")
  <2>1. /\ results' = results \cup {Invalid(0)} /\ nextName' = n + 1
        /\ UNCHANGED <<shaders, programs, flagged, attached, stranded>>
    BY <1>3 DEF LinkShaders
  <2> QED BY <1>1, <2>1, InvalidKeeps
<1> QED BY <1>a, <1>2, <1>3 DEF LinkShaders

(* gl_load_program keeps the invariant.                                    *)
LEMMA LoadKeeps ==
    ASSUME ShaderInv, NEW vOutcome \in Outcomes, NEW fOutcome \in Outcomes, NEW ok,
           LoadProgram(vOutcome, fOutcome, ok)
    PROVE  ShaderInv'
<1> DEFINE n == nextName
           m == nextName + 1
           p == nextName + 2
           v == Compiled(n, vOutcome)
           f == Compiled(m, fOutcome)
<1>1. n \in Nat \ {0} /\ m \in Nat /\ p \in Nat /\ n # m /\ m # p /\ n # p
  BY DEF ShaderInv, NamesInv
<1>2. /\ nextName' \in Nat /\ nextName < nextName' /\ m < nextName'
      /\ UNCHANGED <<flagged, attached>>
  BY <1>1 DEF LoadProgram
<1>3. /\ n \notin shaders /\ n \notin flagged /\ n \in Known'
      /\ m \notin shaders /\ m \notin flagged /\ m \in Known' /\ Known \subseteq Known'
  <2>1. nextName <= n /\ nextName <= m /\ n < nextName' /\ m < nextName'
    BY <1>1, <1>2
  <2> QED BY <1>1, <1>2, <2>1, NewName DEF Known
<1>4. CASE vOutcome = "compiled" /\ fOutcome = "compiled"
  <2>1. /\ v.live = {n} /\ f.live = {m} /\ DeletedByLoad(v, f) = {n, m}
    <3>1. v.result.id = n /\ f.result.id = m
      BY <1>1, <1>4, CompiledIs, Results
    <3> QED BY <1>1, <1>4, <3>1, CompiledIs DEF DeletedByLoad
  <2>2. /\ shaders' = (shaders \cup v.live \cup f.live) \ DeletedByLoad(v, f)
        /\ stranded' = stranded \cup {} /\ nextName' = nextName + 3
        /\ programs' = IF ok THEN programs \cup {p} ELSE programs
        /\ results' = results \cup {IF ok THEN Valid("program", p) ELSE Invalid(0)}
    BY <1>4, SMTT(30) DEF LoadProgram
  <2> HIDE DEF n, m, p, v, f
  <2>3. shaders' = shaders /\ stranded' = stranded
    <3>1. shaders' = (shaders \cup {n} \cup {m}) \ {n, m} /\ stranded' = stranded \cup {}
      BY <2>1, <2>2, Zenon
    <3> QED BY <1>3, <3>1, SMTT(20)
  <2>4. CASE ~ok
    <3>1. results' = results \cup {Invalid(0)} /\ programs' = programs
      BY <2>2, <2>4, Zenon
    <3>2. 0 \in Nat /\ nextName <= nextName'
      BY <1>1, <1>2 DEF n
    <3>3. UNCHANGED <<shaders, programs, flagged, attached, stranded>>
      BY <1>2, <2>3, <3>1, Zenon
    <3> QED BY <1>2, <3>1, <3>2, <3>3, InvalidKeeps, Zenon
  <2>5. CASE ok
    <3>1. programs' = programs \cup {p} /\ results' = results \cup {Valid("program", p)}
      BY <2>2, <2>5, Zenon
    <3>2. p \in Known' /\ nextName' \in Nat \ {0}
      BY <1>1, <2>2 DEF Known, n, m, p
    <3>3. /\ Valid("program", p) \in Result /\ Valid("program", p).kind = "program"
          /\ Valid("program", p).id = p
      BY <1>1, Results
    <3>4. NamesInv'
      BY <1>2, <1>3, <2>3, <3>1, <3>2, <3>3, Zenon DEF ShaderInv, NamesInv
    <3>5. \A r \in results' : Held(r)'
      <4>1. \A r \in results : Held(r)'
        <5> TAKE r \in results
        <5>1. Held(r)
          BY DEF ShaderInv, OwnersInv
        <5> QED BY <1>2, <2>3, <3>1, <5>1 DEF Held
      <4> QED BY <3>1, <3>3, <4>1 DEF Held
    <3>6. \A q \in programs' : (Valid("program", q) \in results)'
      BY <3>1, Zenon DEF ShaderInv, OwnersInv
    <3>7. \A s \in shaders' : (s \in stranded \/ Valid("shader", s) \in results
                                   \/ (s \in flagged /\ InUse(s)))'
      <4> SUFFICES ASSUME NEW s \in shaders
                   PROVE  s \in stranded' \/ Valid("shader", s) \in results'
                            \/ (s \in flagged' /\ InUse(s)')
        BY <2>3
      <4>1. InUse(s) => InUse(s)'
        BY <1>2 DEF InUse
      <4> QED BY <1>2, <2>3, <3>1, <4>1 DEF ShaderInv, OwnersInv
    <3>8. \A q \in attached' : q[1] \in programs'
      BY <1>2, <3>1 DEF ShaderInv, OwnersInv
    <3> QED BY <3>4, <3>5, <3>6, <3>7, <3>8, Zenon DEF ShaderInv, OwnersInv
  <2> QED BY <2>4, <2>5
<1>5. CASE ~(vOutcome = "compiled" /\ fOutcome = "compiled")
  <2> DEFINE new == v.live \cup f.live
             res == IF vOutcome # "compiled" THEN v.result ELSE f.result
  <2>1. /\ shaders' = shaders \cup new /\ stranded' = stranded \cup new
        /\ programs' = programs /\ results' = results \cup {res}
    BY <1>5 DEF LoadProgram
  <2>2. new \subseteq {n, m}
    BY <1>1, CompiledIs DEF Outcomes
  <2>3. res \in {Invalid(n), Invalid(m), Invalid(0)}
    BY <1>1, <1>5, CompiledIs, ZenonT(30) DEF Outcomes
  <2>4. res \in Result /\ res.state # "Valid"
    BY <1>1, <2>3, Results
  <2>5. nextName' \in Nat \ {0}
    BY <1>1, <1>2
  <2> HIDE DEF n, m, p, v, f, new, res
  <2>6. NamesInv'
    BY <1>2, <1>3, <2>1, <2>2, <2>4, <2>5 DEF ShaderInv, NamesInv
  <2>7. \A r \in results' : Held(r)'
    <3>1. \A r \in results : Held(r)'
      <4> TAKE r \in results
      <4>1. Held(r)
        BY DEF ShaderInv, OwnersInv
      <4> QED BY <1>2, <1>3, <2>1, <2>2, <4>1 DEF Held
    <3> QED BY <2>1, <2>4, <3>1 DEF Held
  <2>8. \A s \in shaders' : (s \in stranded \/ Valid("shader", s) \in results
                                 \/ (s \in flagged /\ InUse(s)))'
    <3> SUFFICES ASSUME NEW s \in shaders'
                 PROVE  s \in stranded' \/ Valid("shader", s) \in results'
                          \/ (s \in flagged' /\ InUse(s)')
      OBVIOUS
    <3>1. InUse(s) => InUse(s)'
      BY <1>2 DEF InUse
    <3> QED BY <1>2, <2>1, <3>1 DEF ShaderInv, OwnersInv
  <2> QED BY <1>2, <2>1, <2>6, <2>7, <2>8, ZenonT(30) DEF ShaderInv, OwnersInv
<1> QED BY <1>4, <1>5

(* gl_delete_shader keeps the invariant.                                   *)
LEMMA DeleteShaderKeeps ==
    ASSUME ShaderInv, NEW r \in results, DeleteShader(r)
    PROVE  ShaderInv'
<1>1. /\ results' = results \ {r} /\ r.kind = "shader" /\ r \in Result
      /\ flagged' = IF r.state = "Valid" THEN flagged \cup {r.id} ELSE flagged
      /\ shaders' = {s \in shaders : s \notin flagged' \/ InUse(s)}
      /\ UNCHANGED <<nextName, programs, attached, stranded>>
  BY ZenonT(30) DEF DeleteShader, Remaining, InUse, ShaderInv, NamesInv
<1>2. r.state = "Valid" => r.id \in shaders /\ r.id \notin stranded /\ r = Valid("shader", r.id)
  BY <1>1, ValidResult DEF ShaderInv, OwnersInv, Held
<1>3. stranded \cap flagged' = {}
  BY <1>1, <1>2 DEF ShaderInv, NamesInv
<1>4. NamesInv'
  <2>1. Known' = Known
    BY <1>1 DEF Known
  <2>2. flagged' \subseteq Known
    BY <1>1, <1>2 DEF ShaderInv, NamesInv
  <2> QED BY <1>1, <1>3, <2>1, <2>2 DEF ShaderInv, NamesInv
<1>5. \A q \in results' : Held(q)'
  <2> SUFFICES ASSUME NEW q \in results, q # r PROVE Held(q)'
    BY <1>1
  <2>1. Held(q) /\ q \in Result
    BY DEF ShaderInv, OwnersInv, NamesInv
  <2>2. CASE q.state = "Valid" /\ q.kind = "shader"
    <3>1. q = Valid("shader", q.id) /\ q.id \in shaders /\ q.id \notin flagged /\ q.id \notin stranded
      BY <2>1, <2>2, ValidResult DEF Held
    <3>2. q.id \notin flagged'
      BY <1>1, <1>2, <3>1
    <3>3. q.id \in shaders' /\ q.id \notin stranded'
      BY <1>1, <3>1, <3>2
    <3> QED BY <2>2, <3>2, <3>3 DEF Held
  <2>3. CASE ~(q.state = "Valid" /\ q.kind = "shader")
    BY <1>1, <2>1, <2>3, ZenonT(30) DEF Held
  <2> QED BY <2>2, <2>3
<1>6. \A p \in programs' : (Valid("program", p) \in results)'
  <2>1. \A p : Valid("program", p) # r
    BY <1>1 DEF Valid
  <2> QED BY <1>1, <2>1 DEF ShaderInv, OwnersInv
<1>7. \A s \in shaders' : (s \in stranded \/ Valid("shader", s) \in results
                               \/ (s \in flagged /\ InUse(s)))'
  <2> SUFFICES ASSUME NEW s \in shaders'
               PROVE  s \in stranded' \/ Valid("shader", s) \in results'
                        \/ (s \in flagged' /\ InUse(s)')
    OBVIOUS
  <2>1. InUse(s) => InUse(s)'
    BY <1>1 DEF InUse
  <2>2. s \in shaders /\ (s \notin flagged' \/ InUse(s)) /\ s \in Nat
    BY <1>1 DEF ShaderInv, NamesInv, Known
  <2>3. CASE Valid("shader", s) = r
    <3>1. r.id = s /\ r.state = "Valid"
      BY <2>2, <2>3, Results
    <3> QED BY <1>1, <2>1, <2>2, <3>1
  <2>4. CASE Valid("shader", s) # r
    BY <1>1, <2>1, <2>2, <2>4, ZenonT(30) DEF ShaderInv, OwnersInv
  <2> QED BY <2>3, <2>4
<1>8. \A p \in attached' : p[1] \in programs'
  BY <1>1, ZenonT(30) DEF ShaderInv, OwnersInv
<1> QED BY <1>4, <1>5, <1>6, <1>7, <1>8, ZenonT(30) DEF ShaderInv, OwnersInv

(* gl_delete_program keeps the invariant.                                  *)
LEMMA DeleteProgramKeeps ==
    ASSUME ShaderInv, NEW r \in results, DeleteProgram(r)
    PROVE  ShaderInv'
<1>1. /\ results' = results \ {r} /\ r.kind = "program" /\ r.state = "Valid"
      /\ programs' = programs \ {r.id}
      /\ attached' = {p \in attached : p[1] # r.id}
      /\ shaders' = {s \in shaders : s \notin flagged \/ InUse(s)'}
      /\ UNCHANGED <<nextName, flagged, stranded>>
  BY ZenonT(30) DEF DeleteProgram, Remaining, InUse
<1>2. NamesInv'
  <2>1. Known' = Known
    BY <1>1 DEF Known
  <2> QED BY <1>1, <2>1, ZenonT(30) DEF ShaderInv, NamesInv
<1>3. r = Valid("program", r.id) /\ r.id \in Nat
  BY <1>1, ValidResult DEF ShaderInv, NamesInv, Result
<1>4. \A q \in results' : Held(q)'
  <2> SUFFICES ASSUME NEW q \in results, q # r PROVE Held(q)'
    BY <1>1, ZenonT(30)
  <2>1. Held(q) /\ q \in Result
    BY DEF ShaderInv, OwnersInv, NamesInv
  <2>2. CASE q.state = "Valid" /\ q.kind = "program"
    <3>1. q = Valid("program", q.id)
      BY <2>1, <2>2, ValidResult
    <3>2. q.id # r.id
      BY <1>3, <3>1
    <3> QED BY <1>1, <2>1, <2>2, <3>2 DEF Held
  <2>3. CASE ~(q.state = "Valid" /\ q.kind = "program")
    BY <1>1, <2>1, <2>3, ZenonT(30) DEF Held, Result
  <2> QED BY <2>2, <2>3, ZenonT(30)
<1>5. \A p \in programs' : (Valid("program", p) \in results)'
  <2> SUFFICES ASSUME NEW p \in programs, p # r.id PROVE Valid("program", p) \in results'
    BY <1>1
  <2>1. Valid("program", p) # r
    BY ValidIs, Zenon
  <2> QED BY <1>1, <2>1, ZenonT(30) DEF ShaderInv, OwnersInv
<1>6. \A s \in shaders' : (s \in stranded \/ Valid("shader", s) \in results
                               \/ (s \in flagged /\ InUse(s)))'
  <2>1. \A s : Valid("shader", s) # r
    <3>1. r.kind = "program" /\ "program" # "shader"
      BY <1>1, Zenon
    <3> QED BY <3>1, ValidIs, Zenon
  <2> QED BY <1>1, <2>1 DEF ShaderInv, OwnersInv
<1>7. \A p \in attached' : p[1] \in programs'
  BY <1>1 DEF ShaderInv, OwnersInv
<1> QED BY <1>2, <1>4, <1>5, <1>6, <1>7, Zenon DEF ShaderInv, OwnersInv

(* A valid result of gl_compile_shader, gl_link_shaders or gl_load_program *)
(* names a live object, and deleting every valid result deletes every      *)
(* program and every shader that no failed call stranded, for any number   *)
(* of objects and any order of the calls.                                  *)
THEOREM EveryObjectIsOwned == ShaderSpec => []ObjectsAccounted
<1>1. ShaderInit => ShaderInv
  BY DEF ShaderInit, ShaderInv, NamesInv, OwnersInv
<1>2. ShaderInv /\ [ShaderNext]_shaderVars => ShaderInv'
  <2> SUFFICES ASSUME ShaderInv, [ShaderNext]_shaderVars PROVE ShaderInv'
    OBVIOUS
  <2>1. CASE CompileUnsupported
    <3>1. nextName' = nextName /\ nextName \in Nat
      BY <2>1, ZenonT(30) DEF CompileUnsupported, ShaderInv, NamesInv
    <3> QED BY <2>1, <3>1, InvalidKeeps DEF CompileUnsupported
  <2>2. CASE UNCHANGED shaderVars
    BY <2>2 DEF shaderVars, ShaderInv, NamesInv, OwnersInv, Known, Held, InUse
  <2> QED BY <2>1, <2>2, CompileKeeps, LinkKeeps, LoadKeeps, DeleteShaderKeeps,
             DeleteProgramKeeps, Zenon DEF ShaderNext
<1>3. ShaderInv => ObjectsAccounted
  <2> SUFFICES ASSUME ShaderInv PROVE ObjectsAccounted
    BY ZenonT(30)
  <2>1. \A r \in results : r.state = "Valid" =>
           r.id \in (IF r.kind = "shader" THEN shaders ELSE programs)
    BY DEF ShaderInv, OwnersInv, Held
  <2>2. ASSUME \A r \in results : r.state # "Valid"
        PROVE  programs = {} /\ shaders = stranded
    <3>1. \A kind, id : Valid(kind, id) \notin results
      BY <2>2 DEF Valid
    <3>2. programs = {}
      BY <3>1 DEF ShaderInv, OwnersInv
    <3>3. \A s : ~InUse(s)
      BY <3>2 DEF ShaderInv, OwnersInv, InUse
    <3> QED BY <3>1, <3>2, <3>3 DEF ShaderInv, NamesInv, OwnersInv
  <2> QED BY <2>1, <2>2 DEF ObjectsAccounted
<1> QED BY <1>1, <1>2, <1>3, PTL DEF ShaderSpec

-----------------------------------------------------------------------------
(* WFMin stands for an induction over numbers: a set of numbers for which  *)
(* something fails would have a smallest one.                              *)
W == INSTANCE WellFoundedInduction

(* A set of numbers that is not empty has a smallest one.                  *)
LEMMA LeastNumber ==
    ASSUME NEW T, T \subseteq Nat, T # {}
    PROVE  \E n \in T : \A m \in T : n <= m
<1> DEFINE R == {ss \in Nat \X Nat : ss[1] < ss[2]}
<1>1. W!IsWellFoundedOn(R, Nat)
  BY W!NatLessThanWellFounded, Zenon DEF W!OpToRel
<1>2. PICK n \in T : \A m \in T : ~(<<m, n>> \in R)
  <2> HIDE DEF R
  <2> QED BY <1>1, W!WFMin, Zenon
<1>3. ASSUME NEW m \in T PROVE n <= m
  <2>1. ~(<<m, n>> \in R) /\ m \in Nat /\ n \in Nat
    BY <1>2
  <2>2. <<m, n>> \in Nat \X Nat /\ <<m, n>>[1] = m /\ <<m, n>>[2] = n
    BY <2>1
  <2>3. ~(m < n)
    BY <2>1, <2>2
  <2> QED BY <2>1, <2>3
<1> QED BY <1>3

(* What Min picks from a set of numbers.                                   *)
LEMMA MinPicks ==
    ASSUME NEW T, T \subseteq Nat, T # {}
    PROVE  Min(T) \in T /\ \A m \in T : Min(T) <= m
<1>1. \E n \in T : \A m \in T : n <= m
  BY LeastNumber, Zenon
<1> QED BY <1>1, Zenon DEF Min

(* What Max picks from a set of numbers up to a bound.                     *)
LEMMA MaxPicks ==
    ASSUME NEW b \in Nat, NEW T, T \subseteq 0..b, T # {}
    PROVE  Max(T) \in T /\ \A m \in T : m <= Max(T)
<1> DEFINE U == {b - m : m \in T}
<1>1. U \subseteq Nat /\ U # {}
  <2>1. \A m \in T : b - m \in Nat
    OBVIOUS
  <2> QED BY <2>1, Zenon
<1>2. PICK u \in U : \A v \in U : u <= v
  <2> HIDE DEF U
  <2> QED BY <1>1, LeastNumber, Zenon
<1>3. PICK n \in T : u = b - n
  BY <1>2
<1>4. \A m \in T : b - m \in U
  BY Zenon
<1>5. \A m \in T : n >= m
  <2> TAKE m \in T
  <2>1. b - n <= b - m /\ m \in Int /\ n \in Int
    BY <1>2, <1>3, <1>4
  <2> QED BY <2>1
<1>6. Max(T) \in T /\ \A m \in T : Max(T) >= m
  BY <1>3, <1>5, Zenon DEF Max
<1> QED BY <1>6

-----------------------------------------------------------------------------
(* The profiler's display.  Frames take at least the shortest range.       *)
Rising ==
    /\ Current \in Nat
    /\ \A k \in 0..(Current - 1) : StartTime(k) \in Nat
    /\ \A j, k \in 0..(Current - 1) : j < k => StartTime(j) + Shortest <= StartTime(k)

Ranges == [x : Int, y : Int]

(* A range that can be shown.                                              *)
InTime(r) ==
    /\ r \in Ranges /\ r.y - r.x >= Shortest
    /\ MinTime <= r.x /\ r.y <= MaxTime

ViewInv ==
    /\ frames \in Seq(Nat) /\ Rising /\ timeRange \in Ranges
    /\ visibleFrames \in [x : Nat, y : Nat] /\ candles \in [x : Nat, y : Nat]
    /\ displayStart \in Nat
    /\ FramesExist

(* With three frames there is a range to show.                             *)
LEMMA RoomToShow ==
    ASSUME Rising, Current >= MinLeadInFrames
    PROVE  /\ MinTime \in Nat /\ MaxTime \in Nat /\ MinTime + Shortest <= MaxTime
           /\ StartTime(0) <= MinTime
           /\ Current \in Nat /\ Current - 2 \in Nat /\ Current - 2 >= 1
<1>1. Current \in Nat /\ Current >= 3 /\ Shortest \in Nat
  BY ViewAssumption DEF Rising, MinLeadInFrames
<1>2. 0 \in 0..(Current - 1) /\ 1 \in 0..(Current - 1) /\ Current - 1 \in 0..(Current - 1)
      /\ 0 < 1 /\ 1 < Current - 1
  BY <1>1
<1>3. FirstShown = 1
  BY DEF FirstShown, MinLeadInFrames
<1>4. /\ StartTime(0) \in Nat /\ MinTime \in Nat /\ MaxTime \in Nat
      /\ StartTime(0) + Shortest <= MinTime /\ MinTime + Shortest <= MaxTime
  BY <1>2, <1>3, Zenon DEF Rising, MinTime, MaxTime
<1> HIDE DEF Rising
<1> QED BY <1>1, <1>4

(* A frame ends where the next one begins.                                 *)
LEMMA EndIsNextStart ==
    ASSUME NEW k \in Nat
    PROVE  EndTime(k) = StartTime(k + 1)
BY DEF EndTime, StartTime

(* setTimeRange makes every range one that can be shown.                   *)
LEMMA RangeSet ==
    ASSUME NEW r \in Ranges, MinTime \in Nat, MaxTime \in Nat,
           MinTime + Shortest <= MaxTime
    PROVE  InTime(SetTimeRange(r))
<1> DEFINE w == Widened(r)
           s == Shifted(w)
<1>0. Shortest \in Nat \ {0} /\ r.x \in Int /\ r.y \in Int
  BY ViewAssumption DEF Ranges
<1>1. w.x \in Int /\ w.y \in Int /\ w.y - w.x >= Shortest
  <2>1. CASE r.y - r.x >= Shortest
    BY <1>0, <2>1 DEF Widened
  <2>2. CASE ~(r.y - r.x >= Shortest)
    <3> DEFINE c == Clamp(r.x, MinTime, MaxTime - Shortest)
    <3>1. c \in Int
      BY <1>0 DEF Clamp
    <3>2. w = [x |-> c, y |-> c + Shortest]
      BY <2>2, Zenon DEF Widened
    <3>3. w.x = c /\ w.y = c + Shortest
      BY <3>2, SMTT(20)
    <3> HIDE DEF c, w
    <3> QED BY <1>0, <3>1, <3>3
  <2> QED BY <2>1, <2>2, ZenonT(30)
<1> HIDE DEF w
<1>2. /\ s.x \in Int /\ s.y \in Int /\ s.y - s.x >= Shortest
      /\ s.y >= MinTime + Shortest /\ s.x + Shortest <= MaxTime
  <2>1. CASE w.x < MinTime
    <3>1. s = Moved(w, MinTime - w.x)
      BY <2>1, Zenon DEF Shifted
    <3>2. s.x = w.x + (MinTime - w.x) /\ s.y = w.y + (MinTime - w.x)
      BY <3>1 DEF Moved
    <3> HIDE DEF s
    <3> QED BY <1>0, <1>1, <2>1, <3>2
  <2>2. CASE ~(w.x < MinTime) /\ w.y > MaxTime
    <3>1. s = Moved(w, MaxTime - w.y)
      BY <2>2, Zenon DEF Shifted
    <3>2. s.x = w.x + (MaxTime - w.y) /\ s.y = w.y + (MaxTime - w.y)
      BY <3>1 DEF Moved
    <3> HIDE DEF s
    <3> QED BY <1>0, <1>1, <2>2, <3>2
  <2>3. CASE ~(w.x < MinTime) /\ ~(w.y > MaxTime)
    <3>1. s = w
      BY <2>3, Zenon DEF Shifted
    <3> HIDE DEF s
    <3> QED BY <1>0, <1>1, <2>3, <3>1
  <2> QED BY <2>1, <2>2, <2>3
<1> HIDE DEF s
<1> DEFINE a == Clamp(s.x, MinTime, MaxTime)
           b == Clamp(s.y, MinTime, MaxTime)
<1>3. /\ a \in Int /\ b \in Int /\ MinTime <= a /\ b <= MaxTime /\ b - a >= Shortest
  BY <1>0, <1>2 DEF Clamp
<1>4. SetTimeRange(r) = [x |-> a, y |-> b]
  BY Zenon DEF SetTimeRange, s, w
<1> HIDE DEF a, b
<1>5. [x |-> a, y |-> b] \in Ranges
  BY <1>3 DEF Ranges
<1>6. [x |-> a, y |-> b].x = a /\ [x |-> a, y |-> b].y = b
  BY Zenon
<1> QED BY <1>3, <1>4, <1>5, <1>6, Zenon DEF InTime

(* Starts that do not come in order are those of frames that do not.       *)
LEMMA StartsOrder ==
    ASSUME Rising, NEW j \in 0..(Current - 1), NEW k \in 0..(Current - 1)
    PROVE  /\ StartTime(j) \in Nat /\ StartTime(k) \in Nat
           /\ StartTime(j) <= StartTime(k) <=> j <= k
<1>1. Shortest \in Nat \ {0}
  BY ViewAssumption
<1>2. StartTime(j) \in Nat /\ StartTime(k) \in Nat
  BY Zenon DEF Rising
<1>3. j < k => StartTime(j) + Shortest <= StartTime(k)
  BY Zenon DEF Rising
<1>4. k < j => StartTime(k) + Shortest <= StartTime(j)
  BY Zenon DEF Rising
<1>5. j \in Nat /\ k \in Nat
  OBVIOUS
<1>6. j = k => StartTime(j) = StartTime(k)
  OBVIOUS
<1> HIDE DEF Rising
<1> QED BY <1>1, <1>2, <1>3, <1>4, <1>5, <1>6

(* Where the walks of UpdateVisibleFrameRange end.                         *)
WalksEnd(r, left, right, down, up) ==
    LET limit == Current - 2
    IN  /\ up \in 0..limit /\ (up = limit \/ EndTime(up) >= r.y)
        /\ down \in 0..up /\ (down = 0 \/ StartTime(down) <= r.y)
        /\ \A k \in 0..up : StartTime(k) <= r.y => k <= down
        /\ right \in 0..limit /\ (right = limit \/ EndTime(right) >= r.x)
        /\ left \in 0..right /\ (left = 0 \/ StartTime(left) <= r.x)
        /\ \A k \in 0..right : StartTime(k) <= r.x => k <= left

(* The walks of UpdateVisibleFrameRange end, wherever they begin.          *)
LEMMA WalksEndSo ==
    ASSUME Current - 2 \in Nat, visibleFrames.y \in Nat, NEW r
    PROVE  \E left, right, down, up :
              /\ WalksEnd(r, left, right, down, up)
              /\ VisibleFrames(r) = [x |-> left, y |-> down + 1]
<1> DEFINE limit == Current - 2
           y == Clamp(visibleFrames.y, 0, limit)
           U == {i \in y..limit : i = limit \/ EndTime(i) >= r.y}
           up == Min(U)
           D == {i \in 0..up : i = 0 \/ StartTime(i) <= r.y}
           down == Max(D)
           R == {i \in 0..limit : i = limit \/ EndTime(i) >= r.x}
           right == Min(R)
           L == {i \in 0..right : i = 0 \/ StartTime(i) <= r.x}
           left == Max(L)
<1>1. y \in 0..limit
  BY DEF Clamp
<1>2. VisibleFrames(r) = [x |-> left, y |-> down + 1]
  BY Zenon DEF VisibleFrames
<1> HIDE DEF limit, y
<1>3. limit \in Nat /\ y..limit \subseteq 0..limit /\ limit \in y..limit /\ limit \in 0..limit
  BY <1>1 DEF limit
<1>4. up \in U
  <2>1. U \subseteq Nat /\ limit \in U
    BY <1>3
  <2> HIDE DEF U
  <2> QED BY <2>1, MinPicks, Zenon
<1>5. right \in R
  <2>1. R \subseteq Nat /\ limit \in R
    BY <1>3
  <2> HIDE DEF R
  <2> QED BY <2>1, MinPicks, Zenon
<1> HIDE DEF up, right
<1>6. up \in 0..limit /\ right \in 0..limit
  BY <1>3, <1>4, <1>5, Zenon
<1>7. up \in Nat /\ right \in Nat /\ 0 \in 0..up /\ 0 \in 0..right
  BY <1>6
<1>8. down \in D /\ \A k \in D : k <= down
  <2>1. D \subseteq 0..up /\ 0 \in D
    BY <1>7, Zenon
  <2> HIDE DEF D
  <2> QED BY <1>7, <2>1, MaxPicks, Zenon
<1>9. left \in L /\ \A k \in L : k <= left
  <2>1. L \subseteq 0..right /\ 0 \in L
    BY <1>7, Zenon
  <2> HIDE DEF L
  <2> QED BY <1>7, <2>1, MaxPicks, Zenon
<1> HIDE DEF down, left
<1>10. WalksEnd(r, left, right, down, up)
  BY <1>4, <1>5, <1>6, <1>8, <1>9, Zenon DEF WalksEnd, limit
<1> QED BY <1>2, <1>10, Zenon

(* The frames between the ends of the walks are the ones of the range.     *)
FramesOf(r, lo, hi) ==
    /\ lo \in 0..(Current - 2) /\ hi \in 0..(Current - 2) /\ lo <= hi + 1
    /\ \A k \in 0..(Current - 2) :
          /\ StartTime(k) < r.y => k <= hi
          /\ r.x < EndTime(k) => lo <= k
          /\ k <= hi => StartTime(k) <= r.y
          /\ lo <= k => r.x <= EndTime(k)

(* Where they end, they have found the frames of the range.                *)
LEMMA WalksFind ==
    ASSUME Rising, Current >= MinLeadInFrames, NEW r, InTime(r),
           NEW left, NEW right, NEW down, NEW up, WalksEnd(r, left, right, down, up)
    PROVE  FramesOf(r, left, down)
<1> DEFINE limit == Current - 2
<1>1. /\ MinTime \in Nat /\ MaxTime \in Nat /\ StartTime(0) <= MinTime
      /\ Current \in Nat /\ limit \in Nat /\ limit >= 1
  BY RoomToShow, Zenon
<1>2. r.x \in Int /\ r.y \in Int /\ r.x < r.y /\ MinTime <= r.x /\ r.y <= MaxTime
  BY ViewAssumption DEF InTime, Ranges
<1>3. \A k \in 0..limit : EndTime(k) = StartTime(k + 1)
  <2>1. \A k \in 0..limit : k \in Nat
    OBVIOUS
  <2> QED BY <2>1, EndIsNextStart, Zenon
<1>4. /\ \A k \in 0..limit : k \in 0..(Current - 1) /\ k + 1 \in 0..(Current - 1)
      /\ limit + 1 = Current - 1
  BY <1>1
<1>5. MaxTime = StartTime(limit + 1)
  BY <1>4, Zenon DEF MaxTime
<1>6. /\ up \in 0..limit /\ (up = limit \/ StartTime(up + 1) >= r.y)
      /\ down \in 0..up /\ (down = 0 \/ StartTime(down) <= r.y)
      /\ \A k \in 0..up : StartTime(k) <= r.y => k <= down
      /\ right \in 0..limit /\ (right = limit \/ StartTime(right + 1) >= r.x)
      /\ left \in 0..right /\ (left = 0 \/ StartTime(left) <= r.x)
      /\ \A k \in 0..right : StartTime(k) <= r.x => k <= left
  BY <1>3, Zenon DEF WalksEnd
<1>7. /\ left \in 0..limit /\ down \in 0..limit /\ up + 1 \in 0..(Current - 1)
      /\ right + 1 \in 0..(Current - 1)
  BY <1>1, <1>4, <1>6
<1> HIDE DEF limit
<1>8. \A j, k \in 0..(Current - 1) :
         /\ StartTime(j) \in Nat /\ StartTime(k) \in Nat
         /\ StartTime(j) <= StartTime(k) <=> j <= k
  BY StartsOrder, Zenon
<1>9. ASSUME NEW k \in 0..limit, StartTime(k) < r.y PROVE k <= down
  <2> SUFFICES ASSUME ~(k <= up) PROVE FALSE
    BY <1>1, <1>2, <1>4, <1>6, <1>8, <1>9
  <2>1. up # limit /\ up + 1 <= k
    BY <1>1, <1>6
  <2>2. StartTime(up + 1) <= StartTime(k) /\ StartTime(up + 1) >= r.y
    BY <1>4, <1>6, <1>7, <1>8, <2>1, Zenon
  <2>3. StartTime(up + 1) \in Nat /\ StartTime(k) \in Nat
    BY <1>4, <1>7, <1>8, Zenon
  <2>4. \A a, b \in Nat, c \in Int : a <= b /\ a >= c => ~(b < c)
    BY SMT
  <2> QED BY <1>2, <1>9, <2>2, <2>3, <2>4, Zenon
<1>10. ASSUME NEW k \in 0..limit, r.x < StartTime(k + 1) PROVE left <= k
  <2> SUFFICES ASSUME ~(left <= k) PROVE FALSE
    OBVIOUS
  <2>1. left # 0 /\ k + 1 <= left
    BY <1>1, <1>7
  <2>2. StartTime(k + 1) <= StartTime(left) /\ StartTime(left) <= r.x
    BY <1>4, <1>6, <1>7, <1>8, <2>1, Zenon
  <2>3. StartTime(k + 1) \in Nat /\ StartTime(left) \in Nat
    BY <1>4, <1>7, <1>8, Zenon
  <2> QED BY <1>2, <1>10, <2>2, <2>3
<1>11. ASSUME NEW k \in 0..limit, k <= down PROVE StartTime(k) <= r.y
  <2>1. StartTime(k) <= StartTime(down)
    BY <1>4, <1>7, <1>8, <1>11, Zenon
  <2>2. StartTime(k) \in Nat /\ StartTime(down) \in Nat
    BY <1>4, <1>7, <1>8, Zenon
  <2>3. StartTime(down) <= r.y
    BY <1>1, <1>2, <1>6, <2>2
  <2> QED BY <1>2, <2>1, <2>2, <2>3
<1>12. ASSUME NEW k \in 0..limit, left <= k PROVE r.x <= StartTime(k + 1)
  <2>0. StartTime(k + 1) \in Nat
    BY <1>4, <1>8, Zenon
  <2>1. CASE k < right
    <3>1. k + 1 \in 0..right /\ ~(k + 1 <= left)
      BY <1>6, <1>12, <2>1
    <3> QED BY <1>2, <1>6, <2>0, <3>1
  <2>2. CASE ~(k < right) /\ right = limit
    <3>1. k = limit
      BY <1>1, <2>2
    <3> QED BY <1>1, <1>2, <1>5, <3>1
  <2>3. CASE ~(k < right) /\ right # limit
    <3>1. right + 1 <= k + 1
      BY <1>1, <1>6, <2>3
    <3>2. StartTime(right + 1) <= StartTime(k + 1) /\ StartTime(right + 1) >= r.x
      BY <1>4, <1>6, <1>7, <1>8, <2>3, <3>1, Zenon
    <3>3. StartTime(right + 1) \in Nat
      BY <1>7, <1>8, Zenon
    <3> QED BY <1>2, <2>0, <3>2, <3>3
  <2> QED BY <2>1, <2>2, <2>3
<1>13. left <= down + 1
  <2> SUFFICES ASSUME ~(left <= down + 1) PROVE FALSE
    OBVIOUS
  <2>1. left # 0 /\ left \in Nat /\ down \in Nat /\ ~(left <= down)
    BY <1>1, <1>7
  <2>2. StartTime(left) <= r.x /\ StartTime(left) \in Nat
    BY <1>4, <1>6, <1>7, <1>8, <2>1, Zenon
  <2>3. StartTime(left) < r.y
    BY <1>2, <2>2
  <2> QED BY <1>7, <1>9, <2>1, <2>3, Zenon
<1> QED BY <1>3, <1>7, <1>9, <1>10, <1>11, <1>12, <1>13, Zenon DEF FramesOf, limit

(* The frames that are drawn for a range that can be shown.                *)
LEMMA FramesDrawn ==
    ASSUME Rising, Current >= MinLeadInFrames, visibleFrames.y \in Nat,
           NEW r, InTime(r)
    PROVE  \E lo, hi :
              FramesOf(r, lo, hi) /\ VisibleFrames(r) = [x |-> lo, y |-> hi + 1]
<1>1. Current - 2 \in Nat
  BY RoomToShow, Zenon
<1>2. PICK left, right, down, up :
         /\ WalksEnd(r, left, right, down, up)
         /\ VisibleFrames(r) = [x |-> left, y |-> down + 1]
  BY <1>1, WalksEndSo, Zenon
<1> QED BY <1>2, WalksFind, Zenon

(* The first candle is the one asked for or the one before it.             *)
LEMMA CandleFound ==
    ASSUME Rising, Current >= MinLeadInFrames, displayStart \in Nat,
           NEW c \in 0..(Current - 1)
    PROVE  FirstCandle(displayStart, StartTime(c)) \in Nat \cap {c - 1, c}
<1> DEFINE old == Clamp(displayStart, 0, Current - 1)
           t == StartTime(c)
           L == {i \in 0..old : i = 0 \/ StartTime(i) <= t}
           left == Max(L)
           Q == {i \in left..Current : i >= Current - 1 \/ EndTime(i) >= t}
           q == Min(Q)
<1>1. Current \in Nat /\ Current >= 3
  BY DEF Rising, MinLeadInFrames
<1>2. old \in 0..(Current - 1)
  BY <1>1 DEF Clamp
<1>3. FirstCandle(displayStart, StartTime(c)) = q
  BY Zenon DEF FirstCandle
<1> HIDE DEF old
<1>4. old \in Nat /\ 0 \in 0..old
  BY <1>1, <1>2
<1>5. left \in L
  <2>1. L \subseteq 0..old /\ 0 \in L
    BY <1>4, Zenon
  <2> HIDE DEF L
  <2> QED BY <1>4, <2>1, MaxPicks, Zenon
<1> HIDE DEF left
<1>6. left \in 0..old /\ (left = 0 \/ StartTime(left) <= t)
  BY <1>5, Zenon
<1>7. left \in 0..(Current - 1) /\ left <= c
  <2>1. left \in 0..(Current - 1)
    BY <1>1, <1>2, <1>6
  <2>2. StartTime(left) <= t => left <= c
    BY <2>1, StartsOrder, Zenon
  <2> QED BY <1>6, <2>1, <2>2
<1>8. Q \subseteq Nat /\ c \in Q
  <2>1. left..Current \subseteq Nat /\ c \in left..Current
    BY <1>1, <1>7
  <2>2. c >= Current - 1 \/ EndTime(c) >= t
    <3> SUFFICES ASSUME ~(c >= Current - 1) PROVE EndTime(c) >= t
      OBVIOUS
    <3>1. c \in Nat /\ c + 1 \in 0..(Current - 1) /\ c <= c + 1
      BY <1>1
    <3>2. StartTime(c) <= StartTime(c + 1) /\ StartTime(c) \in Nat /\ StartTime(c + 1) \in Nat
      BY <3>1, StartsOrder, Zenon
    <3>3. EndTime(c) = StartTime(c + 1)
      BY <3>1, EndIsNextStart, Zenon
    <3> QED BY <3>2, <3>3
  <2> HIDE DEF t
  <2> QED BY <2>1, <2>2, Zenon
<1>9. q \in Q /\ q <= c
  <2> HIDE DEF Q
  <2> QED BY <1>8, MinPicks, Zenon
<1> HIDE DEF q
<1>10. q \in left..Current /\ (q >= Current - 1 \/ EndTime(q) >= t)
  BY <1>9, Zenon
<1>11. q \in Nat /\ c \in Nat
  BY <1>7, <1>10
<1>12. c <= q + 1
  <2>1. CASE q >= Current - 1
    BY <1>1, <1>11, <2>1
  <2>2. CASE ~(q >= Current - 1) /\ EndTime(q) >= t
    <3>1. q + 1 \in 0..(Current - 1)
      BY <1>1, <1>11, <2>2
    <3>2. EndTime(q) = StartTime(q + 1)
      BY <1>11, EndIsNextStart, Zenon
    <3>3. StartTime(c) <= StartTime(q + 1) <=> c <= q + 1
      BY <3>1, StartsOrder, Zenon
    <3> QED BY <2>2, <3>2, <3>3
  <2> QED BY <1>10, <2>1, <2>2
<1>13. q \in Nat \cap {c - 1, c}
  <2> HIDE DEF t
  <2> QED BY <1>9, <1>11, <1>12
<1> QED BY <1>3, <1>13, Zenon

(* Candles that name recorded frames.                                      *)
CandlesExist(c) ==
    /\ c \in [x : Nat, y : Nat] /\ c.x <= c.y
    /\ c.y = 0 \/ c.y <= Current - 1

(* Whatever the mouse does to the candles.                                 *)
LEMMA CandlesStay ==
    ASSUME Current \in Nat, Current >= 3, CandlesExist(candles), NEW c \in CandleInputs
    PROVE  CandlesExist(c)
<1>0. candles.x \in Int /\ candles.y \in Int /\ candles.x <= candles.y /\ FirstShown = 1
  BY DEF CandlesExist, FirstShown, MinLeadInFrames
<1>1. ASSUME NEW by \in {-1, 1} PROVE CandlesExist(Dragged(by))
  <2> DEFINE new == Moved(candles, by)
  <2>1. new = [x |-> candles.x + by, y |-> candles.y + by]
    BY Zenon DEF Moved
  <2>2. new.x = candles.x + by /\ new.y = candles.y + by
    BY <2>1
  <2>3. CASE new.y < Current - 1 /\ new.x >= FirstShown
    <3>1. Dragged(by) = new
      BY <2>3, Zenon DEF Dragged
    <3> HIDE DEF new
    <3>2. /\ candles.x + by \in Nat /\ candles.y + by \in Nat
          /\ candles.x + by <= candles.y + by /\ candles.y + by <= Current - 1
      BY <1>0, <2>2, <2>3
    <3>3. new \in [x : Nat, y : Nat]
      BY <2>1, <3>2, Zenon
    <3> QED BY <2>2, <3>1, <3>2, <3>3, Zenon DEF CandlesExist
  <2>4. CASE ~(new.y < Current - 1 /\ new.x >= FirstShown)
    BY <2>4, Zenon DEF Dragged
  <2> QED BY <2>3, <2>4
<1>2. ASSUME NEW grow \in {-1, 1}, NEW by \in {-1, 0, 1} PROVE CandlesExist(Zoomed(grow, by))
  <2> DEFINE new == [x |-> candles.x - grow + by, y |-> candles.y + grow + by]
             right == IF new.x < FirstShown THEN Moved(new, FirstShown - new.x) ELSE new
             left == IF right.y > Current - 1 THEN Moved(right, Current - 1 - right.y)
                     ELSE right
             a == Clamp(left.x, FirstShown, Current - 1)
             b == Clamp(left.y, FirstShown, Current - 1)
  <2>0. Zoomed(grow, by) = IF new.y - new.x < MinCandles THEN candles ELSE [x |-> a, y |-> b]
    BY Zenon DEF Zoomed
  <2>1. CASE new.y - new.x < MinCandles
    BY <2>0, <2>1, Zenon
  <2>2. CASE ~(new.y - new.x < MinCandles)
    <3>1. new.x \in Int /\ new.y \in Int
      BY <1>0
    <3>2. new.x <= new.y
      <4> HIDE DEF new
      <4> QED BY <2>2, <3>1, ViewAssumption, SMTT(20)
    <3> HIDE DEF new
    <3>3. \A d \in Int : /\ Moved(new, d).x = new.x + d /\ Moved(new, d).y = new.y + d
      BY ZenonT(30) DEF Moved
    <3>4. right.x \in Int /\ right.y \in Int /\ right.x <= right.y
      BY <1>0, <3>1, <3>2, <3>3, SMTT(20)
    <3> HIDE DEF right
    <3>5. \A d \in Int : /\ Moved(right, d).x = right.x + d /\ Moved(right, d).y = right.y + d
      BY DEF Moved
    <3>6. left.x \in Int /\ left.y \in Int /\ left.x <= left.y
      BY <3>4, <3>5, SMTT(20)
    <3> HIDE DEF left
    <3>7. a \in Nat /\ b \in Nat /\ a <= b /\ b <= Current - 1
      BY <1>0, <3>6 DEF Clamp
    <3>8. Zoomed(grow, by) = [x |-> a, y |-> b]
      BY <2>0, <2>2, Zenon
    <3> HIDE DEF a, b
    <3>9. /\ [x |-> a, y |-> b] \in [x : Nat, y : Nat]
          /\ [x |-> a, y |-> b].x = a /\ [x |-> a, y |-> b].y = b
      BY <3>7, Zenon
    <3> QED BY <3>7, <3>8, <3>9, ZenonT(30) DEF CandlesExist
  <2> QED BY <2>1, <2>2, SMTT(20)
<1>3. \/ c = candles
      \/ \E by \in {-1, 1} : c = Dragged(by)
      \/ \E grow \in {-1, 1}, by \in {-1, 0, 1} : c = Zoomed(grow, by)
  BY DEF CandleInputs
<1> QED BY <1>1, <1>2, <1>3, Zenon

(* ShowProfile shows one of the ranges it was given.                       *)
LEMMA RangeShown ==
    ASSUME ViewInv, Current >= MinLeadInFrames, NEW S, \A r \in S : InTime(r), ShowRange(S)
    PROVE  /\ frames' = frames /\ InTime(timeRange')
           /\ \E lo, hi : /\ FramesOf(timeRange', lo, hi)
                               /\ visibleFrames' = [x |-> lo, y |-> hi + 1]
<1>1. PICK r \in S : timeRange' = r /\ visibleFrames' = VisibleFrames(r)
  BY Zenon DEF ShowRange
<1>2. frames' = frames
  BY Zenon DEF ShowRange
<1>3. visibleFrames.y \in Nat /\ Rising
  BY DEF ViewInv
<1>4. \E lo, hi :
         FramesOf(r, lo, hi) /\ VisibleFrames(r) = [x |-> lo, y |-> hi + 1]
  BY <1>1, <1>3, FramesDrawn, Zenon
<1> QED BY <1>1, <1>2, <1>4, Zenon

(* Any range becomes one that can be shown, and moving one leaves one.     *)
LEMMA RangeAny ==
    ASSUME ViewInv, Current >= MinLeadInFrames
    PROVE  /\ \A r \in Ranges : InTime(SetTimeRange(r))
           /\ \A a \in Int, b \in Int : [x |-> a, y |-> b] \in Ranges
           /\ \A r \in Ranges, d \in Int : Moved(r, d) \in Ranges
<1>1. /\ MinTime \in Nat /\ MaxTime \in Nat /\ MinTime + Shortest <= MaxTime
  BY RoomToShow, Zenon DEF ViewInv
<1>2. \A r \in Ranges : InTime(SetTimeRange(r))
  BY <1>1, RangeSet, Zenon
<1>3. ASSUME NEW a \in Int, NEW b \in Int PROVE [x |-> a, y |-> b] \in Ranges
  BY Zenon DEF Ranges
<1>4. ASSUME NEW r \in Ranges, NEW d \in Int PROVE Moved(r, d) \in Ranges
  <2>1. r.x + d \in Int /\ r.y + d \in Int
    BY DEF Ranges
  <2> QED BY <1>3, <2>1, Zenon DEF Moved
<1> QED BY <1>2, <1>3, <1>4, Zenon

(* What the mouse makes of a range that can be shown can be shown.         *)
LEMMA MouseInTime ==
    ASSUME ViewInv, Current >= MinLeadInFrames, NEW t, InTime(t), NEW r \in TimeInputs(t)
    PROVE  InTime(r)
<1>1. ASSUME NEW d, InTime(d), NEW by \in {-1, 1} PROVE InTime(DragTime(d, by))
  <2>1. d \in Ranges /\ by \in Int
    BY <1>1 DEF InTime
  <2>2. Moved(d, by) \in Ranges
    BY <2>1, RangeAny, Zenon
  <2>3. DragTime(d, by) \in {SetTimeRange(Moved(d, by)), d}
    BY Zenon DEF DragTime
  <2> QED BY <1>1, <2>2, <2>3, RangeAny, Zenon
<1>2. ASSUME NEW d, InTime(d), NEW grow \in {-1, 1}, NEW by \in {-1, 0, 1}
      PROVE  InTime(ZoomTime(d, grow, by))
  <2> DEFINE g == [x |-> d.x - grow, y |-> d.y + grow]
  <2>1. g \in Ranges
    <3>1. d \in Ranges
      BY <1>2, Zenon DEF InTime
    <3>2. d.x - grow \in Int /\ d.y + grow \in Int
      BY <3>1 DEF Ranges
    <3> QED BY <3>2, RangeAny, Zenon
  <2> HIDE DEF g
  <2>2. SetTimeRange(g) \in Ranges
    BY <2>1, RangeAny, Zenon DEF InTime
  <2>3. by \in Int
    OBVIOUS
  <2>4. Moved(SetTimeRange(g), by) \in Ranges
    BY <2>2, <2>3, RangeAny, Zenon
  <2>5. ZoomTime(d, grow, by) = SetTimeRange(Moved(SetTimeRange(g), by))
    BY Zenon DEF ZoomTime, g
  <2> QED BY <2>4, <2>5, RangeAny, Zenon
<1> DEFINE dragged == {t} \cup {DragTime(t, by) : by \in {-1, 1}}
<1>3. ASSUME NEW d \in dragged PROVE InTime(d)
  <2>1. d = t \/ \E by \in {-1, 1} : d = DragTime(t, by)
    OBVIOUS
  <2> QED BY <1>1, <2>1, Zenon
<1>4. \/ r \in dragged
      \/ \E d \in dragged, grow \in {-1, 1}, by \in {-1, 0, 1} : r = ZoomTime(d, grow, by)
  BY DEF TimeInputs
<1> HIDE DEF dragged
<1> QED BY <1>2, <1>3, <1>4, Zenon

(* The ranges that ShowProfile chooses from can be shown.                  *)
LEMMA RangesInTime ==
    ASSUME ViewInv, Current >= MinLeadInFrames
    PROVE  /\ \A late \in Lengths :
                 InTime(SetTimeRange([x |-> (MaxTime + late) - Shown, y |-> MaxTime + late]))
           /\ \A s \in Selections : InTime(SetTimeRange(s))
           /\ InTime(SetTimeRange(timeRange))
<1>1. /\ MinTime \in Nat /\ MaxTime \in Nat /\ MinTime + Shortest <= MaxTime
      /\ Current \in Nat /\ Rising /\ timeRange \in Ranges
  BY RoomToShow, Zenon DEF ViewInv
<1>2. ASSUME NEW late \in Lengths
      PROVE  InTime(SetTimeRange([x |-> (MaxTime + late) - Shown, y |-> MaxTime + late]))
  <2>1. (MaxTime + late) - Shown \in Int /\ MaxTime + late \in Int
    BY <1>1, ViewAssumption
  <2> QED BY <2>1, RangeAny, Zenon
<1>3. ASSUME NEW s \in Selections PROVE InTime(SetTimeRange(s))
  <2>1. CASE s = timeRange
    BY <1>1, <2>1, RangeAny, Zenon
  <2>2. ASSUME NEW j \in 0..(Current - 2), NEW k \in 0..(Current - 2),
               s = [x |-> StartTime(j) - 1, y |-> EndTime(k) + 1]
        PROVE  InTime(SetTimeRange(s))
    <3>1. j \in 0..(Current - 1) /\ k + 1 \in 0..(Current - 1) /\ k \in Nat
      BY <1>1
    <3>2. StartTime(j) \in Nat /\ EndTime(k) \in Nat
      BY <1>1, <3>1, EndIsNextStart, Zenon DEF Rising
    <3>3. StartTime(j) - 1 \in Int /\ EndTime(k) + 1 \in Int
      BY <3>2, SMTT(20)
    <3> QED BY <2>2, <3>3, RangeAny, Zenon
  <2>3. \/ s = timeRange
        \/ \E j \in 0..(Current - 2), k \in 0..(Current - 2) :
              s = [x |-> StartTime(j) - 1, y |-> EndTime(k) + 1]
    BY DEF Selections
  <2> QED BY <2>1, <2>2, <2>3, Zenon
<1>4. InTime(SetTimeRange(timeRange))
  BY <1>1, RangeAny, Zenon
<1> QED BY <1>2, <1>3, <1>4, Zenon

(* What a call of ShowProfile leaves, however it was called.               *)
LEMMA ShownWell ==
    ASSUME ViewInv, Current >= MinLeadInFrames, NEW S, \A r \in S : InTime(r),
           ShowRange(S), CandlesExist(candles'),
           displayStart' = FirstCandle(displayStart, StartTime(candles'.x))
    PROVE  ViewInv' /\ RangeIsShown
<1>1. frames' = frames /\ InTime(timeRange')
  BY RangeShown, Zenon
<1>2. PICK lo, hi : /\ FramesOf(timeRange', lo, hi)
                         /\ visibleFrames' = [x |-> lo, y |-> hi + 1]
  BY RangeShown, Zenon
<1>3. Current \in Nat /\ Current - 2 \in Nat /\ Current >= 3
  BY RoomToShow DEF ViewInv, MinLeadInFrames
<1>4. /\ lo \in 0..(Current - 2) /\ hi \in 0..(Current - 2) /\ lo <= hi + 1
  BY <1>2, Zenon DEF FramesOf
<1>5. /\ lo \in Nat /\ hi + 1 \in Nat /\ hi \in Nat /\ 0 <= lo
      /\ hi + 1 < Current
  BY <1>3, <1>4
<1>6. /\ visibleFrames'.x = lo /\ visibleFrames'.y = hi + 1
      /\ visibleFrames' \in [x : Nat, y : Nat]
  BY <1>2, <1>5, Zenon
<1>7. /\ candles' \in [x : Nat, y : Nat] /\ candles'.x \in Nat /\ candles'.y \in Nat
      /\ candles'.x <= candles'.y
      /\ candles'.y = 0 \/ candles'.y <= Current - 1
  BY DEF CandlesExist
<1>8. /\ candles'.x \in 0..(Current - 1) /\ 0 <= candles'.x
      /\ candles'.y = 0 \/ candles'.y < Current
  BY <1>3, <1>7
<1>9. displayStart' \in Nat \cap {candles'.x - 1, candles'.x}
  <2>1. Rising /\ displayStart \in Nat
    BY Zenon DEF ViewInv
  <2> QED BY <1>8, <2>1, CandleFound, Zenon
<1>10. Current' = Current /\ frames' \in Seq(Nat) /\ Rising'
  BY <1>1, Zenon DEF ViewInv, Rising, Current, StartTime
<1>11. FramesExist'
  BY <1>4, <1>5, <1>6, <1>7, <1>8, <1>9, <1>10, Zenon DEF FramesExist
<1>12. ViewInv'
  BY <1>1, <1>6, <1>7, <1>9, <1>10, <1>11, Zenon DEF ViewInv, InTime
<1>13. RangeIsShown
  <2>1. ASSUME NEW k \in 0..(Current - 2)
        PROVE  LET shown == visibleFrames'.x <= k /\ k < visibleFrames'.y
               IN  /\ StartTime(k) < timeRange'.y /\ timeRange'.x < EndTime(k) => shown
                   /\ shown => StartTime(k) <= timeRange'.y /\ timeRange'.x <= EndTime(k)
    <3>1. /\ StartTime(k) < timeRange'.y => k <= hi
          /\ timeRange'.x < EndTime(k) => lo <= k
          /\ k <= hi => StartTime(k) <= timeRange'.y
          /\ lo <= k => timeRange'.x <= EndTime(k)
      BY <1>2, Zenon DEF FramesOf
    <3>2. k <= hi <=> k < hi + 1
      BY <1>5
    <3> QED BY <1>6, <3>1, <3>2, Zenon
  <2> QED BY <1>1, <2>1, Zenon DEF RangeIsShown, InTime
<1> QED BY <1>12, <1>13

(* The candles that are there name recorded frames.                        *)
LEMMA CandlesAre ==
    ASSUME ViewInv
    PROVE  CandlesExist(candles) /\ Current \in Nat
<1>1. candles \in [x : Nat, y : Nat] /\ Current \in Nat
  BY Zenon DEF ViewInv, Rising
<1>2. candles.x <= candles.y /\ (candles.y = 0 \/ candles.y < Current)
  BY Zenon DEF ViewInv, FramesExist
<1>3. candles.y \in Nat
  BY <1>1
<1>4. candles.y < Current => candles.y <= Current - 1
  BY <1>1, <1>3
<1> QED BY <1>1, <1>2, <1>4, Zenon DEF CandlesExist

(* Showing the latest frames shows a range and keeps the invariant.        *)
LEMMA ShowKeeps ==
    ASSUME ViewInv, NEW late \in Lengths, Show(late)
    PROVE  ViewInv' /\ RangeIsShown
<1> DEFINE latest == SetTimeRange([x |-> (MaxTime + late) - Shown, y |-> MaxTime + late])
           S == TimeInputs(latest)
<1>1. Current >= MinLeadInFrames /\ ShowRange(S)
  BY Zenon DEF Show
<1>2. \A r \in S : InTime(r)
  BY <1>1, RangesInTime, MouseInTime, Zenon
<1>3. /\ candles' = [x |-> FirstShown, y |-> Current - 1]
      /\ displayStart' = FirstCandle(displayStart, StartTime(candles'.x))
  BY Zenon DEF Show
<1>4. CandlesExist(candles')
  <2>1. Current \in Nat /\ Current >= 3 /\ FirstShown = 1
    BY <1>1, CandlesAre DEF MinLeadInFrames, FirstShown
  <2>2. FirstShown \in Nat /\ Current - 1 \in Nat /\ FirstShown <= Current - 1
        /\ Current - 1 <= Current - 1
    BY <2>1
  <2>3. candles'.x = FirstShown /\ candles'.y = Current - 1
    BY <1>3
  <2>4. candles' \in [x : Nat, y : Nat]
    BY <1>3, <2>2, Zenon
  <2> QED BY <2>2, <2>3, <2>4, Zenon DEF CandlesExist
<1> HIDE DEF S
<1> QED BY <1>1, <1>2, <1>3, <1>4, ShownWell, Zenon

(* So does showing what was selected, dragged or zoomed while paused.      *)
LEMMA ShowPausedKeeps ==
    ASSUME ViewInv, ShowPaused
    PROVE  ViewInv' /\ RangeIsShown
<1>1. /\ Current >= MinLeadInFrames
      /\ displayStart' = FirstCandle(displayStart, StartTime(candles'.x))
  BY Zenon DEF ShowPaused
<1>2. CandlesExist(candles) /\ Current \in Nat /\ Current >= 3
  BY <1>1, CandlesAre DEF MinLeadInFrames
<1>3. ASSUME candles' \in CandleInputs,
             ShowRange({SetTimeRange(s) : s \in {q \in Selections : q.x <= q.y}})
      PROVE  ViewInv' /\ RangeIsShown
  <2> DEFINE S == {SetTimeRange(s) : s \in {q \in Selections : q.x <= q.y}}
  <2>1. \A r \in S : InTime(r)
    BY <1>1, RangesInTime, Zenon
  <2>2. ShowRange(S)
    BY <1>3, Zenon
  <2>3. CandlesExist(candles')
    BY <1>2, <1>3, CandlesStay, Zenon
  <2> HIDE DEF S
  <2> QED BY <1>1, <2>1, <2>2, <2>3, ShownWell, Zenon
<1>4. ASSUME UNCHANGED candles, ShowRange(TimeInputs(SetTimeRange(timeRange)))
      PROVE  ViewInv' /\ RangeIsShown
  <2>1. \A r \in TimeInputs(SetTimeRange(timeRange)) : InTime(r)
    BY <1>1, RangesInTime, MouseInTime, Zenon
  <2>2. CandlesExist(candles')
    BY <1>2, <1>4, Zenon
  <2> QED BY <1>1, <1>4, <2>1, <2>2, ShownWell, Zenon
<1> QED BY <1>3, <1>4, Zenon DEF ShowPaused

(* NewFrame.                                                               *)
LEMMA FrameKeeps ==
    ASSUME ViewInv, NEW length \in Lengths, Frame(length)
    PROVE  ViewInv'
<1>1. /\ timeRange' = timeRange /\ visibleFrames' = visibleFrames
      /\ candles' = candles /\ displayStart' = displayStart
  BY Zenon DEF Frame
<1>2. CASE frames' = frames
  BY <1>1, <1>2, Zenon DEF ViewInv, Rising, FramesExist, Current, StartTime
<1>3. CASE frames' = Append(frames, IF Current = 0 THEN 0 ELSE MaxTime + length)
  <2> DEFINE n == Current
             new == IF n = 0 THEN 0 ELSE MaxTime + length
  <2>0. Rising /\ frames \in Seq(Nat) /\ n \in Nat /\ n = Len(frames)
    BY Zenon DEF ViewInv, Rising, Current
  <2>1. /\ length \in Nat /\ length >= Shortest /\ Shortest \in Nat
    BY ViewAssumption
  <2>2. /\ \A k \in 0..(n - 1) : StartTime(k) \in Nat
        /\ \A j, k \in 0..(n - 1) : j < k => StartTime(j) + Shortest <= StartTime(k)
    BY <2>0, Zenon DEF Rising
  <2>3. new \in Nat /\ \A k \in 0..(n - 1) : StartTime(k) + Shortest <= new
    <3>1. CASE n = 0
      BY <2>0, <3>1
    <3>2. CASE n # 0
      <4>1. n - 1 \in 0..(n - 1)
        BY <2>0, <3>2
      <4>2. MaxTime \in Nat /\ MaxTime = StartTime(n - 1)
        BY <2>2, <4>1, Zenon DEF MaxTime
      <4>3. new = MaxTime + length /\ new \in Nat
        BY <2>1, <3>2, <4>2
      <4>4. ASSUME NEW k \in 0..(n - 1) PROVE StartTime(k) + Shortest <= new
        <5>1. StartTime(k) \in Nat /\ StartTime(k) <= MaxTime
          BY <2>0, <4>1, <4>2, StartsOrder
        <5> HIDE DEF new
        <5> QED BY <2>1, <4>2, <4>3, <5>1
      <4> QED BY <4>3, <4>4
    <3> QED BY <3>1, <3>2
  <2>4. frames' = Append(frames, new)
    BY <1>3, Zenon
  <2> HIDE DEF new
  <2>5. /\ frames' \in Seq(Nat) /\ Len(frames') = n + 1 /\ frames'[n + 1] = new
        /\ \A k \in 1..n : frames'[k] = frames[k]
    BY <2>0, <2>3, <2>4
  <2> HIDE DEF n
  <2>6. ASSUME NEW k \in 0..n
        PROVE  StartTime(k)' = IF k = n THEN new ELSE StartTime(k)
    <3>1. StartTime(k)' = frames'[k + 1] /\ StartTime(k) = frames[k + 1]
      BY Zenon DEF StartTime
    <3>2. k # n => k + 1 \in 1..n
      BY <2>0
    <3> QED BY <2>5, <3>1, <3>2, Zenon
  <2>7. Current' = n + 1 /\ (n + 1) - 1 = n /\ n + 1 \in Nat
    BY <2>0, <2>5 DEF Current
  <2>8. \A k \in 0..n : k = n \/ k \in 0..(n - 1)
    BY <2>0
  <2>9. \A k \in 0..n : StartTime(k)' \in Nat
    BY <2>2, <2>3, <2>6, <2>8, Zenon
  <2>10. ASSUME NEW j \in 0..n, NEW k \in 0..n, j < k
         PROVE  StartTime(j)' + Shortest <= StartTime(k)'
    <3>1. j # n /\ j \in 0..(n - 1)
      BY <2>0, <2>10
    <3> QED BY <2>2, <2>3, <2>6, <2>8, <2>10, <3>1, ZenonT(30)
  <2>11. Rising'
    BY <2>7, <2>9, <2>10, Zenon DEF Rising
  <2>12. FramesExist'
    <3>1. \A k \in Nat : k < Current => k < Current'
      BY <2>0, <2>7 DEF n
    <3>2. candles.y \in Nat /\ visibleFrames.y \in Nat
      BY DEF ViewInv
    <3> QED BY <1>1, <3>1, <3>2, Zenon DEF ViewInv, FramesExist
  <2> QED BY <1>1, <2>5, <2>11, <2>12, Zenon DEF ViewInv
<1> QED BY <1>2, <1>3, Zenon DEF Frame

(* Nothing is shown, or nothing is left.                                   *)
LEMMA NoFramesLeft ==
    ASSUME frames = <<>>, timeRange \in Ranges, visibleFrames = [x |-> 0, y |-> 0],
           candles = [x |-> 0, y |-> 0], displayStart = 0
    PROVE  ViewInv
<1>1. Current = 0 /\ frames \in Seq(Nat)
  BY DEF Current
<1>2. Rising
  BY <1>1, SMTT(20) DEF Rising
<1>3. FramesExist
  BY <1>1 DEF FramesExist
<1> QED BY <1>1, <1>2, <1>3 DEF ViewInv

(* Every step keeps the invariant and shows a range if it changes it.      *)
LEMMA ViewStep ==
    ASSUME ViewInv, [ViewNext]_viewVars
    PROVE  /\ ViewInv'
           /\ timeRange' # timeRange \/ visibleFrames' # visibleFrames =>
                 frames' = <<>> \/ RangeIsShown
<1>1. ASSUME NEW length \in Lengths, Frame(length)
      PROVE  ViewInv' /\ timeRange' = timeRange /\ visibleFrames' = visibleFrames
  BY <1>1, FrameKeeps, Zenon DEF Frame
<1>2. ASSUME NEW late \in Lengths, Show(late) PROVE ViewInv' /\ RangeIsShown
  BY <1>2, ShowKeeps, Zenon
<1>3. CASE ShowPaused
  BY <1>3, ShowPausedKeeps, Zenon
<1>4. CASE PauseEarly \/ UNCHANGED viewVars
  <2>1. UNCHANGED <<frames, timeRange, visibleFrames, candles, displayStart>>
    BY <1>4, Zenon DEF PauseEarly, viewVars
  <2> QED BY <2>1, Zenon DEF ViewInv, Rising, FramesExist, Current, StartTime
<1>5. CASE Resume
  <2>1. /\ frames' = <<>> /\ visibleFrames' = [x |-> 0, y |-> 0]
        /\ candles' = [x |-> 0, y |-> 0] /\ displayStart' = 0 /\ timeRange' = timeRange
    BY <1>5, Zenon DEF Resume
  <2>2. timeRange' \in Ranges
    BY <2>1, Zenon DEF ViewInv
  <2>3. Current' = 0 /\ frames' \in Seq(Nat)
    BY <2>1 DEF Current
  <2>4. Rising'
    BY <2>3 DEF Rising
  <2>5. FramesExist'
    BY <2>1, <2>3, SMTT(20) DEF FramesExist
  <2>6. ViewInv'
    BY <2>1, <2>2, <2>3, <2>4, <2>5 DEF ViewInv
  <2> QED BY <2>1, <2>6
<1> QED BY <1>1, <1>2, <1>3, <1>4, <1>5, Zenon DEF ViewNext

(* It holds before anything was recorded.                                  *)
LEMMA ViewStart == ViewInit => ViewInv
<1> SUFFICES ASSUME ViewInit PROVE ViewInv
  OBVIOUS
<1>1. timeRange \in Ranges
  BY DEF ViewInit, Ranges
<1> QED BY <1>1, NoFramesLeft, Zenon DEF ViewInit

(* What ShowProfile draws was recorded.                                    *)
THEOREM DrawnFramesExist == ViewSpec => []FramesExist
<1>1. ViewInv /\ [ViewNext]_viewVars => ViewInv'
  BY ViewStep, Zenon
<1>2. ViewInv => FramesExist
  BY Zenon DEF ViewInv
<1> QED BY <1>1, <1>2, ViewStart, PTL DEF ViewSpec

(* It draws the frames of the range that it shows, and only those.         *)
THEOREM RangeIsAlwaysShown == ViewSpec => ShowsRange
<1>1. ViewInv /\ [ViewNext]_viewVars => ViewInv'
  BY ViewStep, Zenon
<1>2. ViewInv /\ [ViewNext]_viewVars =>
         [timeRange' # timeRange \/ visibleFrames' # visibleFrames =>
             frames' = <<>> \/ RangeIsShown]_viewVars
  BY ViewStep, Zenon
<1> QED BY <1>1, <1>2, ViewStart, PTL DEF ViewSpec, ShowsRange

=============================================================================
