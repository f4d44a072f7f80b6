--------------------------- MODULE LogWriterProofs ---------------------------
(***************************************************************************)
(* For any loggers and capacities: a buffer is never in two hands, and the *)
(* file is what was sent.  The one rests on the other: a logger that fills *)
(* a buffer cannot spoil a record that is still to be written, because the *)
(* buffer is nobody else's.                                                *)
(***************************************************************************)
EXTENDS LogWriter, FiniteSetTheorems, SequenceTheorems, TLAPS

Pending == {l \in Loggers : logger[l].pc \in {"make", "get"}}
Making == {l \in Loggers : logger[l].pc = "make"}

\* Every buffer was made for a record of its own, and every logger makes at most one
\* buffer channel: a logger that finds one takes it.
Counts ==
  /\ bufs + Cardinality(Pending) <= records
  /\ made + Cardinality(Making) <= Cardinality(Loggers)
  /\ made > 0 => bufferchan > 0
  /\ bufs > 0 => bufferchan > 0
  /\ \A l \in Loggers : logger[l].pc = "get" => bufferchan > 0

\* Who has a buffer.
Filled == {"send", "sending", "stuck"}
Hands ==
  /\ \A l \in Loggers : logger[l].buf > 0 <=> logger[l].pc \in Filled
  /\ hand > 0 <=> writer \in {"write", "give", "giveLast"}

In(b, s) == \E i \in DOMAIN s : s[i] = b
Distinct(s) == \A i, j \in DOMAIN s : s[i] = s[j] => i = j

\* A buffer that was made is in one place at most.
Made ==
  /\ \A b \in Buffers : In(b, data) => b <= bufs
  /\ \A b \in Buffers, g \in Chans : In(b, free[g]) => b <= bufs
Apart ==
  /\ \A l, m \in Loggers : l # m /\ logger[l].buf > 0 => logger[l].buf # logger[m].buf
  /\ \A l \in Loggers : logger[l].buf > 0 =>
       /\ ~In(logger[l].buf, data) /\ hand # logger[l].buf
       /\ \A g \in Chans : ~In(logger[l].buf, free[g])
  /\ Distinct(data) /\ ~In(hand, data)
  /\ \A g \in Chans : Distinct(free[g]) /\ ~In(hand, free[g])
  /\ \A g \in Chans, b \in Buffers : In(b, free[g]) =>
       ~In(b, data) /\ \A h \in Chans : h # g => ~In(b, free[h])

\* The records on the way, one by one.
Writing == IF writer = "write" THEN 1 ELSE 0
Logged ==
  /\ \A l \in Loggers : logger[l].pc \in Filled => content[logger[l].buf] = logger[l].rec
  /\ Len(sent) = Len(file) + Writing + Len(data)
  /\ \A i \in 1 .. Len(file) : sent[i] = file[i].rec
  /\ writer = "write" => sent[Len(file) + 1] = content[hand]
  /\ \A i \in 1 .. Len(data) : sent[Len(file) + Writing + i] = content[data[i]]

Histories == file \in Seq([rec : Nat, written : BOOLEAN]) /\ sent \in Seq(Nat)

IInv == TypeOK /\ Histories /\ Counts /\ Hands /\ Made /\ Apart /\ Logged
USE CapsAssumption, LoggersAssumption

-----------------------------------------------------------------------------
(* Sequences *)

LEMMA HeadAndTail ==
  ASSUME NEW S, NEW s \in Seq(S), s # <<>>
  PROVE  /\ Head(s) \in S /\ Head(s) = s[1] /\ 1 \in DOMAIN s
         /\ Tail(s) \in Seq(S) /\ Len(Tail(s)) = Len(s) - 1 /\ Len(s) \in Nat \ {0}
         /\ \A i \in 1 .. Len(s) - 1 : Tail(s)[i] = s[i + 1]
OBVIOUS

LEMMA Appended ==
  ASSUME NEW S, NEW s \in Seq(S), NEW e \in S
  PROVE  /\ Append(s, e) \in Seq(S) /\ Len(Append(s, e)) = Len(s) + 1 /\ Len(s) \in Nat
         /\ \A i \in 1 .. Len(s) : Append(s, e)[i] = s[i]
         /\ Append(s, e)[Len(s) + 1] = e
OBVIOUS

\* What is taken from the head of a sequence without repetitions has left it.
LEMMA InTail ==
  ASSUME NEW S, NEW s \in Seq(S), s # <<>>, Distinct(s)
  PROVE  /\ In(Head(s), s) /\ Distinct(Tail(s)) /\ ~In(Head(s), Tail(s))
         /\ \A b : In(b, Tail(s)) => In(b, s)
<1>1. /\ Head(s) = s[1] /\ 1 \in DOMAIN s /\ Len(s) \in Nat \ {0}
      /\ DOMAIN s = 1 .. Len(s) /\ DOMAIN Tail(s) = 1 .. Len(s) - 1
      /\ \A i \in 1 .. Len(s) - 1 : Tail(s)[i] = s[i + 1]
  BY HeadAndTail
<1>2. \A i \in 1 .. Len(s) - 1 : i + 1 \in 1 .. Len(s) /\ i + 1 # 1
  BY <1>1
<1>3. In(Head(s), s) /\ ~In(Head(s), Tail(s)) /\ \A b : In(b, Tail(s)) => In(b, s)
  BY <1>1, <1>2 DEF In, Distinct
<1>4. Distinct(Tail(s))
  BY <1>1, <1>2 DEF Distinct
<1> QED BY <1>3, <1>4

LEMMA InAppend ==
  ASSUME NEW S, NEW s \in Seq(S), NEW e \in S
  PROVE  /\ \A b : In(b, Append(s, e)) <=> In(b, s) \/ b = e
         /\ Distinct(s) /\ ~In(e, s) => Distinct(Append(s, e))
<1>1. /\ DOMAIN s = 1 .. Len(s) /\ DOMAIN Append(s, e) = 1 .. (Len(s) + 1) /\ Len(s) \in Nat
      /\ \A i \in 1 .. Len(s) : Append(s, e)[i] = s[i]
      /\ Append(s, e)[Len(s) + 1] = e
  BY Appended
<1>2. \A i \in 1 .. (Len(s) + 1) : i \in 1 .. Len(s) \/ i = Len(s) + 1
  BY <1>1
<1>3. Len(s) + 1 \in 1 .. (Len(s) + 1) /\ \A i \in 1 .. Len(s) : i \in 1 .. (Len(s) + 1)
  BY <1>1
<1>4. \A b : In(b, Append(s, e)) <=> In(b, s) \/ b = e
  BY <1>1, <1>2, <1>3 DEF In
<1>5. Distinct(s) /\ ~In(e, s) => Distinct(Append(s, e))
  BY <1>1, <1>2 DEF In, Distinct
<1> QED BY <1>4, <1>5

-----------------------------------------------------------------------------
(* Types *)

\* TypeOK in parts, with the natural numbers for the bounds that grow.
LoggerType == [pc : {"idle", "get", "make"} \cup Filled, rec : Nat, buf : Nat]
Types ==
  /\ datachan \in BOOLEAN /\ data \in Seq(Buffers) /\ dataClosed \in BOOLEAN
  /\ made \in Nat /\ bufferchan \in 0 .. made
  /\ free \in [Chans -> Seq(Buffers)] /\ freeClosed \in SUBSET Chans
  /\ records \in 0 .. MaxWrites /\ bufs \in Nat
  /\ content \in [Buffers -> Nat]
  /\ logger \in [Loggers -> LoggerType]
  /\ writer \in {"eval", "wait", "write", "give", "giveLast", "dead", "ended"}
  /\ select \in BOOLEAN /\ hand \in Nat /\ size \in 0 .. FileCap
  /\ quit \in {"idle", "field", "buffers", "send", "done"}
  /\ panicked \in BOOLEAN
Bounds ==
  /\ \A b \in Buffers : content[b] <= records
  /\ \A l \in Loggers : logger[l].rec <= records /\ logger[l].buf <= bufs
  /\ hand <= bufs

\* How many loggers there are in a state of their own.
LEMMA Cardinalities ==
  /\ Cardinality(Loggers) \in Nat
  /\ IsFiniteSet(Pending) /\ Cardinality(Pending) \in Nat
  /\ IsFiniteSet(Making) /\ Cardinality(Making) \in Nat
  /\ Cardinality(Making) <= Cardinality(Loggers)
<1>1. Pending \subseteq Loggers /\ Making \subseteq Loggers
  BY DEF Pending, Making
<1> QED BY <1>1, FS_Subset, FS_CardinalityType

LEMMA TypesOfTypeOK == ASSUME TypeOK PROVE Types /\ Bounds
<1>1. Types
  <2>1. records \in Nat /\ bufs \in Nat /\ made \in Nat
    BY Cardinalities DEF TypeOK
  <2>2. content \in [Buffers -> Nat]
    BY <2>1 DEF TypeOK
  <2>3. \A l \in Loggers : logger[l] \in LoggerType
    BY <2>1 DEF TypeOK, LoggerType, Filled
  <2>4. logger \in [Loggers -> LoggerType]
    BY <2>3 DEF TypeOK
  <2> QED BY <2>1, <2>2, <2>4 DEF TypeOK, Types
<1>2. Bounds
  <2>1. \A l \in Loggers : logger[l].rec \in 0 .. records /\ logger[l].buf \in 0 .. bufs
    BY DEF TypeOK
  <2>2. \A b \in Buffers : content[b] \in 0 .. records
    BY DEF TypeOK
  <2> QED BY <2>1, <2>2 DEF TypeOK, Bounds
<1> QED BY <1>1, <1>2

LEMMA TypeOKOfTypes == ASSUME Types, Bounds, Counts PROVE TypeOK
<1>1. bufs \in 0 .. records /\ made \in 0 .. Cardinality(Loggers)
  BY Cardinalities DEF Types, Counts
<1>2. content \in [Buffers -> 0 .. records]
  BY <1>1 DEF Types, Bounds
<1>3. \A l \in Loggers : logger[l] \in [pc : {"idle", "get", "make"} \cup Filled,
                                       rec : 0 .. records, buf : 0 .. bufs]
  <2> TAKE l \in Loggers
  <2>1. logger[l] \in LoggerType
    BY DEF Types
  <2>2. logger[l].rec \in 0 .. records /\ logger[l].buf \in 0 .. bufs
    BY <1>1, <2>1 DEF LoggerType, Bounds
  <2> QED BY <2>1, <2>2 DEF LoggerType
<1>4. logger \in [Loggers -> [pc : {"idle", "get", "make"} \cup Filled,
                              rec : 0 .. records, buf : 0 .. bufs]]
  BY <1>3 DEF Types
<1> QED BY <1>1, <1>2, <1>4 DEF Types, Bounds, TypeOK, Filled

-----------------------------------------------------------------------------
(* The conjuncts for steps that leave their variables alone, and steps of a logger *)

LEMMA InitIInv == Init => IInv
<1> SUFFICES ASSUME Init PROVE IInv
  OBVIOUS
<1>1. MaxWrites \in Nat /\ FileCap \in Nat /\ Cardinality(Loggers) \in Nat
  BY Cardinalities
<1>2. TypeOK
  <2>1. \A l \in Loggers : logger[l] \in [pc : {"idle", "get", "make", "send", "sending", "stuck"},
                                         rec : 0 .. records, buf : 0 .. bufs]
    BY DEF Init
  <2>2. logger \in [Loggers -> [pc : {"idle", "get", "make", "send", "sending", "stuck"},
                                rec : 0 .. records, buf : 0 .. bufs]]
    BY <2>1 DEF Init
  <2>3. /\ made \in 0 .. Cardinality(Loggers) /\ bufferchan \in 0 .. made
        /\ records \in 0 .. MaxWrites /\ bufs \in 0 .. records /\ hand \in 0 .. bufs
        /\ size \in 0 .. FileCap
    BY <1>1 DEF Init, Opening
  <2>4. free \in [Chans -> Seq(Buffers)] /\ content \in [Buffers -> 0 .. records]
        /\ data \in Seq(Buffers)
    BY <1>1 DEF Init
  <2> QED BY <2>2, <2>3, <2>4 DEF Init, Opening, TypeOK
<1>3. Counts
  <2>1. Pending = {} /\ Making = {}
    BY DEF Init, Pending, Making
  <2>2. Cardinality(Pending) = 0 /\ Cardinality(Making) = 0
    BY <2>1, FS_EmptySet
  <2> QED BY <1>1, <2>2 DEF Init, Counts
<1>4. Histories /\ Hands /\ Made /\ Logged
  BY <1>1 DEF Init, Opening, Histories, Hands, Made, Logged, Filled, In, Writing
<1>5. Apart
  BY DEF Init, Apart, In, Distinct
<1> QED BY <1>2, <1>3, <1>4, <1>5 DEF IInv

\* What the invariant says of numbers.
LEMMA Sizes ==
  ASSUME IInv
  PROVE  /\ Types /\ Bounds /\ MaxWrites \in Nat /\ FileCap \in Nat
         /\ records \in Nat /\ records <= MaxWrites /\ bufs \in Nat /\ bufs <= records
         /\ \A b \in 1 .. bufs : b \in Buffers
         /\ bufferchan > 0 => bufferchan \in Chans
<1>1. Types /\ Bounds /\ MaxWrites \in Nat /\ FileCap \in Nat
  BY TypesOfTypeOK DEF IInv
<1>2. records \in Nat /\ records <= MaxWrites /\ bufs \in Nat /\ bufs <= records
  BY <1>1, Cardinalities DEF Types, IInv, Counts
<1>3. bufferchan > 0 => bufferchan \in Chans
  BY <1>1, Cardinalities DEF Types, IInv, Counts, Chans
<1> QED BY <1>1, <1>2, <1>3 DEF Buffers

LEMMA LoggerMoves ==
  ASSUME Types, NEW l \in Loggers, NEW pc \in {"idle", "get", "make"} \cup Filled,
         NEW r \in Nat, NEW b \in Nat, LoggerTo(l, pc, r, b)
  PROVE  /\ logger' \in [Loggers -> LoggerType]
         /\ logger'[l].pc = pc /\ logger'[l].rec = r /\ logger'[l].buf = b
         /\ \A m \in Loggers : m # l => logger'[m] = logger[m]
         /\ logger[l].pc \in {"idle", "get", "make"} \cup Filled
         /\ logger[l].rec \in Nat /\ logger[l].buf \in Nat
<1>1. [pc |-> pc, rec |-> r, buf |-> b] \in LoggerType
  BY DEF LoggerType
<1>2. logger[l] \in LoggerType
  BY DEF Types
<1>3. logger' \in [Loggers -> LoggerType]
  BY <1>1 DEF LoggerTo, Types
<1>4. logger'[l] = [pc |-> pc, rec |-> r, buf |-> b]
  BY DEF LoggerTo, Types
<1>5. \A m \in Loggers : m # l => logger'[m] = logger[m]
  BY DEF LoggerTo, Types
<1> QED BY <1>2, <1>3, <1>4, <1>5 DEF LoggerType

\* How many are pending or making a channel when one logger has moved.
LEMMA Recount ==
  ASSUME Types, NEW l \in Loggers, NEW pc \in {"idle", "get", "make"} \cup Filled,
         NEW r \in Nat, NEW b \in Nat, LoggerTo(l, pc, r, b)
  PROVE  /\ Cardinality(Pending') =
              Cardinality(Pending) - (IF l \in Pending THEN 1 ELSE 0)
                                   + (IF pc \in {"make", "get"} THEN 1 ELSE 0)
         /\ Cardinality(Making') =
              Cardinality(Making) - (IF l \in Making THEN 1 ELSE 0)
                                  + (IF pc = "make" THEN 1 ELSE 0)
<1>1. /\ logger'[l].pc = pc /\ \A m \in Loggers : m # l => logger'[m] = logger[m]
  BY LoggerMoves
<1>2. /\ Pending' = IF pc \in {"make", "get"} THEN Pending \cup {l} ELSE Pending \ {l}
      /\ Making' = IF pc = "make" THEN Making \cup {l} ELSE Making \ {l}
  BY <1>1 DEF Pending, Making
<1>3. /\ Cardinality(Pending \cup {l}) =
           IF l \in Pending THEN Cardinality(Pending) ELSE Cardinality(Pending) + 1
      /\ Cardinality(Making \cup {l}) =
           IF l \in Making THEN Cardinality(Making) ELSE Cardinality(Making) + 1
  BY Cardinalities, FS_AddElement
<1>4. /\ Cardinality(Pending \ {l}) =
           IF l \in Pending THEN Cardinality(Pending) - 1 ELSE Cardinality(Pending)
      /\ Cardinality(Making \ {l}) =
           IF l \in Making THEN Cardinality(Making) - 1 ELSE Cardinality(Making)
  BY Cardinalities, FS_RemoveElement
<1>5. Cardinality(Pending) \in Nat /\ Cardinality(Making) \in Nat
  BY Cardinalities
<1>6. CASE pc = "make"
  BY <1>2, <1>3, <1>5, <1>6
<1>7. CASE pc = "get"
  BY <1>2, <1>3, <1>4, <1>5, <1>7
<1>8. CASE pc \notin {"make", "get"}
  BY <1>2, <1>4, <1>5, <1>8
<1> QED BY <1>6, <1>7, <1>8

\* A step that changes neither loggers nor records nor buffers keeps the counts.
LEMMA CountsKept ==
  ASSUME Counts, UNCHANGED <<logger, bufs, records, made, bufferchan>>
  PROVE  Counts'
BY DEF Counts, Pending, Making

\* A step of a logger that touches no buffer.
LEMMA LoggerWalks ==
  ASSUME IInv, NEW l \in Loggers, NEW pc \in {"idle", "get", "make"} \cup Filled,
         NEW r \in Nat, LoggerTo(l, pc, r, logger[l].buf),
         UNCHANGED <<chans, bufs, content, writerVars, rest>>,
         records' \in 0 .. MaxWrites, records <= records', r <= records',
         pc \in Filled <=> logger[l].pc \in Filled,
         pc \in Filled => r = logger[l].rec, Counts'
  PROVE  IInv'
<1>0. Types /\ Bounds /\ records \in Nat /\ bufs \in Nat
  BY Sizes
<1>1. /\ logger' \in [Loggers -> LoggerType]
      /\ logger'[l].pc = pc /\ logger'[l].rec = r /\ logger'[l].buf = logger[l].buf
      /\ \A m \in Loggers : m # l => logger'[m] = logger[m]
  <2>1. logger[l].buf \in Nat
    BY <1>0 DEF Types, LoggerType
  <2> QED BY <1>0, <2>1, LoggerMoves
<1>2. Types'
  BY <1>0, <1>1 DEF Types, chans, dataVars, bufferVars, writerVars, rest
<1>3. Bounds'
  <2>1. \A b \in Buffers : content[b] \in Nat
    BY <1>0 DEF Types
  <2>2. \A m \in Loggers : logger[m].rec \in Nat /\ logger[m].buf \in Nat
    BY <1>0 DEF Types, LoggerType
  <2>3. \A m \in Loggers : logger'[m].rec <= records' /\ logger'[m].buf <= bufs
    BY <1>0, <1>1, <2>2 DEF Bounds
  <2>4. \A b \in Buffers : content[b] <= records'
    BY <1>0, <2>1 DEF Bounds
  <2> QED BY <1>0, <2>3, <2>4 DEF Bounds, writerVars
<1>4. \A m \in Loggers : /\ logger'[m].buf = logger[m].buf
                         /\ logger'[m].pc \in Filled <=> logger[m].pc \in Filled
                         /\ logger'[m].pc \in Filled => logger'[m].rec = logger[m].rec
  BY <1>1
<1>5. Histories' /\ Hands'
  BY <1>4 DEF IInv, Histories, Hands, chans, dataVars, bufferVars, writerVars, rest
<1>6. Made' /\ Apart'
  BY <1>4 DEF IInv, Made, Apart, chans, dataVars, bufferVars, writerVars
<1>7. Logged'
  BY <1>4 DEF IInv, Logged, Writing, chans, dataVars, bufferVars, writerVars, rest
<1>8. TypeOK'
  BY <1>2, <1>3, TypeOKOfTypes, PTL
<1> QED BY <1>5, <1>6, <1>7, <1>8 DEF IInv

LEMMA CheckChanStep == ASSUME IInv, NEW l \in Loggers, CheckChan(l) PROVE IInv'
<1>0. /\ Types /\ records \in Nat /\ records < MaxWrites /\ records' = records + 1
      /\ MaxWrites \in Nat /\ logger[l].pc = "idle" /\ logger[l].buf = 0
  <2>1. logger[l].buf \in Nat
    BY Sizes DEF Types, LoggerType
  <2>2. Types /\ MaxWrites \in Nat /\ records \in Nat
    BY Sizes
  <2>3. records < MaxWrites /\ records' = records + 1 /\ logger[l].pc = "idle"
    BY DEF CheckChan, LoggerAt
  <2>4. logger[l].buf = 0
    BY <2>1, <2>3 DEF IInv, Hands, Filled
  <2> QED BY <2>2, <2>3, <2>4
<1>1. PICK pc \in {"make", "get"} :
         LoggerTo(l, pc, records', logger[l].buf) /\ (bufferchan = 0 <=> pc = "make")
  BY <1>0 DEF CheckChan
<1>2. UNCHANGED <<chans, bufs, content, writerVars, rest>>
  BY DEF CheckChan
<1>3. /\ pc \in {"idle", "get", "make"} \cup Filled /\ pc \notin Filled
      /\ logger[l].pc \notin Filled /\ records' \in Nat /\ logger[l].buf \in Nat
  BY <1>0 DEF Filled
<1>4. Counts'
  <2>1. l \notin Pending /\ l \notin Making
    BY <1>0 DEF Pending, Making
  <2>2. /\ Cardinality(Pending') = Cardinality(Pending) + 1
        /\ Cardinality(Making') = Cardinality(Making) + (IF pc = "make" THEN 1 ELSE 0)
    BY <1>0, <1>1, <1>3, <2>1, Recount, Cardinalities
  <2>3. \A m \in Loggers : logger'[m].pc = "get" => bufferchan > 0
    <3>1. pc = "get" => bufferchan > 0
      BY <1>0, <1>1 DEF Types
    <3> QED BY <1>0, <1>1, <1>3, <3>1, LoggerMoves DEF IInv, Counts
  <2>4. made \in Nat /\ Cardinality(Making) \in Nat /\ Cardinality(Loggers) \in Nat
        /\ Cardinality(Pending) \in Nat /\ bufs \in Nat
    BY <1>0, Cardinalities DEF Types
  <2>5. made + Cardinality(Making') <= Cardinality(Loggers)
    <3>1. CASE pc = "get"
      BY <2>2, <2>4, <3>1 DEF IInv, Counts
    <3>2. CASE pc = "make"
      <4>1. made = 0
        BY <1>1, <2>4, <3>2 DEF IInv, Counts
      <4>2. Making' \subseteq Loggers
        BY DEF Making
      <4>3. Cardinality(Making') <= Cardinality(Loggers)
        BY <4>2, FS_Subset
      <4>4. Cardinality(Making') \in Nat
        BY <2>2, <2>4
      <4> QED BY <2>4, <4>1, <4>3, <4>4
    <3> QED BY <3>1, <3>2
  <2>6. bufs + Cardinality(Pending') <= records'
    BY <1>0, <2>2, <2>4 DEF IInv, Counts
  <2> QED
    BY <1>2, <2>3, <2>5, <2>6 DEF IInv, Counts, chans, bufferVars
<1> QED BY <1>0, <1>1, <1>2, <1>3, <1>4, LoggerWalks

LEMMA ReadChanStep == ASSUME IInv, NEW l \in Loggers, ReadChan(l) PROVE IInv'
<1>0. /\ Types /\ records \in Nat /\ records <= MaxWrites /\ MaxWrites \in Nat
      /\ logger[l].pc = "send" /\ logger[l].rec \in Nat /\ logger[l].buf \in Nat
      /\ logger[l].rec <= records
  BY Sizes DEF ReadChan, LoggerAt, Types, LoggerType, Bounds
<1>1. PICK pc \in {"sending", "stuck"} : LoggerTo(l, pc, logger[l].rec, logger[l].buf)
  BY DEF ReadChan
<1>2. UNCHANGED <<chans, bufs, content, records, writerVars, rest>>
  BY DEF ReadChan, buffers
<1>3. pc \in {"idle", "get", "make"} \cup Filled /\ pc \in Filled /\ logger[l].pc \in Filled
  BY <1>0 DEF Filled
<1>4. Counts'
  <2>1. l \notin Pending /\ l \notin Making /\ pc \notin {"make", "get"}
    BY <1>0 DEF Pending, Making
  <2>2. Cardinality(Pending') = Cardinality(Pending) /\ Cardinality(Making') = Cardinality(Making)
    BY <1>0, <1>1, <1>3, <2>1, Recount, Cardinalities
  <2>3. \A m \in Loggers : logger'[m].pc = "get" => bufferchan > 0
    BY <1>0, <1>1, <1>3, <2>1, LoggerMoves DEF IInv, Counts
  <2> QED BY <1>2, <2>2, <2>3 DEF IInv, Counts, chans, bufferVars
<1> QED BY <1>0, <1>1, <1>2, <1>3, <1>4, LoggerWalks

-----------------------------------------------------------------------------
(* A logger fills a buffer *)

\* The buffer that getBuffer returns is nobody else's: it was the first of the buffer
\* channel, or it is new.
FillsWith(l, b) ==
  /\ b \in Buffers /\ b <= bufs' /\ bufs' \in Nat /\ bufs <= bufs'
  /\ bufs' = bufs \/ bufs' = bufs + 1
  /\ Fill(l, b)
  /\ logger[l].pc \in {"get", "make"}
  /\ b # hand /\ ~In(b, data) /\ \A m \in Loggers : logger[m].buf # b
  /\ \A g \in Chans : ~In(b, free'[g]) /\ Distinct(free'[g])
  /\ \A g \in Chans, x \in Buffers : In(x, free'[g]) => In(x, free[g])
  /\ free' \in [Chans -> Seq(Buffers)]

\* A logger that has to make a buffer may: every record has at most one.
LEMMA MakesABuffer ==
  ASSUME IInv, NEW l \in Loggers, logger[l].pc \in {"get", "make"}
  PROVE  bufs + 1 \in Buffers
<1>1. Cardinality(Pending) >= 1
  <2>1. l \in Pending
    BY DEF Pending
  <2>2. Cardinality(Pending \ {l}) = Cardinality(Pending) - 1 /\ Pending \ {l} \subseteq Pending
    BY <2>1, Cardinalities, FS_RemoveElement
  <2>3. IsFiniteSet(Pending \ {l})
    BY <2>2, Cardinalities, FS_Subset
  <2>4. Cardinality(Pending \ {l}) \in Nat
    BY <2>3, FS_CardinalityType
  <2> QED BY <2>2, <2>4, Cardinalities
<1>2. bufs \in Nat /\ records \in Nat /\ records <= MaxWrites /\ MaxWrites \in Nat
  BY Sizes
<1>3. bufs + Cardinality(Pending) <= records /\ Cardinality(Pending) \in Nat
  BY Cardinalities DEF IInv, Counts
<1> QED BY <1>1, <1>2, <1>3 DEF Buffers

LEMMA NewIsApart ==
  ASSUME IInv, NEW l \in Loggers, logger[l].pc \in {"get", "make"}, NewBuffer(l),
         free' \in [Chans -> Seq(Buffers)], \A g \in Chans : Distinct(free'[g]),
         \A g \in Chans, x \in Buffers : In(x, free'[g]) => In(x, free[g])
  PROVE  FillsWith(l, bufs + 1)
<1>1. bufs + 1 \in Buffers
  BY MakesABuffer
<1>2. Types /\ Bounds /\ bufs \in Nat
  BY Sizes
<1>3. bufs + 1 # hand
  BY <1>2 DEF Types, Bounds
<1>4. \A m \in Loggers : logger[m].buf # bufs + 1
  <2> TAKE m \in Loggers
  <2>1. logger[m].buf \in Nat /\ logger[m].buf <= bufs
    BY <1>2 DEF Types, LoggerType, Bounds
  <2> QED BY <1>2, <2>1
<1>5. ~(bufs + 1 <= bufs)
  BY <1>2
<1>6. ~In(bufs + 1, data) /\ \A g \in Chans : ~In(bufs + 1, free'[g])
  BY <1>1, <1>5 DEF IInv, Made
<1>7. bufs' = bufs + 1 /\ Fill(l, bufs + 1)
  BY DEF NewBuffer
<1>8. bufs + 1 <= bufs' /\ bufs' \in Nat /\ bufs <= bufs'
  BY <1>2, <1>7
<1> QED BY <1>1, <1>3, <1>4, <1>6, <1>7, <1>8 DEF FillsWith

LEMMA GetFills == ASSUME IInv, NEW l \in Loggers, GetBuffer(l) PROVE \E b : FillsWith(l, b)
<1>0. /\ logger[l].pc = "get" /\ bufferchan \in Chans /\ Types /\ Bounds /\ bufs \in Nat
      /\ free \in [Chans -> Seq(Buffers)]
  BY Sizes DEF GetBuffer, LoggerAt, IInv, Counts, Types
<1> DEFINE g0 == bufferchan
           s == free[bufferchan]
<1>1. CASE s = <<>> /\ NewBuffer(l) /\ UNCHANGED free
  BY <1>0, <1>1, NewIsApart DEF IInv, Apart
<1>2. CASE s # <<>> /\ free' = [free EXCEPT ![g0] = Tail(@)]
  <2>0. /\ free'[g0] = Tail(s) /\ \A g \in Chans : g # g0 => free'[g] = free[g]
        /\ s \in Seq(Buffers) /\ Tail(s) \in Seq(Buffers) /\ Head(s) \in Buffers
    BY <1>0, <1>2, HeadAndTail
  <2>1. free' \in [Chans -> Seq(Buffers)]
    BY <1>0, <1>2, <2>0
  <2>2. /\ In(Head(s), s) /\ Distinct(Tail(s)) /\ ~In(Head(s), Tail(s))
        /\ \A x : In(x, Tail(s)) => In(x, s)
    BY <1>0, <1>2, <2>0, InTail DEF IInv, Apart
  <2>3. \A g \in Chans : Distinct(free'[g])
    BY <2>0, <2>2 DEF IInv, Apart
  <2>4. \A g \in Chans, x \in Buffers : In(x, free'[g]) => In(x, free[g])
    BY <2>0, <2>2
  <2>5. CASE Fill(l, Head(s)) /\ UNCHANGED bufs
    <3> DEFINE b == Head(s)
    <3>1. b \in Buffers /\ In(b, free[g0]) /\ b <= bufs
      BY <1>0, <2>0, <2>2 DEF IInv, Made
    <3>2. ~In(b, data) /\ \A g \in Chans : g # g0 => ~In(b, free[g])
      BY <1>0, <3>1 DEF IInv, Apart
    <3>3. b # hand /\ \A m \in Loggers : logger[m].buf # b
      <4>1. b > 0
        BY <3>1 DEF Buffers
      <4> QED BY <1>0, <3>1, <4>1 DEF IInv, Apart
    <3>4. \A g \in Chans : ~In(b, free'[g])
      BY <2>0, <2>2, <3>2
    <3> HIDE DEF b
    <3>5. Fill(l, b)
      BY <2>5 DEF b
    <3> QED
      BY <1>0, <2>1, <2>3, <2>4, <2>5, <3>1, <3>2, <3>3, <3>4, <3>5 DEF FillsWith
  <2>6. CASE NewBuffer(l)
    BY <1>0, <2>1, <2>3, <2>4, <2>6, NewIsApart
  <2> QED BY <1>2, <2>5, <2>6 DEF GetBuffer
<1> QED BY <1>1, <1>2 DEF GetBuffer

LEMMA FillStep ==
  ASSUME IInv, NEW l \in Loggers, NEW b, FillsWith(l, b),
         UNCHANGED <<dataVars, freeClosed, records, writerVars, rest>>,
         made' \in Nat, bufferchan' \in 0 .. made', Counts'
  PROVE  IInv'
<1>0. /\ Types /\ Bounds /\ bufs \in Nat /\ records \in Nat
      /\ logger[l].rec \in Nat /\ logger[l].rec <= records
  BY Sizes DEF Types, LoggerType, Bounds
<1>1. /\ b \in Buffers /\ b \in Nat /\ b > 0 /\ b <= bufs' /\ bufs' \in Nat /\ bufs <= bufs'
      /\ "send" \in {"idle", "get", "make"} \cup Filled
      /\ logger[l].pc \notin Filled
  BY DEF FillsWith, Buffers, Filled
<1>2. /\ LoggerTo(l, "send", logger[l].rec, b)
      /\ content' = [content EXCEPT ![b] = logger[l].rec]
  BY DEF FillsWith, Fill
<1>3. /\ logger' \in [Loggers -> LoggerType]
      /\ logger'[l].pc = "send" /\ logger'[l].rec = logger[l].rec /\ logger'[l].buf = b
      /\ \A m \in Loggers : m # l => logger'[m] = logger[m]
  BY <1>0, <1>1, <1>2, LoggerMoves
<1>4. /\ content' \in [Buffers -> Nat]
      /\ \A x \in Buffers : content'[x] = IF x = b THEN logger[l].rec ELSE content[x]
  BY <1>0, <1>1, <1>2 DEF Types
<1>5. Types'
  BY <1>0, <1>1, <1>3, <1>4 DEF Types, FillsWith, dataVars, writerVars, rest
<1>6. Bounds'
  <2>1. \A m \in Loggers : logger[m].rec \in Nat /\ logger[m].buf \in Nat
    BY <1>0 DEF Types, LoggerType
  <2>2. \A m \in Loggers : logger'[m].rec <= records /\ logger'[m].buf <= bufs'
    BY <1>0, <1>1, <1>3, <2>1 DEF Bounds
  <2>3. \A x \in Buffers : content'[x] <= records
    BY <1>0, <1>4 DEF Bounds
  <2>4. hand <= bufs'
    BY <1>0, <1>1 DEF Bounds, Types
  <2> QED BY <2>2, <2>3, <2>4 DEF Bounds, writerVars
<1>7. TypeOK'
  BY <1>5, <1>6, TypeOKOfTypes, PTL
<1>8. Histories' /\ Hands'
  BY <1>1, <1>3 DEF IInv, Histories, Hands, Filled, writerVars, rest
<1>9. Made'
  <2>1. \A x \in Buffers : x <= bufs => x <= bufs'
    BY <1>0, <1>1 DEF Buffers
  <2> QED BY <2>1 DEF IInv, Made, FillsWith, dataVars
<1>10. Apart'
  <2>1. \A m, n \in Loggers : m # n /\ logger'[m].buf > 0 => logger'[m].buf # logger'[n].buf
    BY <1>3 DEF IInv, Apart, FillsWith
  <2>2. \A m \in Loggers : m # l /\ logger[m].buf > 0 => logger[m].buf \in Buffers
    <3> TAKE m \in Loggers
    <3>1. logger[m].buf \in Nat /\ logger[m].buf <= bufs
      BY <1>0 DEF Types, LoggerType, Bounds
    <3> QED BY <1>0, <3>1, Sizes
  <2>3. \A m \in Loggers : logger'[m].buf > 0 =>
          /\ ~In(logger'[m].buf, data) /\ hand # logger'[m].buf
          /\ \A g \in Chans : ~In(logger'[m].buf, free'[g])
    BY <1>3, <2>2 DEF IInv, Apart, FillsWith
  <2>4. \A g \in Chans : ~In(hand, free'[g])
    <3>1. CASE hand \in Buffers
      BY <3>1 DEF IInv, Apart, FillsWith
    <3>2. CASE hand \notin Buffers
      BY <3>2 DEF FillsWith, In
    <3> QED BY <3>1, <3>2
  <2> QED
    BY <2>1, <2>3, <2>4 DEF IInv, Apart, FillsWith, dataVars, writerVars
<1>11. Logged'
  <2>1. \A m \in Loggers : logger'[m].pc \in Filled =>
          content'[logger'[m].buf] = logger'[m].rec
    <3> TAKE m \in Loggers
    <3>1. CASE m = l
      BY <1>1, <1>3, <1>4, <3>1
    <3>2. CASE m # l /\ logger[m].pc \in Filled
      <4>1. /\ logger[m].buf > 0 /\ logger[m].buf # b
            /\ logger[m].buf \in Nat /\ logger[m].buf <= bufs
        BY <1>0, <3>2 DEF IInv, Hands, FillsWith, Types, LoggerType, Bounds
      <4>2. logger[m].buf \in Buffers
        BY <1>0, <4>1, Sizes
      <4> QED BY <1>3, <1>4, <3>2, <4>1, <4>2 DEF IInv, Logged
    <3> QED BY <1>3, <3>1, <3>2
  <2>2. writer = "write" => hand \in Buffers /\ content'[hand] = content[hand]
    <3>1. writer = "write" => hand > 0 /\ hand \in Nat /\ hand <= bufs
      BY <1>0 DEF IInv, Hands, Types, Bounds
    <3>2. writer = "write" => hand \in Buffers
      BY <1>0, <3>1, Sizes
    <3> QED BY <1>4, <3>2 DEF FillsWith
  <2>3. \A i \in 1 .. Len(data) : content'[data[i]] = content[data[i]]
    <3>1. \A i \in 1 .. Len(data) : data[i] \in Buffers /\ data[i] # b
      BY <1>0 DEF Types, FillsWith, In
    <3> QED BY <1>4, <3>1
  <2> QED BY <2>1, <2>2, <2>3 DEF IInv, Logged, Writing, dataVars, writerVars, rest
<1> QED BY <1>7, <1>8, <1>9, <1>10, <1>11 DEF IInv

LEMMA GetBufferStep == ASSUME IInv, NEW l \in Loggers, GetBuffer(l) PROVE IInv'
<1>0. /\ Types /\ bufs \in Nat /\ records \in Nat /\ logger[l].pc = "get"
      /\ bufferchan > 0 /\ logger[l].rec \in Nat
  BY Sizes DEF GetBuffer, LoggerAt, IInv, Counts, Types, LoggerType
<1>1. UNCHANGED <<dataVars, bufferVars, records, writerVars, rest>>
  BY DEF GetBuffer
<1>2. PICK b : FillsWith(l, b)
  BY GetFills
<1>3. Counts'
  <2>1. /\ b \in Nat /\ "send" \in {"idle", "get", "make"} \cup Filled
        /\ LoggerTo(l, "send", logger[l].rec, b) /\ bufs' \in {bufs, bufs + 1}
    BY <1>2 DEF FillsWith, Fill, Filled, Buffers
  <2>2. l \in Pending /\ l \notin Making
    BY <1>0 DEF Pending, Making
  <2>3. Cardinality(Pending') = Cardinality(Pending) - 1 /\ Cardinality(Making') = Cardinality(Making)
    BY <1>0, <2>1, <2>2, Recount, Cardinalities
  <2>4. bufs' + Cardinality(Pending') <= records
    BY <1>0, <2>1, <2>3, Cardinalities DEF IInv, Counts
  <2> QED BY <1>0, <1>1, <2>3, <2>4 DEF IInv, Counts, bufferVars
<1> QED BY <1>0, <1>1, <1>2, <1>3, FillStep DEF bufferVars, Types

LEMMA MakeBufferChanStep == ASSUME IInv, NEW l \in Loggers, MakeBufferChan(l) PROVE IInv'
<1>0. /\ Types /\ bufs \in Nat /\ records \in Nat /\ logger[l].pc = "make"
      /\ logger[l].rec \in Nat /\ made \in Nat
  BY Sizes DEF MakeBufferChan, LoggerAt, Types, LoggerType
<1>1. /\ UNCHANGED <<dataVars, free, freeClosed, records, writerVars, rest>>
      /\ \/ made' = made + 1 /\ bufferchan' = made + 1
         \/ bufferchan # 0 /\ made' = made /\ bufferchan' = bufferchan
      /\ NewBuffer(l)
  BY DEF MakeBufferChan
<1>2. FillsWith(l, bufs + 1)
  BY <1>0, <1>1, NewIsApart DEF IInv, Apart, Types
<1>3. Counts'
  <2>1. /\ bufs + 1 \in Nat /\ "send" \in {"idle", "get", "make"} \cup Filled
        /\ LoggerTo(l, "send", logger[l].rec, bufs + 1) /\ bufs' = bufs + 1
    BY <1>0, <1>1 DEF NewBuffer, Fill, Filled
  <2>2. l \in Pending /\ l \in Making
    BY <1>0 DEF Pending, Making
  <2>3. /\ Cardinality(Pending') = Cardinality(Pending) - 1
        /\ Cardinality(Making') = Cardinality(Making) - 1
    BY <1>0, <2>1, <2>2, Recount, Cardinalities
  <2>4. bufs' + Cardinality(Pending') <= records
    BY <1>0, <2>1, <2>3, Cardinalities DEF IInv, Counts
  <2>5. made' + Cardinality(Making') <= Cardinality(Loggers)
    BY <1>0, <1>1, <2>3, Cardinalities DEF IInv, Counts
  <2>6. bufferchan' > 0
    BY <1>0, <1>1 DEF Types
  <2> QED BY <1>1, <2>4, <2>5, <2>6 DEF Counts
<1>4. made' \in Nat /\ bufferchan' \in 0 .. made'
  BY <1>0, <1>1 DEF Types
<1> QED BY <1>1, <1>2, <1>3, <1>4, FillStep

-----------------------------------------------------------------------------
(* Sending, and the writer *)

LEMMA PanicStep == ASSUME IInv, Panics PROVE IInv'
<1>1. UNCHANGED <<chans, buffers, logger, writerVars, quit, sent>> /\ panicked' = TRUE
  BY DEF Panics
<1> USE <1>1 DEF chans, dataVars, bufferVars, buffers, writerVars
<1>2. TypeOK' /\ Histories'
  BY DEF IInv, TypeOK, Histories
<1>3. Counts'
  BY CountsKept DEF IInv
<1>4. Hands' /\ Made' /\ Apart'
  BY DEF IInv, Hands, Made, Apart
<1>5. Logged'
  BY DEF IInv, Logged, Writing
<1> QED BY <1>2, <1>3, <1>4, <1>5 DEF IInv

LEMMA SendStep == ASSUME IInv, NEW l \in Loggers, Send(l) PROVE IInv'
<1>1. CASE Panics
  BY <1>1, PanicStep
<1> DEFINE b == logger[l].buf
           r == logger[l].rec
<1>2. CASE /\ data' = Append(data, b) /\ sent' = Append(sent, r)
           /\ LoggerTo(l, "idle", 0, 0)
           /\ UNCHANGED <<datachan, dataClosed, bufferVars, free, buffers, writerVars, quit,
                          panicked>>
  <2>0. /\ Types /\ Bounds /\ logger[l].pc = "sending" /\ b \in Nat /\ r \in Nat /\ b <= bufs
        /\ bufs \in Nat /\ data \in Seq(Buffers)
    BY Sizes DEF Send, LoggerAt, Types, LoggerType, Bounds
  <2>1. b > 0 /\ b \in Buffers /\ content[b] = r
    <3>1. logger[l].pc \in Filled
      BY <2>0 DEF Filled
    <3>2. b > 0
      BY <3>1 DEF IInv, Hands
    <3> QED BY <2>0, <3>1, <3>2, Sizes DEF IInv, Logged
  <2>2. /\ logger' \in [Loggers -> LoggerType]
        /\ logger'[l].pc = "idle" /\ logger'[l].rec = 0 /\ logger'[l].buf = 0
        /\ \A m \in Loggers : m # l => logger'[m] = logger[m]
    BY <1>2, <2>0, LoggerMoves
  <2>3. /\ data' \in Seq(Buffers) /\ Len(data') = Len(data) + 1 /\ Len(data) \in Nat
        /\ \A i \in 1 .. Len(data) : data'[i] = data[i]
        /\ data'[Len(data) + 1] = b
        /\ \A x : In(x, data') <=> In(x, data) \/ x = b
        /\ Distinct(data) /\ ~In(b, data) => Distinct(data')
    BY <1>2, <2>0, <2>1, Appended, InAppend
  <2>4. /\ sent' \in Seq(Nat) /\ Len(sent') = Len(sent) + 1 /\ Len(sent) \in Nat
        /\ \A i \in 1 .. Len(sent) : sent'[i] = sent[i]
        /\ sent'[Len(sent) + 1] = r
    BY <1>2, <2>0, Appended DEF IInv, Histories
  <2> HIDE DEF b, r
  <2>5. /\ UNCHANGED <<content, records, bufs, made, bufferchan, free, freeClosed, datachan>>
        /\ UNCHANGED <<writer, select, hand, size, file, quit, panicked, dataClosed>>
    BY <1>2 DEF bufferVars, buffers, writerVars
  <2>6. Types'
    BY <2>0, <2>2, <2>3, <2>5 DEF Types
  <2>7. Bounds'
    BY <2>0, <2>2, <2>5, Sizes DEF Bounds
  <2>8. Counts'
    <3>1. /\ "idle" \in {"idle", "get", "make"} \cup Filled /\ 0 \in Nat
          /\ l \notin Pending /\ l \notin Making
      BY <2>0 DEF Pending, Making
    <3>2. Cardinality(Pending') = Cardinality(Pending) /\ Cardinality(Making') = Cardinality(Making)
      BY <1>2, <2>0, <3>1, Recount, Cardinalities
    <3> QED BY <2>2, <2>5, <3>2 DEF IInv, Counts
  <2>9. TypeOK'
    BY <2>6, <2>7, <2>8, TypeOKOfTypes, PTL
  <2>10. Histories' /\ Hands'
    <3>1. \A m \in Loggers : logger'[m].buf > 0 <=> logger'[m].pc \in Filled
      <4>1. ~(0 > 0) /\ "idle" \notin Filled
        BY DEF Filled
      <4> QED BY <2>2, <4>1 DEF IInv, Hands
    <3>2. Hands'
      BY <2>5, <3>1 DEF IInv, Hands
    <3>3. Histories'
      BY <2>4, <2>5 DEF IInv, Histories
    <3> QED BY <3>2, <3>3
  <2>11. Made'
    BY <2>0, <2>3, <2>5 DEF IInv, Made, b, Bounds
  <2>12. Apart'
    <3>1. /\ ~In(b, data) /\ hand # b /\ \A g \in Chans : ~In(b, free[g])
          /\ \A m \in Loggers : m # l => logger[m].buf # b
      BY <2>1 DEF IInv, Apart, b
    <3>2. \A m, n \in Loggers : m # n /\ logger'[m].buf > 0 => logger'[m].buf # logger'[n].buf
      BY <2>2 DEF IInv, Apart
    <3>3. \A m \in Loggers : logger'[m].buf > 0 =>
            /\ ~In(logger'[m].buf, data') /\ hand # logger'[m].buf
            /\ \A g \in Chans : ~In(logger'[m].buf, free[g])
      BY <2>2, <2>3, <3>1 DEF IInv, Apart
    <3>4. Distinct(data') /\ ~In(hand, data')
      BY <2>3, <3>1 DEF IInv, Apart
    <3>5. \A g \in Chans, x \in Buffers : In(x, free[g]) => ~In(x, data')
      BY <2>3, <3>1 DEF IInv, Apart
    <3> QED BY <2>5, <3>2, <3>3, <3>4, <3>5 DEF IInv, Apart
  <2>13. Logged'
    <3>0. Len(file) \in Nat /\ Writing \in Nat /\ Len(sent) = Len(file) + Writing + Len(data)
          /\ (writer = "write" => Writing = 1)
      BY DEF IInv, Histories, Writing, Logged
    <3>1. \A m \in Loggers : logger'[m].pc \in Filled =>
            content[logger'[m].buf] = logger'[m].rec
      BY <2>2 DEF IInv, Logged, Filled
    <3>2. Len(sent') = Len(file) + Writing + Len(data')
      BY <2>3, <2>4, <3>0
    <3>3. \A i \in 1 .. Len(file) : sent'[i] = file[i].rec
      <4>1. \A i \in 1 .. Len(file) : i \in 1 .. Len(sent)
        BY <2>3, <2>4, <3>0
      <4> QED BY <2>4, <4>1 DEF IInv, Logged
    <3>4. writer = "write" => sent'[Len(file) + 1] = content[hand]
      <4>1. writer = "write" => Len(file) + 1 \in 1 .. Len(sent)
        BY <2>3, <2>4, <3>0
      <4> QED BY <2>4, <4>1 DEF IInv, Logged
    <3>5. ASSUME NEW i \in 1 .. Len(data') PROVE sent'[Len(file) + Writing + i] = content[data'[i]]
      <4>1. CASE i \in 1 .. Len(data)
        <5>1. Len(file) + Writing + i \in 1 .. Len(sent)
          BY <2>3, <2>4, <3>0, <4>1
        <5> QED BY <2>3, <2>4, <4>1, <5>1 DEF IInv, Logged
      <4>2. CASE i = Len(data) + 1
        <5>1. Len(file) + Writing + i = Len(sent) + 1
          BY <2>3, <2>4, <3>0, <4>2
        <5> QED BY <2>1, <2>3, <2>4, <4>2, <5>1
      <4> QED BY <2>3, <3>5, <4>1, <4>2
    <3> QED BY <2>5, <3>1, <3>2, <3>3, <3>4, <3>5 DEF Logged, Writing
  <2> QED BY <2>9, <2>10, <2>11, <2>12, <2>8, <2>13 DEF IInv
<1> QED BY <1>1, <1>2 DEF Send

\* A step of the writer, or of QuitWriter, that moves no buffer.
LEMMA WriterWalks ==
  ASSUME IInv,
         UNCHANGED <<data, bufferchan, made, free, buffers, logger, hand, size, file, sent, panicked>>,
         datachan' \in BOOLEAN, dataClosed' \in BOOLEAN, freeClosed' \in SUBSET Chans,
         writer' \in {"eval", "wait", "dead", "ended"} \/ UNCHANGED writer, select' \in BOOLEAN,
         quit' \in {"idle", "field", "buffers", "send", "done"},
         writer \notin {"write", "give", "giveLast"} \/ UNCHANGED writer
  PROVE  IInv'
<1> USE DEF buffers
<1>1. TypeOK' /\ Histories'
  BY DEF IInv, TypeOK, Histories
<1>2. Counts'
  BY CountsKept DEF IInv
<1>3. Hands' /\ Made' /\ Apart'
  BY DEF IInv, Hands, Made, Apart
<1>4. Logged'
  BY DEF IInv, Logged, Writing
<1> QED BY <1>1, <1>2, <1>3, <1>4 DEF IInv

LEMMA WalkingSteps ==
  ASSUME IInv, \/ Evaluate \/ Drained("eval") \/ CloseData \/ ClearData \/ CloseBuffers
               \/ SendQuit
  PROVE  IInv'
<1>0. Types /\ (bufferchan > 0 => bufferchan \in Chans)
  BY Sizes
<1>1. CASE CloseBuffers
  <2>1. {bufferchan} \ {0} \subseteq Chans
    BY <1>0 DEF Types
  <2>2. freeClosed' \in SUBSET Chans
    BY <1>0, <1>1, <2>1 DEF CloseBuffers, Types
  <2> QED
    BY <1>0, <1>1, <2>2, WriterWalks DEF CloseBuffers, Types, dataVars, writerVars
<1>2. CASE Evaluate
  BY <1>0, <1>2, WriterWalks DEF Evaluate, WriterAt, Types, chans, dataVars, bufferVars, rest
<1>3. CASE Drained("eval")
  BY <1>0, <1>3, WriterWalks DEF Drained, WriterAt, Types, chans, dataVars, bufferVars, rest
<1>4. CASE CloseData
  BY <1>0, <1>4, WriterWalks DEF CloseData, Types, bufferVars, writerVars
<1>5. CASE ClearData
  BY <1>0, <1>5, WriterWalks DEF ClearData, Types, bufferVars, writerVars
<1>6. CASE SendQuit
  BY <1>0, <1>6, WriterWalks DEF SendQuit, WriterAt, Types, chans, dataVars, bufferVars
<1> QED BY <1>1, <1>2, <1>3, <1>4, <1>5, <1>6

LEMMA TakeStep == ASSUME IInv, TakeRecord, UNCHANGED free PROVE IInv'
<1>0. /\ Types /\ Bounds /\ data \in Seq(Buffers) /\ data # <<>> /\ writer = "wait"
      /\ hand' = Head(data) /\ data' = Tail(data) /\ writer' = "write"
      /\ UNCHANGED <<datachan, dataClosed, bufferchan, freeClosed, made, free, bufs, content,
                     records, logger, select, size, file, quit, sent, panicked>>
  BY Sizes DEF TakeRecord, WriterAt, Types, bufferVars, buffers, rest
<1>1. /\ hand' = data[1] /\ hand' \in Buffers /\ 1 \in 1 .. Len(data) /\ Len(data) \in Nat
      /\ data' \in Seq(Buffers) /\ Len(data') = Len(data) - 1
      /\ \A i \in 1 .. Len(data') : data'[i] = data[i + 1]
  BY <1>0, HeadAndTail
<1>2. /\ In(hand', data) /\ Distinct(data') /\ ~In(hand', data')
      /\ \A b : In(b, data') => In(b, data)
  BY <1>0, InTail DEF IInv, Apart
<1>3. hand' \in Nat /\ hand' > 0 /\ hand' <= bufs
  BY <1>1, <1>2 DEF Buffers, IInv, Made
<1>4. TypeOK' /\ Counts'
  <2>1. Counts'
    BY <1>0, CountsKept DEF IInv
  <2>2. Types' /\ Bounds'
    BY <1>0, <1>1, <1>3 DEF Types, Bounds
  <2> QED BY <2>1, <2>2, TypeOKOfTypes, PTL
<1>5. Histories' /\ Hands' /\ Made'
  BY <1>0, <1>2, <1>3 DEF IInv, Histories, Hands, Made
<1>6. Apart'
  <2>1. \A l \in Loggers : logger[l].buf > 0 => logger[l].buf # hand'
    BY <1>2 DEF IInv, Apart
  <2>2. \A g \in Chans : ~In(hand', free[g])
    BY <1>1, <1>2 DEF IInv, Apart
  <2> QED BY <1>0, <1>2, <2>1, <2>2 DEF IInv, Apart
<1>7. Logged'
  <2>0. Len(file) \in Nat /\ Writing = 0 /\ Writing' = 1
    BY <1>0 DEF IInv, Histories, Writing
  <2>1. Len(sent) = Len(file) + 1 + Len(data')
    BY <1>0, <1>1, <2>0 DEF IInv, Logged
  <2>2. sent[Len(file) + 1] = content[hand']
    <3>1. Len(file) + Writing + 1 = Len(file) + 1
      BY <2>0
    <3> QED BY <1>1, <3>1 DEF IInv, Logged
  <2>3. ASSUME NEW i \in 1 .. Len(data') PROVE sent[Len(file) + 1 + i] = content[data'[i]]
    <3>1. i + 1 \in 1 .. Len(data) /\ Len(file) + Writing + (i + 1) = Len(file) + 1 + i
      BY <1>1, <2>0
    <3> QED BY <1>1, <3>1 DEF IInv, Logged
  <2> QED BY <1>0, <2>0, <2>1, <2>2, <2>3 DEF IInv, Logged
<1> QED BY <1>4, <1>5, <1>6, <1>7 DEF IInv

LEMMA WriteStep == ASSUME IInv, WriteRecord PROVE IInv'
<1>0. /\ Types /\ Bounds /\ writer = "write" /\ writer' \in {"give", "giveLast"}
      /\ size' \in 0 .. FileCap /\ hand \in Buffers
      /\ UNCHANGED <<chans, buffers, logger, select, hand, rest>>
  <2>1. Types /\ Bounds /\ writer = "write"
    BY Sizes DEF WriteRecord, Written, WriteError, WriterAt
  <2>2. hand \in Buffers
    <3>1. hand > 0 /\ hand \in Nat /\ hand <= bufs
      BY <2>1 DEF IInv, Hands, Types, Bounds
    <3> QED BY <3>1, Sizes
  <2>3. size' \in 0 .. FileCap
    <3>1. size \in 0 .. FileCap /\ FileCap \in Nat
      BY <2>1, Sizes DEF Types
    <3>2. CASE Written
      <4>1. size' = IF size + 1 >= FileCap THEN 0 ELSE size + 1
        BY <3>2 DEF Written
      <4> QED BY <3>1, <4>1
    <3>3. CASE WriteError("give")
      BY <3>1, <3>3 DEF WriteError
    <3> QED BY <3>2, <3>3 DEF WriteRecord
  <2> QED BY <2>1, <2>2, <2>3 DEF WriteRecord, Written, WriteError
<1>1. PICK w \in BOOLEAN : file' = Append(file, [rec |-> content[hand], written |-> w])
  BY DEF WriteRecord, Written, WriteError, Log
<1>2. /\ file' \in Seq([rec : Nat, written : BOOLEAN]) /\ Len(file') = Len(file) + 1
      /\ Len(file) \in Nat
      /\ \A i \in 1 .. Len(file) : file'[i] = file[i]
      /\ file'[Len(file) + 1].rec = content[hand]
  <2>1. content[hand] \in Nat
    BY <1>0 DEF Types
  <2>2. [rec |-> content[hand], written |-> w] \in [rec : Nat, written : BOOLEAN]
    BY <2>1
  <2> QED BY <1>1, <2>2, Appended DEF IInv, Histories
<1>3. UNCHANGED <<data, datachan, dataClosed, bufferchan, freeClosed, made, free, bufs, content,
                  records, quit, sent, panicked>>
  BY <1>0 DEF chans, dataVars, bufferVars, buffers, rest
<1>4. TypeOK' /\ Counts'
  <2>1. Counts'
    BY <1>0, <1>3, CountsKept DEF IInv
  <2>2. Types' /\ Bounds'
    BY <1>0, <1>3 DEF Types, Bounds
  <2> QED BY <2>1, <2>2, TypeOKOfTypes, PTL
<1>5. Histories' /\ Hands' /\ Made' /\ Apart'
  BY <1>0, <1>2, <1>3 DEF IInv, Histories, Hands, Made, Apart
<1>6. Logged'
  <2>0. Writing = 1 /\ Writing' = 0 /\ Len(data) \in Nat
    BY <1>0 DEF Writing, Types
  <2>1. Len(sent) = Len(file') + Writing' + Len(data)
    BY <1>2, <2>0 DEF IInv, Logged
  <2>2. ASSUME NEW i \in 1 .. Len(file') PROVE sent[i] = file'[i].rec
    <3>1. CASE i \in 1 .. Len(file)
      BY <1>2, <3>1 DEF IInv, Logged
    <3>2. CASE i = Len(file) + 1
      BY <1>0, <1>2, <3>2 DEF IInv, Logged
    <3> QED BY <1>2, <2>2, <3>1, <3>2
  <2>3. ASSUME NEW i \in 1 .. Len(data) PROVE sent[Len(file') + Writing' + i] = content[data[i]]
    <3>1. Len(file') + Writing' + i = Len(file) + Writing + i
      BY <1>2, <2>0
    <3> QED BY <3>1 DEF IInv, Logged
  <2> QED BY <1>0, <1>3, <2>1, <2>2, <2>3 DEF IInv, Logged
<1> QED BY <1>4, <1>5, <1>6 DEF IInv

LEMMA GiveBackStep == ASSUME IInv, GiveBack PROVE IInv'
<1>1. CASE Panics
  BY <1>1, PanicStep
<1>2. CASE ~Panics
  <2> DEFINE g0 == bufferchan
  <2>0. /\ Types /\ Bounds /\ writer \in {"give", "giveLast"} /\ hand' = 0
        /\ writer' \in {"eval", "dead"}
        /\ free' = [free EXCEPT ![g0] = Append(@, hand)] \/ UNCHANGED free
        /\ UNCHANGED <<data, datachan, dataClosed, bufferchan, freeClosed, made, bufs, content,
                       records, logger, select, size, file, quit, sent, panicked>>
    BY <1>2, Sizes DEF GiveBack, WriterAt, dataVars, bufferVars, buffers, rest
  <2>1. hand \in Buffers /\ hand <= bufs /\ g0 \in Chans /\ free \in [Chans -> Seq(Buffers)]
    <3>1. hand > 0 /\ hand \in Nat /\ hand <= bufs
      BY <2>0 DEF IInv, Hands, Types, Bounds
    <3>2. bufs > 0 /\ hand \in Buffers
      BY <3>1, Sizes
    <3> QED BY <2>0, <3>1, <3>2, Sizes DEF IInv, Counts, Types
  \* Each buffer channel is as before, or has the buffer more.
  <2>2. \A g \in Chans :
          /\ free'[g] \in Seq(Buffers) /\ Distinct(free'[g])
          /\ \A b : In(b, free'[g]) => In(b, free[g]) \/ (b = hand /\ g = g0)
    <3>1. CASE UNCHANGED free
      BY <2>1, <3>1 DEF IInv, Apart
    <3>2. CASE free' = [free EXCEPT ![g0] = Append(@, hand)]
      <4>1. /\ free'[g0] = Append(free[g0], hand) /\ free[g0] \in Seq(Buffers)
            /\ \A g \in Chans : g # g0 => free'[g] = free[g]
        BY <2>1, <3>2
      <4>2. /\ free'[g0] \in Seq(Buffers)
            /\ \A b : In(b, free'[g0]) <=> In(b, free[g0]) \/ b = hand
            /\ Distinct(free'[g0])
        BY <2>1, <4>1, Appended, InAppend DEF IInv, Apart
      <4> QED BY <2>1, <4>1, <4>2 DEF IInv, Apart
    <3> QED BY <2>0, <3>1, <3>2
  <2>3. free' \in [Chans -> Seq(Buffers)]
    BY <2>0, <2>1, <2>2
  <2>4. TypeOK' /\ Counts'
    <3>1. Counts'
      BY <2>0, CountsKept DEF IInv
    <3>2. Types' /\ Bounds'
      BY <2>0, <2>3, Sizes DEF Types, Bounds
    <3> QED BY <3>1, <3>2, TypeOKOfTypes, PTL
  <2>5. Histories' /\ Hands' /\ Made' /\ Logged'
    <3>1. Histories' /\ Hands'
      BY <2>0 DEF IInv, Histories, Hands
    <3>2. Made'
      <4>1. \A b \in Buffers, g \in Chans : In(b, free'[g]) => b <= bufs
        BY <2>1, <2>2 DEF IInv, Made
      <4> QED BY <2>0, <4>1 DEF IInv, Made
    <3>3. Logged'
      <4>1. Writing = 0 /\ Writing' = 0 /\ writer' # "write"
        BY <2>0 DEF Writing
      <4> QED BY <2>0, <4>1 DEF IInv, Logged
    <3> QED BY <3>1, <3>2, <3>3
  <2>6. Apart'
    <3>1. 0 \notin Buffers /\ data \in Seq(Buffers)
      BY <2>0 DEF Buffers, Types
    <3>2. ~In(0, data) /\ \A g \in Chans : ~In(0, free'[g])
      BY <2>2, <3>1 DEF In
    <3>3. \A l \in Loggers : logger[l].buf > 0 =>
            logger[l].buf # 0 /\ \A g \in Chans : ~In(logger[l].buf, free'[g])
      BY <2>0, <2>2 DEF IInv, Apart, Types, LoggerType
    <3>4. \A g \in Chans, b \in Buffers : In(b, free'[g]) =>
            ~In(b, data) /\ \A h \in Chans : h # g => ~In(b, free'[h])
      BY <2>1, <2>2 DEF IInv, Apart
    <3> QED BY <2>0, <2>2, <3>2, <3>3, <3>4 DEF IInv, Apart
  <2> QED BY <2>4, <2>5, <2>6 DEF IInv
<1> QED BY <1>1, <1>2

-----------------------------------------------------------------------------
(* Every step *)

LEMMA NextIInv == IInv /\ [Next]_vars => IInv'
<1> SUFFICES ASSUME IInv, [Next]_vars PROVE IInv'
  OBVIOUS
<1>1. CASE \E l \in Loggers : CheckChan(l) \/ LoggerStep(l)
  <2> PICK l \in Loggers : CheckChan(l) \/ LoggerStep(l)
    BY <1>1
  <2> QED BY CheckChanStep, GetBufferStep, MakeBufferChanStep, ReadChanStep, SendStep DEF LoggerStep
<1>2. CASE WriterStep
  BY <1>2, WalkingSteps, TakeStep, WriteStep, GiveBackStep DEF WriterStep, TakeData
<1>3. CASE CloseData \/ QuitStep
  BY <1>3, WalkingSteps DEF QuitStep
<1>4. CASE UNCHANGED vars
  <2> USE <1>4 DEF vars, chans, dataVars, bufferVars, buffers, writerVars, rest
  <2>1. TypeOK' /\ Histories' /\ Counts'
    BY CountsKept DEF IInv, TypeOK, Histories
  <2>2. Hands' /\ Made' /\ Apart'
    BY DEF IInv, Hands, Made, Apart
  <2>3. Logged'
    BY DEF IInv, Logged, Writing
  <2> QED BY <2>1, <2>2, <2>3 DEF IInv
<1> QED BY <1>1, <1>2, <1>3, <1>4 DEF Next

\* Of a logger, the writer and the channels one at most has a buffer; the file, the
\* record in the writer's hand and the data channel are what was sent.
THEOREM IInvHolds == Spec => []IInv
BY InitIInv, NextIInv, PTL DEF Spec

\* No buffer and no buffer channel is made that there is no room for: a record gets one
\* buffer at most, and a logger makes one channel at most (getBuffer, reciveBuffer).
THEOREM TypeCorrect == Spec => []TypeOK
<1>1. IInv => TypeOK
  BY DEF IInv
<1> QED BY <1>1, IInvHolds, PTL

LEMMA OneAtMost ==
  ASSUME NEW S, \A x, y \in S : x = y
  PROVE  IF S = {} THEN Cardinality(S) = 0 ELSE Cardinality(S) = 1
<1>1. CASE S = {}
  BY <1>1, FS_EmptySet
<1>2. CASE S # {}
  <2> PICK x \in S : TRUE
    BY <1>2
  <2>1. S = {x}
    OBVIOUS
  <2> QED BY <1>2, <2>1, FS_Singleton
<1> QED BY <1>1, <1>2

\* A buffer is never in two hands: whatever loggers make the buffer channel at once, and
\* however the writer gives back into a channel that was replaced meanwhile.
THEOREM BuffersHaveOnePlace == Spec => []BuffersExclusive
<1>1. ASSUME IInv PROVE BuffersExclusive
  <2> SUFFICES ASSUME NEW b \in Buffers PROVE Places(b) <= 1
    BY DEF BuffersExclusive
  <2> DEFINE inLogger == {l \in Loggers : logger[l].buf = b}
             inData == {i \in DOMAIN data : data[i] = b}
             inHand == {hand} \cap {b}
             inFree == {at \in Chans \X Buffers :
                          at[2] \in DOMAIN free[at[1]] /\ free[at[1]][at[2]] = b}
  <2>0. b > 0 /\ b # 0
    BY DEF Buffers
  <2>1. inLogger # {} => inData = {} /\ inHand = {} /\ inFree = {}
    <3> SUFFICES ASSUME NEW l \in Loggers, logger[l].buf = b
                 PROVE  inData = {} /\ inHand = {} /\ inFree = {}
      OBVIOUS
    <3>1. ~In(b, data) /\ hand # b /\ \A g \in Chans : ~In(b, free[g])
      BY <1>1, <2>0 DEF IInv, Apart
    <3> QED BY <3>1 DEF In
  <2>2. inData # {} => inHand = {} /\ inFree = {}
    <3> SUFFICES ASSUME In(b, data) PROVE inHand = {} /\ inFree = {}
      BY DEF In
    <3>1. hand # b /\ \A g \in Chans : ~In(b, free[g])
      BY <1>1 DEF IInv, Apart
    <3> QED BY <3>1 DEF In
  <2>3. inHand # {} => inFree = {}
    <3> SUFFICES ASSUME hand = b PROVE inFree = {}
      OBVIOUS
    <3>1. \A g \in Chans : ~In(b, free[g])
      BY <1>1 DEF IInv, Apart
    <3> QED BY <3>1 DEF In
  <2>4. \A l, m \in inLogger : l = m
    BY <1>1, <2>0 DEF IInv, Apart
  <2>5. \A i, j \in inData : i = j
    BY <1>1 DEF IInv, Apart, Distinct
  <2>6. \A at, to \in inFree : at = to
    <3> TAKE at, to \in inFree
    <3>1. In(b, free[at[1]]) /\ In(b, free[to[1]]) /\ at[1] \in Chans /\ to[1] \in Chans
      BY DEF In
    <3>2. at[1] = to[1]
      BY <1>1, <3>1 DEF IInv, Apart
    <3>3. at[2] = to[2]
      BY <1>1, <3>1, <3>2 DEF IInv, Apart, Distinct
    <3> QED BY <3>2, <3>3
  <2>7. \A x, y \in inHand : x = y
    OBVIOUS
  <2> HIDE DEF inLogger, inData, inHand, inFree
  <2>8. /\ IF inLogger = {} THEN Cardinality(inLogger) = 0 ELSE Cardinality(inLogger) = 1
        /\ IF inData = {} THEN Cardinality(inData) = 0 ELSE Cardinality(inData) = 1
        /\ IF inHand = {} THEN Cardinality(inHand) = 0 ELSE Cardinality(inHand) = 1
        /\ IF inFree = {} THEN Cardinality(inFree) = 0 ELSE Cardinality(inFree) = 1
    BY <2>4, <2>5, <2>6, <2>7, OneAtMost
  <2>9. Cardinality(inLogger) + Cardinality(inData) + Cardinality(inHand) + Cardinality(inFree) <= 1
    BY <2>1, <2>2, <2>3, <2>8
  <2> QED BY <2>9 DEF Places, inLogger, inData, inHand, inFree
<1> QED BY <1>1, IInvHolds, PTL

LEMMA Element ==
  ASSUME NEW S, NEW s \in Seq(S), NEW i \in 1 .. Len(s)
  PROVE  s[i] \in S
OBVIOUS

LEMMA Listed ==
  ASSUME NEW S, NEW n \in Nat, NEW f \in [1 .. n -> S]
  PROVE  f \in Seq(S) /\ Len(f) = n
OBVIOUS

\* The file holds the records as they were sent and in that order, then come the one that
\* is being written and those that wait: no buffer is filled again before it was written.
THEOREM LogIsSent == Spec => []LogIsWhatWasSent
<1>1. ASSUME IInv PROVE LogIsWhatWasSent
  <2> DEFINE F == [i \in DOMAIN file |-> file[i].rec]
             W == IF writer = "write" THEN <<content[hand]>> ELSE <<>>
             D == [i \in DOMAIN data |-> content[data[i]]]
  <2>0. /\ file \in Seq([rec : Nat, written : BOOLEAN]) /\ sent \in Seq(Nat)
        /\ data \in Seq(Buffers) /\ content \in [Buffers -> Nat]
        /\ Len(file) \in Nat /\ DOMAIN file = 1 .. Len(file)
        /\ Len(data) \in Nat /\ DOMAIN data = 1 .. Len(data)
    BY <1>1, Sizes DEF IInv, Histories, Types
  <2>a. Len(file) \in Nat /\ Len(data) \in Nat /\ Writing \in {0, 1}
    BY <2>0 DEF Writing
  <2>1. F \in Seq(Nat) /\ Len(F) = Len(file)
    <3>1. \A i \in 1 .. Len(file) : file[i].rec \in Nat
      <4> TAKE i \in 1 .. Len(file)
      <4>1. file[i] \in [rec : Nat, written : BOOLEAN]
        BY <2>0, Element
      <4> QED BY <4>1
    <3>2. F \in [1 .. Len(file) -> Nat]
      BY <2>0, <3>1
    <3> QED BY <2>0, <3>2, Listed
  <2>2. D \in Seq(Nat) /\ Len(D) = Len(data)
    <3>1. \A i \in 1 .. Len(data) : content[data[i]] \in Nat
      BY <2>0
    <3>2. D \in [1 .. Len(data) -> Nat]
      BY <2>0, <3>1
    <3> QED BY <2>0, <3>2, Listed
  <2>3. W \in Seq(Nat) /\ Len(W) = Writing /\ Writing \in {0, 1}
        /\ (Writing = 1 => writer = "write" /\ W[1] = content[hand])
    <3>1. CASE writer = "write"
      <4>1. hand > 0 /\ hand \in Nat /\ hand <= bufs
        BY <1>1, <3>1, Sizes DEF IInv, Hands, Types, Bounds
      <4>2. content[hand] \in Nat
        BY <1>1, <2>0, <4>1, Sizes
      <4> QED BY <3>1, <4>2 DEF Writing
    <3>2. CASE writer # "write"
      BY <3>2 DEF Writing
    <3> QED BY <3>1, <3>2
  <2>4. \A i \in 1 .. Len(file) : F[i] = sent[i]
    BY <1>1, <2>0 DEF IInv, Logged
  <2>5. \A i \in 1 .. Len(data) : D[i] = sent[Len(file) + Writing + i]
    BY <1>1, <2>0 DEF IInv, Logged
  <2>6. Writing = 1 => W[1] = sent[Len(file) + 1]
    BY <1>1, <2>3 DEF IInv, Logged
  <2>7. Len(sent) = Len(file) + Writing + Len(data)
    BY <1>1 DEF IInv, Logged
  <2> HIDE DEF F, W, D
  <2>8. /\ F \o W \in Seq(Nat) /\ Len(F \o W) = Len(file) + Writing
        /\ \A i \in 1 .. Len(file) + Writing : (F \o W)[i] = sent[i]
    <3>1. /\ F \o W \in Seq(Nat) /\ Len(F \o W) = Len(file) + Writing
          /\ \A i \in 1 .. Len(file) + Writing :
               (F \o W)[i] = IF i <= Len(file) THEN F[i] ELSE W[i - Len(file)]
      BY <2>1, <2>3, ConcatProperties
    <3>2. ASSUME NEW i \in 1 .. Len(file) + Writing PROVE (F \o W)[i] = sent[i]
      <4>1. CASE i <= Len(file)
        BY <2>a, <2>4, <3>1, <4>1
      <4>2. CASE i > Len(file)
        <5>1. Writing = 1 /\ i = Len(file) + 1 /\ i - Len(file) = 1
          BY <2>a, <4>2
        <5>2. ~(i <= Len(file))
          BY <2>a, <5>1
        <5>3. (F \o W)[i] = W[i - Len(file)]
          BY <3>1, <5>2, Zenon
        <5> QED BY <2>6, <5>1, <5>3
      <4>3. i <= Len(file) \/ i > Len(file)
        BY <2>a
      <4> QED BY <4>1, <4>2, <4>3, Zenon
    <3> QED BY <3>1, <3>2
  <2>9. (F \o W) \o D = sent
    <3> DEFINE n == Len(file) + Writing
               P == F \o W
    <3>0. n \in Nat
      BY <2>0, <2>3
    <3> HIDE DEF n, P
    <3>1. /\ P \o D \in Seq(Nat) /\ Len(P \o D) = n + Len(data)
          /\ \A i \in 1 .. n + Len(data) :
               (P \o D)[i] = IF i <= n THEN P[i] ELSE D[i - n]
      BY <2>2, <2>8, ConcatProperties DEF n, P
    <3>2. ASSUME NEW i \in 1 .. n + Len(data) PROVE (P \o D)[i] = sent[i]
      <4>1. CASE i <= n
        <5>1. i \in 1 .. n
          BY <2>a, <3>0, <4>1
        <5>2. P[i] = sent[i]
          BY <2>8, <5>1 DEF n, P
        <5> QED BY <3>1, <4>1, <5>2
      <4>2. CASE i > n
        <5>1. i - n \in 1 .. Len(data) /\ n + (i - n) = i
          BY <2>a, <3>0, <4>2
        <5>2. D[i - n] = sent[n + (i - n)]
          BY <2>5, <5>1 DEF n
        <5>3. ~(i <= n) /\ (P \o D)[i] = D[i - n]
          BY <2>a, <3>0, <3>1, <4>2
        <5> QED BY <5>1, <5>2, <5>3
      <4>3. i <= n \/ i > n
        BY <2>a, <3>0
      <4> QED BY <4>1, <4>2, <4>3, Zenon
    <3>3. Len(P \o D) = Len(sent)
      BY <2>7, <3>1 DEF n
    <3>4. P \o D = sent
      BY <2>0, <3>1, <3>2, <3>3, SeqEqual
    <3> QED BY <3>4 DEF P
  <2> QED BY <2>9 DEF LogIsWhatWasSent, F, W, D
<1> QED BY <1>1, IInvHolds, PTL

=============================================================================
