------------------------- MODULE ApexConnectionsProofs -------------------------
(***************************************************************************)
(* Theorems about ApexConnections, for any connections, kinds of messages  *)
(* and bounds.                                                             *)
(***************************************************************************)
EXTENDS ApexConnections, SequenceTheorems, TLAPS

\* A queue of messages, read at its head and filled at its end.
LEMMA QueueTypes ==
  ASSUME NEW s \in Seq(Message)
  PROVE  /\ \A m \in Message : Append(s, m) \in Seq(Message)
         /\ s # <<>> => Head(s) \in Message /\ Tail(s) \in Seq(Message)
  BY AppendProperties, HeadTailProperties

LEMMA TakenHead ==
  ASSUME NEW s \in Seq(Message), s # <<>>
  PROVE  /\ Len(s) \in Nat \ {0} /\ Head(s) = s[1] /\ 1 \in DOMAIN s
         /\ Len(Tail(s)) = Len(s) - 1 /\ DOMAIN Tail(s) = 1..(Len(s) - 1)
         /\ \A i \in DOMAIN Tail(s) : i + 1 \in DOMAIN s /\ Tail(s)[i] = s[i + 1]
<1>1. Len(s) \in Nat \ {0} /\ DOMAIN s = 1..Len(s)
  BY LenProperties, EmptySeq
<1>2. Len(Tail(s)) = Len(s) - 1 /\ Tail(s) \in Seq(Message)
  BY HeadTailProperties
<1>3. DOMAIN Tail(s) = 1..(Len(s) - 1)
  BY <1>2, LenProperties
<1>4. \A i \in 1..(Len(s) - 1) : Tail(s)[i] = s[i + 1]
  BY <1>1, HeadTailProperties
<1>. QED
  BY <1>1, <1>2, <1>3, <1>4

LEMMA PutAtEnd ==
  ASSUME NEW s \in Seq(Message), NEW m \in Message
  PROVE  /\ DOMAIN s = 1..Len(s) /\ Len(s) \in Nat
         /\ Len(Append(s, m)) = Len(s) + 1
         /\ DOMAIN Append(s, m) = 1..(Len(s) + 1)
         /\ Append(s, m)[Len(s) + 1] = m
         /\ \A i \in DOMAIN s : Append(s, m)[i] = s[i]
  BY AppendProperties, LenProperties

-----------------------------------------------------------------------------
(* Writing *)

\* What has been written to a connection is in its buffer or with send_all,
\* unless the buffer has overflowed.
Owed ==
  \A c \in Conns :
    IF full[c] THEN buffer[c] = 0 /\ owed[c] >= sending[c]
               ELSE owed[c] = sending[c] + buffer[c]

LEMMA OwedNothingDropped == Owed => NothingDropped
  BY DEF Owed, NothingDropped

WritingType ==
  /\ buffer \in [Conns -> 0..MaxBuffer]
  /\ full \in [Conns -> BOOLEAN]
  /\ sending \in [Conns -> 0..MaxBuffer]
  /\ owed \in [Conns -> Nat]

LEMMA WrittenKeeps ==
  ASSUME WritingType, Owed, NEW to \in SUBSET Conns, Written(to), sending' = sending
  PROVE  WritingType' /\ Owed'
<1>. MaxBuffer \in Nat \ {0}
  BY BoundsAssumption
<1>1. /\ owed' = [c \in Conns |-> owed'[c]] /\ full' = [c \in Conns |-> full'[c]]
      /\ buffer' = [c \in Conns |-> buffer'[c]]
  BY DEF Written
<1>2. ASSUME NEW c \in Conns
      PROVE  /\ owed'[c] \in Nat /\ full'[c] \in BOOLEAN /\ buffer'[c] \in 0..MaxBuffer
             /\ IF full'[c] THEN buffer'[c] = 0 /\ owed'[c] >= sending[c]
                            ELSE owed'[c] = sending[c] + buffer'[c]
  <2>1. /\ buffer[c] \in 0..MaxBuffer /\ sending[c] \in 0..MaxBuffer /\ owed[c] \in Nat
    BY DEF WritingType
  <2>5. full[c] \in BOOLEAN
    BY DEF WritingType
  <2>6. /\ full[c] => buffer[c] = 0 /\ owed[c] >= sending[c]
        /\ ~full[c] => owed[c] = sending[c] + buffer[c]
    BY DEF Owed
  <2>2. CASE c \in to /\ ~full[c] /\ buffer[c] >= MaxBuffer
    <3>1. full'[c] /\ full'[c] \in BOOLEAN
      BY <2>2 DEF Written
    <3>2. buffer'[c] = 0 /\ owed'[c] = owed[c] + 1
      BY <2>2 DEF Written
    <3>3. owed[c] = sending[c] + buffer[c]
      BY <2>2, <2>6
    <3>4. owed'[c] \in Nat /\ buffer'[c] \in 0..MaxBuffer /\ owed'[c] >= sending[c]
      BY <2>1, <3>2, <3>3
    <3>. QED
      BY <3>1, <3>2, <3>4
  <2>3. CASE c \in to /\ ~full[c] /\ ~(buffer[c] >= MaxBuffer)
    <3>1. ~full'[c] /\ full'[c] \in BOOLEAN
      BY <2>3 DEF Written
    <3>2. buffer'[c] = buffer[c] + 1 /\ owed'[c] = owed[c] + 1 /\ ~(buffer[c] >= MaxBuffer)
      BY <2>3 DEF Written
    <3>3. owed[c] = sending[c] + buffer[c]
      BY <2>3, <2>6
    <3>4. /\ owed'[c] \in Nat /\ buffer'[c] \in 0..MaxBuffer
          /\ owed'[c] = sending[c] + buffer'[c]
      BY <2>1, <3>2, <3>3
    <3>. QED
      BY <3>1, <3>4
  <2>4. CASE c \notin to \/ full[c]
    <3>1. (full'[c] <=> full[c]) /\ full'[c] \in BOOLEAN
      BY <2>4 DEF Written
    <3>2. buffer'[c] = buffer[c] /\ owed'[c] = owed[c]
      BY <2>4 DEF Written
    <3>. QED
      BY <2>1, <2>5, <2>6, <3>1, <3>2, Zenon
  <2>. QED
    BY <2>2, <2>3, <2>4
<1>3. WritingType'
  BY <1>1, <1>2 DEF WritingType
<1>4. Owed'
  BY <1>2 DEF Owed
<1>. QED
  BY <1>3, <1>4

-----------------------------------------------------------------------------
(* Reading and parsing *)

ReadingType ==
  /\ wire \in [Conns -> Seq(Message)]
  /\ channel \in [Conns -> Seq(Message)]
  /\ parsing \in Message \cup {None}
  /\ handled \in [Conns -> Nat]
  /\ stored \in [Conns -> SUBSET Numbers]

\* The messages of s are c's own and numbered on from base.
Numbered(s, c, base) ==
  \A i \in DOMAIN s : s[i].from = c /\ s[i].n = base + i

LEMMA NumberedPut ==
  ASSUME NEW s \in Seq(Message), NEW m \in Message, NEW c, NEW base \in Nat,
         Numbered(s, c, base), m.from = c, m.n = base + Len(s) + 1
  PROVE  Numbered(Append(s, m), c, base)
<1>1. Len(s) \in Nat /\ DOMAIN s = 1..Len(s) /\ DOMAIN Append(s, m) = 1..(Len(s) + 1)
  BY PutAtEnd
<1>2. ASSUME NEW i \in DOMAIN Append(s, m)
      PROVE  Append(s, m)[i].from = c /\ Append(s, m)[i].n = base + i
  <2>1. CASE i \in DOMAIN s
    BY <2>1, PutAtEnd DEF Numbered
  <2>2. CASE i = Len(s) + 1
    <3>1. Append(s, m)[i] = m
      BY <2>2, PutAtEnd
    <3>2. base + i = base + Len(s) + 1
      BY <1>1, <2>2
    <3>. QED
      BY <3>1, <3>2
  <2>. QED
    BY <1>1, <2>1, <2>2
<1>. QED
  BY <1>2 DEF Numbered

LEMMA NumberedTake ==
  ASSUME NEW s \in Seq(Message), s # <<>>, NEW c, NEW base \in Nat, Numbered(s, c, base)
  PROVE  /\ Head(s).from = c /\ Head(s).n = base + 1
         /\ Numbered(Tail(s), c, base + 1)
<1>1. Head(s).from = c /\ Head(s).n = base + 1
  BY TakenHead DEF Numbered
<1>2. ASSUME NEW i \in DOMAIN Tail(s)
      PROVE  Tail(s)[i].from = c /\ Tail(s)[i].n = (base + 1) + i
  <2>1. i + 1 \in DOMAIN s /\ Tail(s)[i] = s[i + 1] /\ i \in Nat
    BY TakenHead
  <2>2. s[i + 1].from = c /\ s[i + 1].n = base + (i + 1)
    BY <2>1 DEF Numbered
  <2>3. base + (i + 1) = (base + 1) + i
    BY <2>1
  <2>. QED
    BY <2>1, <2>2, <2>3
<1>. QED
  BY <1>1, <1>2 DEF Numbered

LEMMA NumberedNone ==
  ASSUME NEW c, NEW base PROVE Numbered(<<>>, c, base)
  BY EmptySeq DEF Numbered

\* How many messages of c have left its channel.
Base(c) == handled[c] + ParserCount(c)

\* The messages of c in the channel and on the wire are numbered on from those
\* that have left it, none beyond the bound, and only handled ones are stored.
QueueOK(c) ==
  /\ Numbered(channel[c], c, Base(c))
  /\ Numbered(wire[c], c, Base(c) + Len(channel[c]))
  /\ InParser(c) => parsing.n = handled[c] + 1
  /\ Base(c) + Len(channel[c]) + Len(wire[c]) <= MaxSent[c]
  /\ \A k \in stored[c] : k <= handled[c]

QInv == ReadingType /\ \A c \in Conns : QueueOK(c)

LEMMA QInvOrder == QInv => HandledInOrder
  BY DEF QInv, QueueOK, HandledInOrder, Numbered, Base

LEMMA SameQueue ==
  ASSUME NEW d \in Conns, QueueOK(d), wire'[d] = wire[d], channel'[d] = channel[d],
         handled'[d] = handled[d], stored'[d] = stored[d],
         InParser(d)' <=> InParser(d), InParser(d) => parsing' = parsing
  PROVE  QueueOK(d)'
<1>1. ParserCount(d)' = ParserCount(d)
  BY DEF ParserCount
<1>2. Base(d)' = Base(d)
  BY <1>1 DEF Base
<1>. QED
  BY <1>2 DEF QueueOK, Numbered

LEMMA QueueValues ==
  ASSUME ReadingType, NEW c \in Conns
  PROVE  /\ wire[c] \in Seq(Message) /\ Len(wire[c]) \in Nat
         /\ channel[c] \in Seq(Message) /\ Len(channel[c]) \in Nat
         /\ handled[c] \in Nat /\ ParserCount(c) \in Nat /\ Base(c) \in Nat
         /\ Base(c) + Len(channel[c]) \in Nat /\ MaxSent[c] \in Nat
<1>1. /\ wire[c] \in Seq(Message) /\ channel[c] \in Seq(Message) /\ handled[c] \in Nat
      /\ MaxSent[c] \in Nat
  BY BoundsAssumption DEF ReadingType
<1>2. Len(wire[c]) \in Nat /\ Len(channel[c]) \in Nat
  BY <1>1, LenProperties
<1>3. ParserCount(c) \in Nat
  BY DEF ParserCount
<1>. QED
  BY <1>1, <1>2, <1>3 DEF Base

LEMMA PeerSendsKeeps ==
  ASSUME QInv, NEW c \in Conns, PeerSends(c)
  PROVE  QInv'
<1>. DEFINE num == SentCount(c) + 1
<1>1. PICK k \in Kinds[c] : wire' = [wire EXCEPT ![c] = Append(@, [from |-> c, n |-> num, kind |-> k])]
  BY DEF PeerSends
<1>. DEFINE m == [from |-> c, n |-> num, kind |-> k]
<1>2. UNCHANGED <<channel, parsing, handled, stored>> /\ SentCount(c) < MaxSent[c]
  BY DEF PeerSends
<1>3. /\ wire[c] \in Seq(Message) /\ Len(wire[c]) \in Nat /\ Len(channel[c]) \in Nat
      /\ Base(c) \in Nat /\ MaxSent[c] \in Nat /\ Base(c) + Len(channel[c]) \in Nat
  BY QueueValues DEF QInv
<1>4. SentCount(c) = (Base(c) + Len(channel[c])) + Len(wire[c])
  BY DEF SentCount, Base
<1>5. SentCount(c) \in Nat /\ num \in Nat \ {0}
  BY <1>3, <1>4
<1>6. m \in Message /\ m.from = c /\ m.n = num
  BY <1>5, KindsAssumption DEF Message, Numbers
<1>7. m.n = (Base(c) + Len(channel[c])) + Len(wire[c]) + 1
  BY <1>4, <1>6
<1>. HIDE DEF m, num
<1>8. wire' = [wire EXCEPT ![c] = Append(@, m)]
  BY <1>1 DEF m
<1>9. wire'[c] = Append(wire[c], m) /\ wire' \in [Conns -> Seq(Message)]
  BY <1>6, <1>8, QueueTypes DEF QInv, ReadingType
<1>10. ReadingType'
  BY <1>2, <1>9 DEF QInv, ReadingType
<1>11. QueueOK(c)'
  <2>1. QueueOK(c)
    BY DEF QInv
  <2>2. Base(c)' = Base(c) /\ (InParser(c)' <=> InParser(c))
    BY <1>2 DEF Base, ParserCount, InParser
  <2>3. Numbered(wire'[c], c, Base(c) + Len(channel[c]))
    BY <1>3, <1>6, <1>7, <1>9, <2>1, NumberedPut DEF QueueOK
  <2>4. Len(wire'[c]) = Len(wire[c]) + 1
    BY <1>3, <1>6, <1>9, PutAtEnd
  <2>5. Base(c) + Len(channel[c]) + Len(wire'[c]) <= MaxSent[c]
    <3>. DEFINE before == Base(c) + Len(channel[c])
    <3>1. before + Len(wire[c]) < MaxSent[c] /\ before \in Nat
      BY <1>2, <1>3, <1>4
    <3>. HIDE DEF before
    <3>2. before + (Len(wire[c]) + 1) <= MaxSent[c]
      BY <3>1, <1>3
    <3>. QED
      BY <3>2, <2>4 DEF before
  <2>. QED
    BY <1>2, <2>1, <2>2, <2>3, <2>5 DEF QueueOK
<1>12. ASSUME NEW d \in Conns \ {c} PROVE QueueOK(d)'
  <2>1. wire'[d] = wire[d] /\ (InParser(d)' <=> InParser(d))
    BY <1>2, <1>8 DEF InParser, QInv, ReadingType
  <2>. QED
    BY <1>2, <2>1, SameQueue DEF QInv
<1>. QED
  BY <1>10, <1>11, <1>12 DEF QInv

LEMMA ReadKeeps ==
  ASSUME QInv, NEW c \in Conns, Read(c)
  PROVE  QInv'
<1>. DEFINE m == Head(wire[c])
<1>1. /\ wire[c] # <<>>
      /\ wire' = [wire EXCEPT ![c] = Tail(wire[c])]
      /\ channel' = [channel EXCEPT ![c] = Append(channel[c], m)]
      /\ UNCHANGED <<parsing, handled, stored>>
  BY DEF Read
<1>2. /\ wire[c] \in Seq(Message) /\ Len(wire[c]) \in Nat
      /\ channel[c] \in Seq(Message) /\ Len(channel[c]) \in Nat
      /\ Base(c) \in Nat /\ MaxSent[c] \in Nat /\ Base(c) + Len(channel[c]) \in Nat
  BY QueueValues DEF QInv
<1>3. m \in Message /\ Tail(wire[c]) \in Seq(Message)
  BY <1>1, <1>2, QueueTypes
<1>4. Append(channel[c], m) \in Seq(Message)
  BY <1>2, <1>3, QueueTypes
<1>5. ReadingType'
  BY <1>1, <1>3, <1>4 DEF QInv, ReadingType
<1>6. wire'[c] = Tail(wire[c]) /\ channel'[c] = Append(channel[c], m)
  BY <1>1 DEF QInv, ReadingType
<1>7. QueueOK(c)
  BY DEF QInv
<1>8. /\ m.from = c /\ m.n = (Base(c) + Len(channel[c])) + 1
      /\ Numbered(Tail(wire[c]), c, (Base(c) + Len(channel[c])) + 1)
  BY <1>1, <1>2, <1>7, NumberedTake DEF QueueOK
<1>9. Numbered(channel'[c], c, Base(c))
  <2>1. m.n = Base(c) + Len(channel[c]) + 1
    BY <1>8
  <2>. HIDE DEF m
  <2>. QED
    BY <1>2, <1>3, <1>6, <1>7, <1>8, <2>1, NumberedPut DEF QueueOK
<1>10. Len(channel'[c]) = Len(channel[c]) + 1 /\ Len(wire'[c]) = Len(wire[c]) - 1
  <2>1. Len(Tail(wire[c])) = Len(wire[c]) - 1
    BY <1>1, <1>2, TakenHead
  <2>. HIDE DEF m
  <2>2. Len(Append(channel[c], m)) = Len(channel[c]) + 1
    BY <1>2, <1>3, PutAtEnd
  <2>. QED
    BY <1>6, <2>1, <2>2
<1>11. Numbered(wire'[c], c, Base(c) + Len(channel'[c]))
  <2>1. Base(c) + Len(channel'[c]) = (Base(c) + Len(channel[c])) + 1
    BY <1>2, <1>10
  <2>. QED
    BY <1>6, <1>8, <2>1
<1>12. Base(c) + Len(channel'[c]) + Len(wire'[c]) <= MaxSent[c]
  <2>1. Base(c) + Len(channel[c]) + Len(wire[c]) <= MaxSent[c]
    BY <1>7 DEF QueueOK
  <2>. QED
    BY <1>2, <1>10, <2>1
<1>13. QueueOK(c)'
  <2>1. Base(c)' = Base(c) /\ (InParser(c)' <=> InParser(c))
    BY <1>1 DEF Base, ParserCount, InParser
  <2>. QED
    BY <1>1, <1>7, <1>9, <1>11, <1>12, <2>1 DEF QueueOK
<1>14. ASSUME NEW d \in Conns \ {c} PROVE QueueOK(d)'
  <2>1. wire'[d] = wire[d] /\ channel'[d] = channel[d] /\ (InParser(d)' <=> InParser(d))
    BY <1>1 DEF InParser, QInv, ReadingType
  <2>. QED
    BY <1>1, <2>1, SameQueue DEF QInv
<1>. QED
  BY <1>5, <1>13, <1>14 DEF QInv

LEMMA StartParseKeeps ==
  ASSUME QInv, NEW c \in Conns, StartParse(c)
  PROVE  QInv' /\ parsing' # None /\ parsing'.from = c
<1>. DEFINE m == Head(channel[c])
<1>1. /\ channel[c] # <<>> /\ parsing = None /\ parsing' = m
      /\ channel' = [channel EXCEPT ![c] = Tail(channel[c])]
      /\ UNCHANGED <<wire, handled, stored>>
  BY DEF StartParse
<1>2. /\ wire[c] \in Seq(Message) /\ Len(wire[c]) \in Nat
      /\ channel[c] \in Seq(Message) /\ Len(channel[c]) \in Nat
      /\ handled[c] \in Nat /\ MaxSent[c] \in Nat
  BY QueueValues DEF QInv
<1>3. m \in Message /\ Tail(channel[c]) \in Seq(Message)
  BY <1>1, <1>2, QueueTypes
<1>4. ReadingType'
  BY <1>1, <1>3 DEF QInv, ReadingType
<1>5. channel'[c] = Tail(channel[c])
  BY <1>1 DEF QInv, ReadingType
<1>6. ParserCount(c) = 0 /\ Base(c) = handled[c]
  BY <1>1, <1>2 DEF ParserCount, InParser, Base
<1>7. QueueOK(c)
  BY DEF QInv
<1>8. /\ m.from = c /\ m.n = handled[c] + 1
      /\ Numbered(Tail(channel[c]), c, handled[c] + 1)
  BY <1>1, <1>2, <1>6, <1>7, NumberedTake DEF QueueOK
<1>9. parsing' # None /\ parsing'.from = c
  BY <1>1, <1>3, <1>8, NoneAssumption
<1>10. Base(c)' = handled[c] + 1
  BY <1>1, <1>9 DEF Base, ParserCount, InParser
<1>11. Len(channel'[c]) = Len(channel[c]) - 1 /\ Len(channel[c]) \in Nat \ {0}
  BY <1>1, <1>2, <1>5, TakenHead
<1>12. (handled[c] + 1) + Len(channel'[c]) = Base(c) + Len(channel[c])
  BY <1>2, <1>6, <1>11
<1>13. QueueOK(c)'
  <2>1. Numbered(channel'[c], c, Base(c)')
    BY <1>5, <1>8, <1>10
  <2>2. Numbered(wire'[c], c, Base(c)' + Len(channel'[c]))
    BY <1>1, <1>7, <1>10, <1>12 DEF QueueOK
  <2>3. Base(c)' + Len(channel'[c]) + Len(wire'[c]) <= MaxSent[c]
    BY <1>1, <1>7, <1>10, <1>12 DEF QueueOK
  <2>4. parsing'.n = handled'[c] + 1 /\ stored' = stored /\ handled' = handled
    BY <1>1, <1>8
  <2>. QED
    BY <1>7, <2>1, <2>2, <2>3, <2>4 DEF QueueOK
<1>14. ASSUME NEW d \in Conns \ {c} PROVE QueueOK(d)'
  <2>1. wire'[d] = wire[d] /\ channel'[d] = channel[d]
    BY <1>1 DEF QInv, ReadingType
  <2>2. ~InParser(d)' /\ ~InParser(d)
    BY <1>1, <1>9 DEF InParser
  <2>. QED
    BY <1>1, <2>1, <2>2, SameQueue DEF QInv
<1>. QED
  BY <1>4, <1>9, <1>13, <1>14 DEF QInv

LEMMA FinishParseKeeps ==
  ASSUME QInv, NEW c \in Conns, FinishParse(c)
  PROVE  QInv' /\ parsing' = None
<1>1. /\ InParser(c) /\ handled' = [handled EXCEPT ![c] = handled[c] + 1] /\ parsing' = None
      /\ \/ stored' = stored
         \/ stored' = [stored EXCEPT ![c] = stored[c] \cup {parsing.n}]
      /\ UNCHANGED <<wire, channel>>
  BY DEF FinishParse
<1>2. /\ Len(wire[c]) \in Nat /\ Len(channel[c]) \in Nat
      /\ handled[c] \in Nat /\ MaxSent[c] \in Nat
  BY QueueValues DEF QInv
<1>3. QueueOK(c)
  BY DEF QInv
<1>4. parsing.n = handled[c] + 1 /\ parsing.from = c /\ parsing \in Message
  BY <1>1, <1>3 DEF QueueOK, InParser, QInv, ReadingType
<1>5. parsing.n \in Numbers /\ stored[c] \in SUBSET Numbers
  BY <1>4 DEF Message, QInv, ReadingType
<1>6. ReadingType'
  <2>1. handled' \in [Conns -> Nat]
    BY <1>1, <1>2 DEF QInv, ReadingType
  <2>2. stored[c] \cup {parsing.n} \in SUBSET Numbers
    BY <1>5
  <2>3. stored' \in [Conns -> SUBSET Numbers]
    BY <1>1, <2>2 DEF QInv, ReadingType
  <2>. QED
    BY <1>1, <2>1, <2>3 DEF QInv, ReadingType
<1>7. handled'[c] = handled[c] + 1
  BY <1>1 DEF QInv, ReadingType
<1>8. Base(c)' = Base(c)
  <2>1. Base(c)' = handled'[c] + 0
    BY <1>1 DEF Base, ParserCount, InParser
  <2>2. Base(c) = handled[c] + 1
    BY <1>1 DEF Base, ParserCount
  <2>. QED
    BY <1>2, <1>7, <2>1, <2>2
<1>9. \A k \in stored'[c] : k <= handled'[c]
  <2>1. \A k \in stored[c] : k <= handled[c] /\ k \in Nat
    BY <1>3, <1>5 DEF QueueOK, Numbers
  <2>2. stored'[c] \in {stored[c], stored[c] \cup {handled[c] + 1}}
    BY <1>1, <1>4 DEF QInv, ReadingType
  <2>. QED
    BY <1>2, <1>7, <2>1, <2>2
<1>10. QueueOK(c)'
  <2>1. ~InParser(c)'
    BY <1>1 DEF InParser
  <2>. QED
    BY <1>1, <1>3, <1>8, <1>9, <2>1 DEF QueueOK
<1>11. ASSUME NEW d \in Conns \ {c} PROVE QueueOK(d)'
  <2>1. handled'[d] = handled[d] /\ stored'[d] = stored[d]
    BY <1>1 DEF QInv, ReadingType
  <2>2. ~InParser(d)' /\ ~InParser(d)
    BY <1>1, <1>4 DEF InParser
  <2>. QED
    BY <1>1, <2>1, <2>2, SameQueue DEF QInv
<1>. QED
  BY <1>1, <1>6, <1>10, <1>11 DEF QInv

LEMMA ClearedKeeps ==
  ASSUME QInv, NEW c \in Conns, ~InParser(c), Cleared(c)
  PROVE  QInv'
<1>1. /\ wire' = [wire EXCEPT ![c] = <<>>] /\ channel' = [channel EXCEPT ![c] = <<>>]
      /\ UNCHANGED <<parsing, handled, stored>>
  BY DEF Cleared
<1>2. /\ Len(wire[c]) \in Nat /\ Len(channel[c]) \in Nat /\ Base(c) \in Nat
      /\ MaxSent[c] \in Nat
  BY QueueValues DEF QInv
<1>3. <<>> \in Seq(Message) /\ Len(<<>>) = 0
  BY EmptySeq
<1>4. ReadingType'
  BY <1>1, <1>3 DEF QInv, ReadingType
<1>5. wire'[c] = <<>> /\ channel'[c] = <<>>
  BY <1>1 DEF QInv, ReadingType
<1>6. QueueOK(c)'
  <2>1. QueueOK(c)
    BY DEF QInv
  <2>2. Base(c)' = Base(c) /\ (InParser(c)' <=> InParser(c))
    BY <1>1 DEF Base, ParserCount, InParser
  <2>3. /\ Numbered(channel'[c], c, Base(c))
        /\ Numbered(wire'[c], c, Base(c) + Len(channel'[c]))
    BY <1>5, NumberedNone
  <2>4. Base(c) + Len(channel[c]) + Len(wire[c]) <= MaxSent[c]
    BY <2>1 DEF QueueOK
  <2>5. Base(c) + Len(channel'[c]) + Len(wire'[c]) <= MaxSent[c]
    BY <1>2, <1>3, <1>5, <2>4
  <2>. QED
    BY <1>1, <2>1, <2>2, <2>3, <2>5 DEF QueueOK
<1>7. ASSUME NEW d \in Conns \ {c} PROVE QueueOK(d)'
  <2>1. wire'[d] = wire[d] /\ channel'[d] = channel[d] /\ (InParser(d)' <=> InParser(d))
    BY <1>1 DEF InParser, QInv, ReadingType
  <2>. QED
    BY <1>1, <2>1, SameQueue DEF QInv
<1>. QED
  BY <1>4, <1>6, <1>7 DEF QInv

-----------------------------------------------------------------------------
(* The invariant *)

ControlType ==
  /\ server \in {"running", "stopping", "stopped"}
  /\ link \in [Conns -> {"new", "accepted", "serving", "failed", "gone", "refused"}]
  /\ peer \in [Conns -> {"open", "ended", "reset"}]

\* What is being parsed belongs to a connection that has not been closed.
ParserOpen == parsing # None => link[parsing.from] \in {"serving", "failed"}

\* The server's thread has ended only when no connection is being served.
StoppedEmpty ==
  server = "stopped" => \A c \in Conns : link[c] \notin {"accepted", "serving", "failed"}

Control == ControlType /\ ParserOpen /\ StoppedEmpty
CInv == Control /\ QInv /\ WritingType /\ Owed

LEMMA SameReading == QInv /\ UNCHANGED reading => QInv'
<1>. SUFFICES ASSUME QInv, UNCHANGED reading PROVE QInv'
  OBVIOUS
<1>1. ASSUME NEW c \in Conns PROVE QueueOK(c)'
  <2>1. InParser(c)' <=> InParser(c)
    BY DEF reading, InParser
  <2>. QED
    BY <2>1, SameQueue DEF QInv, reading
<1>. QED
  BY <1>1 DEF QInv, ReadingType, reading

LEMMA SameWriting == WritingType /\ Owed /\ UNCHANGED writing => WritingType' /\ Owed'
  BY DEF WritingType, Owed, writing

LEMMA InitInvariant == Init => CInv
<1>. SUFFICES ASSUME Init PROVE CInv
  OBVIOUS
<1>1. Control
  BY DEF Init, Control, ControlType, ParserOpen, StoppedEmpty
<1>2. <<>> \in Seq(Message) /\ Len(<<>>) = 0
  BY EmptySeq
<1>3. ReadingType
  BY <1>2 DEF Init, ReadingType
<1>4. ASSUME NEW c \in Conns PROVE QueueOK(c)
  <2>1. /\ wire[c] = <<>> /\ channel[c] = <<>> /\ handled[c] = 0 /\ stored[c] = {}
        /\ ~InParser(c)
    BY DEF Init, InParser
  <2>2. Base(c) = 0 /\ MaxSent[c] \in Nat
    BY <2>1, BoundsAssumption DEF Base, ParserCount
  <2>3. 0 + Len(<<>>) + Len(<<>>) <= MaxSent[c]
    BY <1>2, <2>2
  <2>. QED
    BY <2>1, <2>2, <2>3, NumberedNone DEF QueueOK
<1>5. WritingType /\ Owed
  BY BoundsAssumption DEF Init, WritingType, Owed
<1>. QED
  BY <1>1, <1>3, <1>4, <1>5 DEF CInv, QInv

\* A connection's state changes, the parser's does not.
LEMMA LinkSet ==
  ASSUME Control, ReadingType, NEW c \in Conns,
         NEW v \in {"accepted", "serving", "failed", "gone", "refused"},
         link' = [link EXCEPT ![c] = v], parsing' = parsing,
         server' = server \/ (server = "running" /\ server' = "stopping"),
         peer' \in [Conns -> {"open", "ended", "reset"}],
         v \in {"serving", "failed"} \/ ~InParser(c),
         v \in {"gone", "refused"} \/ server # "stopped"
  PROVE  Control'
<1>1. ControlType'
  BY DEF Control, ControlType
<1>2. ParserOpen'
  <2>. SUFFICES ASSUME parsing # None PROVE link'[parsing.from] \in {"serving", "failed"}
    BY DEF ParserOpen
  <2>1. parsing.from \in Conns /\ link[parsing.from] \in {"serving", "failed"}
    BY DEF Control, ParserOpen, ReadingType, Message
  <2>2. CASE parsing.from = c
    BY <2>1, <2>2 DEF InParser, Control, ControlType
  <2>3. CASE parsing.from # c
    BY <2>1, <2>3 DEF Control, ControlType
  <2>. QED
    BY <2>2, <2>3
<1>3. StoppedEmpty'
  BY DEF Control, ControlType, StoppedEmpty
<1>. QED
  BY <1>1, <1>2, <1>3 DEF Control

LEMMA FailsKeeps ==
  ASSUME CInv, NEW c \in Conns, JustFails(c)
  PROVE  CInv'
<1>1. /\ link[c] = "serving" /\ link' = [link EXCEPT ![c] = "failed"]
      /\ UNCHANGED <<server, peer, reading, writing>>
  BY DEF JustFails, Fails
<1>2. server # "stopped"
  BY <1>1 DEF CInv, Control, StoppedEmpty
<1>3. Control'
  BY <1>1, <1>2, LinkSet DEF CInv, QInv, Control, ControlType, reading
<1>. QED
  BY <1>1, <1>3, SameReading, SameWriting DEF CInv

LEMMA TakeBufferKeeps ==
  ASSUME WritingType, Owed, NEW c \in Conns, TakeBuffer(c)
  PROVE  WritingType' /\ Owed'
<1>1. /\ sending[c] = 0 /\ buffer[c] > 0
      /\ sending' = [sending EXCEPT ![c] = buffer[c]]
      /\ buffer' = [buffer EXCEPT ![c] = 0] /\ full' = full /\ owed' = owed
  BY DEF TakeBuffer
<1>2. buffer[c] \in 0..MaxBuffer /\ owed[c] \in Nat /\ 0 \in 0..MaxBuffer
  BY BoundsAssumption DEF WritingType
<1>3. WritingType'
  BY <1>1, <1>2 DEF WritingType
<1>4. ~full[c] /\ owed[c] = buffer[c]
  <2>1. ~full[c]
    BY <1>1 DEF Owed
  <2>2. owed[c] = sending[c] + buffer[c]
    BY <2>1 DEF Owed
  <2>. QED
    BY <1>1, <1>2, <2>1, <2>2
<1>5. sending'[c] = buffer[c] /\ buffer'[c] = 0 /\ owed'[c] = sending'[c] + buffer'[c]
  BY <1>1, <1>2, <1>4 DEF WritingType
<1>6. ASSUME NEW d \in Conns \ {c}
      PROVE  sending'[d] = sending[d] /\ buffer'[d] = buffer[d] /\ owed'[d] = owed[d]
  BY <1>1 DEF WritingType
<1>7. Owed'
  BY <1>1, <1>4, <1>5, <1>6, Zenon DEF Owed
<1>. QED
  BY <1>3, <1>7

LEMMA SendDoneKeeps ==
  ASSUME WritingType, Owed, NEW c \in Conns, SendDone(c)
  PROVE  WritingType' /\ Owed'
<1>1. /\ owed' = [owed EXCEPT ![c] = owed[c] - sending[c]]
      /\ sending' = [sending EXCEPT ![c] = 0] /\ full' = full /\ buffer' = buffer
  BY DEF SendDone
<1>2. /\ buffer[c] \in 0..MaxBuffer /\ sending[c] \in 0..MaxBuffer /\ owed[c] \in Nat
      /\ 0 \in 0..MaxBuffer /\ MaxBuffer \in Nat
  BY BoundsAssumption DEF WritingType
<1>3. /\ full[c] => buffer[c] = 0 /\ owed[c] >= sending[c]
      /\ ~full[c] => owed[c] = sending[c] + buffer[c]
  BY DEF Owed
<1>4. owed[c] >= sending[c]
  <2>1. sending[c] + buffer[c] >= sending[c]
    BY <1>2
  <2>. QED
    BY <1>3, <2>1
<1>5. owed[c] - sending[c] \in Nat
  BY <1>2, <1>4
<1>6. WritingType'
  BY <1>1, <1>2, <1>5 DEF WritingType
<1>7. sending'[c] = 0 /\ owed'[c] = owed[c] - sending[c]
  BY <1>1 DEF WritingType
<1>8. IF full[c] THEN buffer[c] = 0 /\ owed'[c] >= sending'[c]
                 ELSE owed'[c] = sending'[c] + buffer[c]
  <2>1. owed'[c] >= sending'[c]
    BY <1>5, <1>7
  <2>2. owed[c] = sending[c] + buffer[c] => owed'[c] = sending'[c] + buffer[c]
    BY <1>2, <1>7
  <2>. QED
    BY <1>3, <2>1, <2>2
<1>9. ASSUME NEW d \in Conns \ {c} PROVE sending'[d] = sending[d] /\ owed'[d] = owed[d]
  BY <1>1 DEF WritingType
<1>10. Owed'
  BY <1>1, <1>8, <1>9, Zenon DEF Owed
<1>. QED
  BY <1>6, <1>10

LEMMA CloseKeeps ==
  ASSUME CInv, NEW c \in Conns, Close(c)
  PROVE  CInv'
<1>1. ~InParser(c) /\ Cleared(c)
  BY DEF Close
<1>2. /\ link' = [link EXCEPT ![c] = "gone"] /\ server' = server /\ parsing' = parsing
      /\ peer' = [peer EXCEPT ![c] = "open"]
      /\ buffer' = [buffer EXCEPT ![c] = 0] /\ sending' = [sending EXCEPT ![c] = 0]
      /\ full' = [full EXCEPT ![c] = FALSE] /\ owed' = [owed EXCEPT ![c] = 0]
  BY <1>1 DEF Cleared, Forget
<1>3. Control'
  BY <1>1, <1>2, LinkSet DEF CInv, QInv, Control, ControlType
<1>4. QInv'
  BY <1>1, ClearedKeeps DEF CInv
<1>5. WritingType'
  BY <1>2, BoundsAssumption DEF CInv, WritingType
<1>6. ~full'[c] /\ buffer'[c] = 0 /\ sending'[c] = 0 /\ owed'[c] = 0
  BY <1>2 DEF CInv, WritingType
<1>7. owed'[c] = sending'[c] + buffer'[c]
  BY <1>6
<1>8. ASSUME NEW d \in Conns \ {c}
      PROVE  /\ sending'[d] = sending[d] /\ owed'[d] = owed[d] /\ buffer'[d] = buffer[d]
             /\ full'[d] = full[d]
  BY <1>2 DEF CInv, WritingType
<1>9. Owed'
  BY <1>6, <1>7, <1>8, Zenon DEF CInv, Owed
<1>. QED
  BY <1>3, <1>4, <1>5, <1>9 DEF CInv

LEMMA FinishControl ==
  ASSUME CInv, NEW c \in Conns, FinishParse(c)
  PROVE  Control'
<1>1. /\ InParser(c) /\ parsing' = None /\ server' = server /\ peer' = peer
      /\ link' = link \/ link' = [link EXCEPT ![c] = "failed"]
  BY DEF FinishParse
<1>2. link[c] \in {"serving", "failed"}
  BY <1>1 DEF CInv, Control, ParserOpen, InParser
<1>3. ControlType' /\ StoppedEmpty'
  BY <1>1, <1>2 DEF CInv, Control, ControlType, StoppedEmpty
<1>. QED
  BY <1>1, <1>3 DEF Control, ParserOpen

\* Every step keeps the invariant.
LEMMA StepInvariant == CInv /\ [Next]_vars => CInv'
<1>. SUFFICES ASSUME CInv, [Next]_vars PROVE CInv'
  OBVIOUS
<1>. USE DEF CInv
<1>1. ASSUME NEW c \in Conns, Accepted(c) PROVE CInv'
  <2>1. /\ server = "running" /\ link[c] = "new"
        /\ link' = [link EXCEPT ![c] = "accepted"]
        /\ UNCHANGED <<server, peer, reading, writing>>
    BY <1>1 DEF Accepted
  <2>2. ~InParser(c)
    BY <2>1 DEF InParser, Control, ParserOpen
  <2>3. Control'
    BY <2>1, <2>2, LinkSet DEF QInv, Control, ControlType, reading
  <2>. QED
    BY <2>1, <2>3, SameReading, SameWriting
<1>2. ASSUME NEW c \in Conns, PeerStep(c) PROVE CInv'
  <2>1. CASE PeerSends(c)
    <3>1. QInv' /\ UNCHANGED writing
      BY <2>1, PeerSendsKeeps DEF PeerSends
    <3>2. Control'
      BY <2>1 DEF PeerSends, Control, ControlType, ParserOpen, StoppedEmpty
    <3>. QED
      BY <3>1, <3>2, SameWriting
  <2>2. CASE PeerEnds(c) \/ PeerResets(c)
    <3>1. UNCHANGED <<server, link, reading, writing>>
      BY <2>2 DEF PeerEnds, PeerResets
    <3>2. peer' \in [Conns -> {"open", "ended", "reset"}]
      BY <2>2 DEF PeerEnds, PeerResets, Control, ControlType
    <3>3. Control'
      BY <3>1, <3>2 DEF Control, ControlType, ParserOpen, StoppedEmpty, reading
    <3>. QED
      BY <3>1, <3>3, SameReading, SameWriting
  <2>. QED
    BY <1>2, <2>1, <2>2 DEF PeerStep
<1>3. ASSUME NEW c \in Conns, Serve(c) PROVE CInv'
  <2>1. /\ link[c] = "accepted" /\ link' = [link EXCEPT ![c] = "serving"]
        /\ UNCHANGED <<server, peer, reading, writing>>
    BY <1>3 DEF Serve
  <2>2. server # "stopped"
    BY <2>1 DEF Control, StoppedEmpty
  <2>3. Control'
    BY <2>1, <2>2, LinkSet DEF QInv, Control, ControlType, reading
  <2>. QED
    BY <2>1, <2>3, SameReading, SameWriting
<1>4. ASSUME NEW c \in Conns, Refuse(c) PROVE CInv'
  <2>1. /\ link[c] = "accepted" /\ link' = [link EXCEPT ![c] = "refused"]
        /\ server' = IF server = "running" THEN "stopping" ELSE server
        /\ UNCHANGED <<peer, reading, writing>>
    BY <1>4 DEF Refuse
  <2>2. ~InParser(c)
    BY <2>1 DEF InParser, Control, ParserOpen
  <2>3. Control'
    BY <2>1, <2>2, LinkSet DEF QInv, Control, ControlType, reading
  <2>. QED
    BY <2>1, <2>3, SameReading, SameWriting
<1>5. ASSUME NEW c \in Conns, ReadStep(c) PROVE CInv'
  <2>1. CASE Read(c)
    <3>1. QInv' /\ UNCHANGED <<server, link, peer, parsing, writing>>
      BY <2>1, ReadKeeps DEF Read
    <3>2. Control'
      BY <3>1 DEF Control, ControlType, ParserOpen, StoppedEmpty
    <3>. QED
      BY <3>1, <3>2, SameWriting
  <2>2. CASE ReadTooLong(c) \/ ReadFails(c)
    BY <2>2, FailsKeeps DEF ReadTooLong, ReadFails
  <2>. QED
    BY <1>5, <2>1, <2>2 DEF ReadStep
<1>6. ASSUME NEW c \in Conns, StartParse(c) PROVE CInv'
  <2>1. QInv' /\ parsing'.from = c /\ link[c] = "serving"
        /\ UNCHANGED <<server, link, peer, writing>>
    BY <1>6, StartParseKeeps DEF StartParse
  <2>2. Control'
    BY <2>1 DEF Control, ControlType, ParserOpen, StoppedEmpty
  <2>. QED
    BY <2>1, <2>2, SameWriting
<1>7. ASSUME NEW c \in Conns, FinishParse(c) PROVE CInv'
  <2>1. QInv' /\ Control'
    BY <1>7, FinishParseKeeps, FinishControl
  <2>2. PICK to \in SUBSET Registered : Written(to)
    BY <1>7 DEF FinishParse
  <2>3. to \in SUBSET Conns /\ sending' = sending
    BY <1>7 DEF Registered, FinishParse
  <2>4. WritingType' /\ Owed'
    BY <2>2, <2>3, WrittenKeeps
  <2>. QED
    BY <2>1, <2>4
<1>8. ASSUME NEW c \in Conns, WriteStep(c) \/ SendDone(c) PROVE CInv'
  <2>1. CASE TakeBuffer(c) \/ SendDone(c)
    <3>1. UNCHANGED <<server, link, peer, reading>>
      BY <2>1 DEF TakeBuffer, SendDone
    <3>2. WritingType' /\ Owed'
      BY <2>1, TakeBufferKeeps, SendDoneKeeps
    <3>3. Control'
      BY <3>1 DEF Control, ControlType, ParserOpen, StoppedEmpty, reading
    <3>. QED
      BY <3>1, <3>2, <3>3, SameReading
  <2>2. CASE SendFails(c) \/ FullRaised(c)
    BY <2>2, FailsKeeps DEF SendFails, FullRaised
  <2>. QED
    BY <1>8, <2>1, <2>2 DEF WriteStep
<1>9. ASSUME NEW c \in Conns, Cancel(c) \/ Close(c) PROVE CInv'
  BY <1>9, FailsKeeps, CloseKeeps DEF Cancel
<1>10. CASE StopServer \/ ServerEnds
  <2>1. UNCHANGED <<link, peer, reading, writing>>
    BY <1>10 DEF StopServer, ServerEnds
  <2>2. Control'
    BY <1>10, <2>1 DEF StopServer, ServerEnds, Control, ControlType, ParserOpen, StoppedEmpty, reading
  <2>. QED
    BY <2>1, <2>2, SameReading, SameWriting
<1>11. CASE UNCHANGED vars
  <2>1. UNCHANGED <<server, link, peer, reading, writing>>
    BY <1>11 DEF vars
  <2>2. Control'
    BY <2>1 DEF Control, ControlType, ParserOpen, StoppedEmpty, reading
  <2>. QED
    BY <2>1, <2>2, SameReading, SameWriting
<1>12. Next =>
         \/ \E c \in Conns : \/ Accepted(c) \/ PeerStep(c) \/ Serve(c) \/ Refuse(c)
                             \/ ReadStep(c) \/ StartParse(c) \/ FinishParse(c)
                             \/ WriteStep(c) \/ SendDone(c) \/ Cancel(c) \/ Close(c)
         \/ StopServer \/ ServerEnds
  BY DEF Next, Accept, Dial, Conns
<1>. QED
  BY <1>1, <1>2, <1>3, <1>4, <1>5, <1>6, <1>7, <1>8, <1>9, <1>10, <1>11, <1>12

LEMMA CInvAlways == Spec => []CInv
  BY InitInvariant, StepInvariant, PTL DEF Spec

-----------------------------------------------------------------------------
(* Theorems *)

\* The variables have their types; no writer buffers or sends more than its
\* limit (BufferedWriter).
THEOREM ConnectionsTypeCorrect == Spec => []TypeOK
<1>1. CInv => TypeOK
  BY DEF CInv, Control, ControlType, QInv, ReadingType, WritingType, TypeOK
<1>. QED
  BY <1>1, CInvAlways, PTL

\* Each connection's messages are handled in the order they were sent, each
\* once (serve()).
THEOREM OrderOfHandling == Spec => []HandledInOrder
<1>1. CInv => HandledInOrder
  BY QInvOrder DEF CInv
<1>. QED
  BY <1>1, CInvAlways, PTL

\* A served connection's writer loses nothing until its buffer overflows
\* (BufferedWriter).
THEOREM NothingDroppedBefore == Spec => []NothingDropped
<1>1. CInv => NothingDropped
  BY OwedNothingDropped DEF CInv
<1>. QED
  BY <1>1, CInvAlways, PTL

-----------------------------------------------------------------------------
(* Refinement: the server implements ArchiveFeed *)

\* What the archive sees of a connection.
Shown ==
  [c \in Conns |-> CASE link[c] \in {"serving", "failed"} -> "connected"
                     [] link[c] = "gone" -> "gone"
                     [] OTHER -> "new"]

LEMMA ShownSet ==
  ASSUME ControlType, NEW c \in Conns, NEW v, NEW w, link' = [link EXCEPT ![c] = v],
         \/ v \in {"serving", "failed"} /\ w = "connected"
         \/ v = "gone" /\ w = "gone"
         \/ v \in {"accepted", "refused"} /\ w = "new"
  PROVE  Shown' = [Shown EXCEPT ![c] = w]
<1>1. link'[c] = v /\ \A d \in Conns \ {c} : link'[d] = link[d]
  BY DEF ControlType
<1>2. Shown'[c] = w
  BY <1>1 DEF Shown
<1>3. \A d \in Conns \ {c} : Shown'[d] = Shown[d]
  BY <1>1 DEF Shown
<1>. QED
  BY <1>2, <1>3 DEF Shown

LEMMA ShownSame ==
  ASSUME ControlType, NEW c \in Conns, NEW v, link' = [link EXCEPT ![c] = v],
         \/ link[c] \in {"serving", "failed"} /\ v = "failed"
         \/ link[c] \in {"new", "accepted"} /\ v \in {"accepted", "refused"}
  PROVE  Shown' = Shown
<1>1. link'[c] = v /\ \A d \in Conns \ {c} : link'[d] = link[d]
  BY DEF ControlType
<1>. QED
  BY <1>1 DEF Shown

LEMMA StoredStep ==
  ASSUME CInv, NEW c \in Conns, FinishParse(c), stored' # stored
  PROVE  \E n \in UNION {1..MaxSent[d] : d \in Conns} :
           /\ \A k \in stored[c] : k < n
           /\ stored' = [stored EXCEPT ![c] = @ \cup {n}]
<1>1. InParser(c) /\ stored' = [stored EXCEPT ![c] = @ \cup {parsing.n}]
  BY DEF FinishParse
<1>2. QueueOK(c) /\ stored[c] \in SUBSET Numbers
  BY DEF CInv, QInv, ReadingType
<1>3. /\ handled[c] \in Nat /\ Len(wire[c]) \in Nat /\ Len(channel[c]) \in Nat
      /\ MaxSent[c] \in Nat
  BY QueueValues DEF CInv, QInv
<1>4. Base(c) = handled[c] + 1 /\ parsing.n = handled[c] + 1
  BY <1>1, <1>2 DEF QueueOK, Base, ParserCount
<1>5. Base(c) + Len(channel[c]) + Len(wire[c]) <= MaxSent[c]
  BY <1>2 DEF QueueOK
<1>6. parsing.n \in 1..MaxSent[c]
  BY <1>3, <1>4, <1>5
<1>7. \A k \in stored[c] : k < parsing.n
  BY <1>2, <1>3, <1>4 DEF QueueOK, Numbers
<1>. QED
  BY <1>1, <1>6, <1>7

THEOREM ImplementsFeed == Spec => FeedsArchive
<1>. DEFINE Ids == UNION {1..MaxSent[c] : c \in Conns}
<1>1. Init => Feed!FeedInit
  BY DEF Init, Feed!FeedInit
<1>2. CInv /\ [Next]_vars => [Feed!FeedNext]_(Feed!feedVars)
  <2>. SUFFICES ASSUME CInv, [Next]_vars
                PROVE  Feed!FeedNext \/ UNCHANGED <<Shown, server, stored>>
    BY DEF Feed!feedVars, Shown
  <2>. USE DEF CInv, Control
  <2>1. ASSUME NEW c \in Conns, Accepted(c) PROVE UNCHANGED <<Shown, server, stored>>
    BY <2>1, ShownSame DEF Accepted, reading
  <2>2. ASSUME NEW c \in Conns, Serve(c) PROVE Feed!FeedNext
    <3>1. Shown' = [Shown EXCEPT ![c] = "connected"] /\ Shown[c] = "new"
      BY <2>2, ShownSet DEF Serve, Shown
    <3>2. server # "stopped" /\ UNCHANGED <<server, stored>>
      BY <2>2 DEF Serve, StoppedEmpty, reading
    <3>3. Feed!Announce(c)
      BY <3>1, <3>2 DEF Feed!Announce, Shown
    <3>. QED
      BY <3>3 DEF Feed!FeedNext
  <2>3. ASSUME NEW c \in Conns, Refuse(c)
        PROVE  Feed!FeedNext \/ UNCHANGED <<Shown, server, stored>>
    <3>1. Shown' = Shown /\ stored' = stored
      BY <2>3, ShownSame DEF Refuse, reading
    <3>2. server' = server \/ (server = "running" /\ server' = "stopping")
      BY <2>3 DEF Refuse
    <3>3. CASE server = "running" /\ server' = "stopping"
      <4>1. Feed!Stop
        BY <3>1, <3>3 DEF Feed!Stop, Shown
      <4>. QED
        BY <4>1 DEF Feed!FeedNext
    <3>. QED
      BY <3>1, <3>2, <3>3
  <2>4. ASSUME NEW c \in Conns, JustFails(c) PROVE UNCHANGED <<Shown, server, stored>>
    BY <2>4, ShownSame DEF JustFails, Fails, reading
  <2>5. ASSUME NEW c \in Conns, FinishParse(c)
        PROVE  Feed!FeedNext \/ UNCHANGED <<Shown, server, stored>>
    <3>1. link[c] \in {"serving", "failed"}
      BY <2>5 DEF FinishParse, ParserOpen, InParser
    <3>2. server' = server /\ (link' = link \/ link' = [link EXCEPT ![c] = "failed"])
      BY <2>5 DEF FinishParse
    <3>3. Shown' = Shown /\ Shown[c] = "connected"
      BY <3>1, <3>2, ShownSame DEF Shown
    <3>4. CASE stored' # stored
      <4>1. PICK n \in Ids : /\ \A k \in stored[c] : k < n
                             /\ stored' = [stored EXCEPT ![c] = @ \cup {n}]
        BY <2>5, <3>4, StoredStep
      <4>2. Feed!Store(c, n)
        BY <3>2, <3>3, <4>1 DEF Feed!Store, Shown
      <4>. QED
        BY <4>2 DEF Feed!FeedNext
    <3>. QED
      BY <3>2, <3>3, <3>4
  <2>6. ASSUME NEW c \in Conns, Close(c) PROVE Feed!FeedNext
    <3>1. link[c] = "failed" /\ link' = [link EXCEPT ![c] = "gone"] /\ UNCHANGED <<server, stored>>
      BY <2>6 DEF Close, Cleared
    <3>2. Shown' = [Shown EXCEPT ![c] = "gone"] /\ Shown[c] = "connected"
      BY <3>1, ShownSet DEF Shown
    <3>3. Feed!Part(c)
      BY <3>1, <3>2 DEF Feed!Part, Shown
    <3>. QED
      BY <3>3 DEF Feed!FeedNext
  <2>7. ASSUME StopServer PROVE Feed!FeedNext
    <3>1. Feed!Stop
      BY <2>7 DEF StopServer, Feed!Stop, Shown, reading
    <3>. QED
      BY <3>1 DEF Feed!FeedNext
  <2>8. ASSUME ServerEnds PROVE Feed!FeedNext
    <3>1. \A c \in Conns : Shown[c] # "connected"
      BY <2>8 DEF ServerEnds, Shown
    <3>2. Feed!Joined
      BY <2>8, <3>1 DEF ServerEnds, Feed!Joined, Shown, reading
    <3>. QED
      BY <3>2 DEF Feed!FeedNext
  <2>9. ASSUME NEW c \in Conns,
               PeerStep(c) \/ Read(c) \/ StartParse(c) \/ TakeBuffer(c) \/ SendDone(c)
        PROVE  UNCHANGED <<Shown, server, stored>>
    <3>1. UNCHANGED <<link, server, stored>>
      BY <2>9 DEF PeerStep, PeerSends, PeerEnds, PeerResets, Read, StartParse, TakeBuffer,
                  SendDone, reading
    <3>. QED
      BY <3>1 DEF Shown
  <2>10. CASE UNCHANGED vars
    BY <2>10 DEF vars, reading, Shown
  <2>11. Next =>
           \/ \E c \in Conns :
                \/ Accepted(c) \/ Serve(c) \/ Refuse(c) \/ JustFails(c) \/ FinishParse(c)
                \/ Close(c) \/ PeerStep(c) \/ Read(c) \/ StartParse(c) \/ TakeBuffer(c)
                \/ SendDone(c)
           \/ StopServer \/ ServerEnds
    BY DEF Next, Accept, Dial, Conns, ReadStep, ReadTooLong, ReadFails, WriteStep, SendFails,
           FullRaised, Cancel
  <2>. QED
    BY <2>1, <2>2, <2>3, <2>4, <2>5, <2>6, <2>7, <2>8, <2>9, <2>10, <2>11
<1>. QED
  BY <1>1, <1>2, CInvAlways, PTL DEF Spec, FeedsArchive, Feed!FeedSpec
=============================================================================
